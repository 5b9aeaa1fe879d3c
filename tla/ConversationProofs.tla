------------------------- MODULE ConversationProofs -------------------------
(***************************************************************************)
(* Theorems about Conversation, for any chats, any size of the window and  *)
(* of a turn, any number of crashes and every way a Save or a load may     *)
(* fail: what /new forgets stays forgotten, and, when the window holds the *)
(* longest turn, the model gets conversations it accepts, beginning with   *)
(* the user; every turn is bounded; and the sessions implement             *)
(* SessionStore.                                                           *)
(***************************************************************************)
EXTENDS Conversation, SequenceTheorems, WellFoundedInduction, TLAPS

-----------------------------------------------------------------------------
(* Parts of sequences *)

(* Min of a set of positions is one of them and the least. *)
LEMMA LeastPosition ==
    ASSUME NEW I, I \subseteq Nat, I # {}
    PROVE  Min(I) \in I /\ \A i \in I : Min(I) <= i
<1>1. PICK x \in I : \A y \in I : <<y, x>> \notin OpToRel(<, Nat)
  BY NatLessThanWellFounded, WFMin
<1>2. \A y \in I : x <= y
  <2> SUFFICES ASSUME NEW y \in I, y < x PROVE FALSE
    OBVIOUS
  <2>1. <<y, x>> \in OpToRel(<, Nat)
    BY DEF OpToRel
  <2> QED BY <1>1, <2>1
<1> QED BY <1>2 DEF Min

(* h is s from position q on. *)
TailFrom(h, s, q) ==
    /\ h \in Seq(Message) /\ q \in 1..(Len(s) + 1) /\ Len(h) = Len(s) - q + 1
    /\ \A i \in 1..Len(h) : h[i] = s[q + i - 1]

(* h is a beginning of s. *)
Begins(h, s) ==
    /\ h \in Seq(Message) /\ Len(h) <= Len(s)
    /\ \A i \in 1..Len(h) : h[i] = s[i]

LEMMA SubSeqSuffix ==
    ASSUME NEW s \in Seq(Message), NEW q \in 1..(Len(s) + 1)
    PROVE  TailFrom(SubSeq(s, q, Len(s)), s, q)
<1>1. Len(s) \in Nat /\ \A i \in q..Len(s) : s[i] \in Message
  BY LenProperties, ElementOfSeq
<1>2. /\ SubSeq(s, q, Len(s)) \in Seq(Message)
      /\ Len(SubSeq(s, q, Len(s))) = Len(s) - q + 1
      /\ \A i \in 1..(Len(s) - q + 1) : SubSeq(s, q, Len(s))[i] = s[q + i - 1]
  BY <1>1, SubSeqProperties
<1> QED BY <1>1, <1>2 DEF TailFrom

LEMMA SubSeqPrefix ==
    ASSUME NEW s \in Seq(Message), NEW n \in 0..Len(s)
    PROVE  Begins(SubSeq(s, 1, n), s)
<1>1. Len(s) \in Nat /\ \A i \in 1..n : s[i] \in Message
  BY LenProperties, ElementOfSeq
<1>2. /\ SubSeq(s, 1, n) \in Seq(Message)
      /\ Len(SubSeq(s, 1, n)) = n
      /\ \A i \in 1..n : SubSeq(s, 1, n)[i] = s[i]
  BY <1>1, SubSeqProperties
<1> QED BY <1>1, <1>2 DEF Begins

(* A suffix of a suffix is one. *)
LEMMA SuffixOfSuffix ==
    ASSUME NEW s \in Seq(Message), NEW w, NEW h, NEW p, NEW q,
           TailFrom(w, s, p), TailFrom(h, w, q)
    PROVE  TailFrom(h, s, p + q - 1)
<1>1. Len(s) \in Nat /\ Len(w) \in Nat /\ Len(h) \in Nat
  BY LenProperties DEF TailFrom
<1> QED BY <1>1 DEF TailFrom

(* Load reads the file, if there is one. *)
LEMMA LoadsFile ==
    ASSUME NEW f \in Seq(Message) \cup {NoFile}
    PROVE  /\ Load(f) \in Seq(Message)
           /\ f = NoFile => Load(f) = <<>>
           /\ f # NoFile => Load(f) = f
BY EmptySeq DEF Load

(* TrimHistoryStart leaves a suffix that begins with the first message of  *)
(* a user, if there is one.                                                *)
LEMMA TrimsToUser ==
    ASSUME NEW s \in Seq(Message)
    PROVE  \E q \in 1..(Len(s) + 1) :
              /\ TailFrom(TrimHistoryStart(s), s, q)
              /\ (\E u \in 1..Len(s) : s[u].role = "user")
                    => q \in 1..Len(s) /\ s[q].role = "user"
              /\ s # <<>> => q \in 1..Len(s)
<1> DEFINE I == {i \in 1..Len(s) : s[i].role = "user"}
<1>1. Len(s) \in Nat
  BY LenProperties
<1>2. TrimHistoryStart(s) =
         IF (IF I # {} THEN Min(I) ELSE 0) = 0 THEN s
         ELSE SubSeq(s, IF I # {} THEN Min(I) ELSE 0, Len(s))
  BY DEF TrimHistoryStart, SelectInSeq
<1>3. I # {} => Min(I) \in I
  <2>1. I \subseteq Nat
    BY <1>1
  <2> HIDE DEF I
  <2> QED BY <2>1, LeastPosition
<1>4. CASE I = {}
  <2>1. TrimHistoryStart(s) = s
    BY <1>2, <1>4
  <2>2. TailFrom(s, s, 1)
    BY <1>1 DEF TailFrom
  <2>3. s # <<>> => 1 \in 1..Len(s)
    BY <1>1, EmptySeq
  <2> QED BY <1>1, <1>4, <2>1, <2>2, <2>3
<1>5. CASE I # {}
  <2>1. Min(I) \in 1..Len(s) /\ s[Min(I)].role = "user"
    BY <1>3, <1>5
  <2>2. TrimHistoryStart(s) = SubSeq(s, Min(I), Len(s))
    <3>1. Min(I) # 0
      BY <1>1, <2>1
    <3> HIDE DEF I
    <3> QED BY <1>2, <1>5, <3>1
  <2> HIDE DEF I
  <2> QED BY <1>1, <2>1, <2>2, SubSeqSuffix
<1> QED BY <1>4, <1>5

(* GetHistory is a suffix; it begins with a message of a user if one is    *)
(* among the last Window messages.                                         *)
LEMMA HistoryIsSuffix ==
    ASSUME NEW s \in Seq(Message)
    PROVE  \E q \in 1..(Len(s) + 1) :
              /\ TailFrom(GetHistory(s), s, q)
              /\ (\E u \in 1..Len(s) : u > Len(s) - Window /\ s[u].role = "user")
                    => q \in 1..Len(s) /\ s[q].role = "user"
<1> DEFINE p == IF Len(s) <= Window THEN 1 ELSE Len(s) - Window + 1
           w == SubSeq(s, p, Len(s))
<1>1. Len(s) \in Nat /\ Window \in Nat \ {0}
  BY LenProperties, SizesAssumption
<1>2. p \in 1..(Len(s) + 1)
  BY <1>1
<1>3. TailFrom(w, s, p)
  BY <1>2, SubSeqSuffix
<1>4. GetHistory(s) = TrimHistoryStart(w)
  <2>1. CASE Len(s) <= Window
    <3>1. SubSeq(s, 1, Len(s)) = s
      BY SubSeqFull
    <3> QED BY <2>1, <3>1 DEF GetHistory
  <2>2. CASE ~(Len(s) <= Window)
    BY <2>2 DEF GetHistory
  <2> QED BY <2>1, <2>2
<1> HIDE DEF w
<1>5. w \in Seq(Message) /\ Len(w) \in Nat
  BY <1>3, LenProperties DEF TailFrom
<1>6. PICK r \in 1..(Len(w) + 1) :
         /\ TailFrom(TrimHistoryStart(w), w, r)
         /\ (\E u \in 1..Len(w) : w[u].role = "user")
               => r \in 1..Len(w) /\ w[r].role = "user"
  BY <1>5, TrimsToUser
<1> DEFINE q == p + r - 1
<1>7. TailFrom(GetHistory(s), s, q)
  BY <1>3, <1>4, <1>6, SuffixOfSuffix
<1>8. Len(w) = Len(s) - p + 1 /\ \A i \in 1..Len(w) : w[i] = s[p + i - 1]
  BY <1>3 DEF TailFrom
<1>9. ASSUME NEW u \in 1..Len(s), u > Len(s) - Window, s[u].role = "user"
      PROVE  q \in 1..Len(s) /\ s[q].role = "user"
  <2> DEFINE v == u - p + 1
  <2>1. v \in 1..Len(w) /\ p + v - 1 = u
    BY <1>1, <1>2, <1>8, <1>9
  <2> HIDE DEF p, v
  <2>2. w[v].role = "user"
    BY <1>8, <1>9, <2>1
  <2>3. r \in 1..Len(w) /\ w[r].role = "user"
    BY <1>6, <2>1, <2>2
  <2>4. w[r] = s[p + r - 1]
    BY <1>8, <2>3
  <2>5. p + r - 1 \in 1..Len(s)
    BY <1>1, <1>2, <1>8, <2>3
  <2> QED BY <2>3, <2>4, <2>5
<1>10. q \in 1..(Len(s) + 1)
  BY <1>7 DEF TailFrom
<1> QED BY <1>7, <1>9, <1>10

-----------------------------------------------------------------------------
(* Types *)

Working == {"ask", "tools", "reply", "save", "clear", "confirm"}

(* An agent at work has a chat, whose session is in memory; it has a       *)
(* request left while it asks and a call left while it executes calls.     *)
WorkOK ==
    /\ pc \in Working => chat \in Chats /\ sessions[chat] \in Seq(Message) /\ turns >= 1
    /\ pc \in {"ask", "tools"} => iteration < MaxIteration
    /\ pc = "tools" => calls.done < calls.all

TypeInv == TypeOK /\ WorkOK

(* The messages the agent appends are messages. *)
LEMMA MessagesTyped ==
    ASSUME NEW t \in 1..MaxTurns, NEW n \in 0..MaxCalls
    PROVE  Assistant(t, n) \in Message /\ ToolResult(t, n) \in Message
BY SizesAssumption DEF Assistant, ToolResult, Message

LEMMA UserTyped ==
    ASSUME NEW t \in 1..MaxTurns
    PROVE  User(t) \in Message
BY SizesAssumption DEF User, Message

(* A session in memory, or read back, is a sequence of messages, and what  *)
(* a turn starts from is a beginning of it.                                *)
LEMMA SessionTyped ==
    ASSUME TypeOK, NEW c \in Chats
    PROVE  /\ Session(c) \in Seq(Message)
           /\ \A s \in GetOrCreate(c) :
                 /\ s \in Seq(Message) /\ Begins(s, Session(c))
                 /\ s = Session(c) \/ (s \in Beginnings(Session(c)) /\ sessions[c] = NotLoaded)
<1>1. Load(files[c]) \in Seq(Message)
  BY LoadsFile DEF TypeOK
<1>2. Session(c) \in Seq(Message)
  BY <1>1 DEF Session, TypeOK
<1>3. ASSUME NEW s \in GetOrCreate(c)
      PROVE  /\ s \in Seq(Message) /\ Begins(s, Session(c))
             /\ s = Session(c) \/ (s \in Beginnings(Session(c)) /\ sessions[c] = NotLoaded)
  <2>1. CASE s = Session(c)
    BY <1>2, <2>1, LenProperties DEF Begins
  <2>2. CASE s \in Misread(c)
    <3>1. sessions[c] = NotLoaded /\ s \in Beginnings(Load(files[c]))
      BY <2>2 DEF Misread
    <3>2. Session(c) = Load(files[c])
      BY <3>1 DEF Session
    <3>3. PICK i \in 0..Len(Session(c)) : s = SubSeq(Session(c), 1, i)
      BY <3>1, <3>2 DEF Beginnings
    <3>4. Begins(s, Session(c))
      BY <1>2, <3>3, SubSeqPrefix
    <3> QED BY <3>1, <3>2, <3>4 DEF Begins
  <2> QED BY <2>1, <2>2 DEF GetOrCreate
<1> QED BY <1>2, <1>3

(* A session in memory is not mistaken for one that is not. *)
LEMMA SessionIsLoaded == \A s \in Seq(Message) : s # NotLoaded /\ s # NoFile
BY MarksAssumption

(* Appending to the session and to the request keeps them sequences. *)
LEMMA AppendsTyped ==
    ASSUME TypeInv, pc \in Working, NEW STATE m, m \in Message,
           sessions' = [sessions EXCEPT ![chat] = Append(@, m)],
           messages' = Append(messages, m)
    PROVE  /\ sessions' \in [Chats -> Seq(Message) \cup {NotLoaded}]
           /\ sessions'[chat] = Append(sessions[chat], m)
           /\ sessions'[chat] \in Seq(Message)
           /\ messages' \in Seq(Message)
<1>1. chat \in Chats /\ sessions[chat] \in Seq(Message) /\ messages \in Seq(Message)
  BY DEF TypeInv, TypeOK, WorkOK
<1>2. Append(sessions[chat], m) \in Seq(Message) /\ Append(messages, m) \in Seq(Message)
  BY <1>1, AppendProperties
<1> QED BY <1>1, <1>2 DEF TypeInv, TypeOK

(* The results of a Save, a beginning of the session included, are files.  *)
LEMMA SaveTyped ==
    ASSUME TypeInv, NEW f \in Seq(Message) \cup {NoFile}, SaveResult(f)
    PROVE  /\ files' \in [Chats -> Seq(Message) \cup {NoFile}]
           /\ files'[chat] = f
           /\ chat \in Chats /\ sessions[chat] \in Seq(Message)
           /\ pc' \in {"confirm", "idle"} /\ chat' \in Chats \cup {NoChat}
BY DEF TypeInv, TypeOK, WorkOK, Working, SaveResult

(* Every step keeps the types. *)
LEMMA TypeStep ==
    ASSUME TypeInv, [Next]_vars
    PROVE  TypeInv'
<1>1. ASSUME NEW c \in Chats, BeginTurn(c) PROVE TypeInv'
  <2>0. PICK s \in GetOrCreate(c) :
          /\ messages' = Append(GetHistory(s), User(turns'))
          /\ sessions' = [sessions EXCEPT ![c] = Append(s, User(turns'))]
          /\ damaged' = IF s \in {Session(c), <<>>} THEN damaged ELSE damaged \cup {c}
    BY <1>1 DEF BeginTurn
  <2>1. turns' = turns + 1 /\ turns' \in 1..MaxTurns
    BY <1>1, SizesAssumption DEF BeginTurn, TypeInv, TypeOK
  <2>2. s \in Seq(Message) /\ GetHistory(s) \in Seq(Message)
    BY SessionTyped, HistoryIsSuffix DEF TypeInv, TailFrom
  <2>3. User(turns') \in Message
    BY <2>1, UserTyped
  <2>4. Append(s, User(turns')) \in Seq(Message)
        /\ Append(GetHistory(s), User(turns')) \in Seq(Message)
    BY <2>2, <2>3, AppendProperties
  <2>5. damaged' \subseteq Chats
    BY <2>0 DEF TypeInv, TypeOK
  <2>6. sessions' \in [Chats -> Seq(Message) \cup {NotLoaded}] /\ sessions'[c] \in Seq(Message)
    BY <2>0, <2>4 DEF TypeInv, TypeOK
  <2>7. messages' \in Seq(Message)
    BY <2>0, <2>4
  <2> QED BY <1>1, <2>1, <2>5, <2>6, <2>7, SizesAssumption
          DEF BeginTurn, TypeInv, TypeOK, WorkOK
<1>2. ASSUME NEW n \in 0..MaxCalls, NEW stop \in {FALSE, StopWithCalls}, Complete(n, stop)
      PROVE  TypeInv'
  <2>1. Assistant(turns, n) \in Message
    <3>1. turns \in 1..MaxTurns
      BY <1>2, SizesAssumption DEF Complete, TypeInv, TypeOK, WorkOK, Working
    <3> QED BY <3>1, MessagesTyped
  <2>2. /\ sessions' \in [Chats -> Seq(Message) \cup {NotLoaded}]
        /\ sessions'[chat] \in Seq(Message) /\ messages' \in Seq(Message)
    BY <1>2, <2>1, AppendsTyped DEF Complete, AddMessage, Working
  <2> QED BY <1>2, <2>2, SizesAssumption
          DEF Complete, TypeInv, TypeOK, WorkOK, Working, historyVars
<1>3. CASE CompleteFails \/ Reply \/ Restart
  <2>1. <<>> \in Seq(Message) /\ 0 \in 0..MaxIteration
    BY EmptySeq, SizesAssumption
  <2>2. CASE CompleteFails
    BY <2>2 DEF CompleteFails, TypeInv, TypeOK, WorkOK, Working, historyVars
  <2>3. CASE Reply
    BY <2>1, <2>3 DEF Reply, TypeInv, TypeOK, WorkOK, Working, historyVars
  <2>4. CASE Restart
    BY <2>4 DEF Restart, TypeInv, TypeOK, WorkOK, Working, historyVars
  <2> QED BY <1>3, <2>2, <2>3, <2>4
<1>4. CASE ExecuteToolCall
  <2> DEFINE d == calls.done + 1
  <2>1. d \in 1..MaxCalls /\ iteration + 1 \in 0..MaxIteration
    <3>1. /\ iteration \in Nat /\ iteration < MaxIteration
          /\ calls.done \in Nat /\ calls.all \in 0..MaxCalls /\ calls.done < calls.all
      BY <1>4, SizesAssumption DEF ExecuteToolCall, TypeInv, TypeOK, WorkOK
    <3> QED BY <3>1, SizesAssumption
  <2>2. ToolResult(turns, d) \in Message
    <3>1. turns \in 1..MaxTurns /\ d \in 0..MaxCalls
      BY <1>4, <2>1, SizesAssumption DEF ExecuteToolCall, TypeInv, TypeOK, WorkOK, Working
    <3> QED BY <2>1, <3>1, MessagesTyped
  <2>3. /\ sessions' \in [Chats -> Seq(Message) \cup {NotLoaded}]
        /\ sessions'[chat] \in Seq(Message) /\ messages' \in Seq(Message)
    BY <1>4, <2>2, AppendsTyped DEF ExecuteToolCall, AddMessage, Working
  <2>4. calls' \in [all : 0..MaxCalls, done : 0..MaxCalls]
    <3>1. calls \in [all : 0..MaxCalls, done : 0..MaxCalls]
      BY DEF TypeInv, TypeOK
    <3>2. NoCalls \in [all : 0..MaxCalls, done : 0..MaxCalls]
      BY SizesAssumption DEF NoCalls
    <3>3. calls' = [calls EXCEPT !.done = d] \/ calls' = NoCalls
      BY <1>4, <3>1 DEF ExecuteToolCall
    <3>4. d \in 0..MaxCalls
      BY <2>1, SizesAssumption
    <3> QED BY <3>1, <3>2, <3>3, <3>4
  <2>5. /\ pc' = "tools" => calls'.done < calls'.all
        /\ pc' \in {"ask", "tools"} => iteration' < MaxIteration
        /\ iteration' \in 0..MaxIteration /\ pc' \in {"ask", "tools", "reply"}
    <3>1. CASE d < calls.all
      BY <1>4, <2>1, <3>1 DEF ExecuteToolCall, TypeInv, TypeOK, WorkOK
    <3>2. CASE ~(d < calls.all)
      BY <1>4, <2>1, <3>2 DEF ExecuteToolCall, TypeInv, TypeOK, WorkOK
    <3> QED BY <3>1, <3>2
  <2> QED BY <1>4, <2>3, <2>4, <2>5
          DEF ExecuteToolCall, TypeInv, TypeOK, WorkOK, Working, historyVars
<1>5. ASSUME NEW c \in Chats, NewCommand(c) PROVE TypeInv'
  BY <1>5, EmptySeq, SizesAssumption
     DEF NewCommand, TypeInv, TypeOK, WorkOK, Working, historyVars
<1>6. CASE Confirm
  BY <1>6 DEF Confirm, TypeInv, TypeOK, WorkOK, Working
<1>7. CASE Save
  <2>1. sessions[chat] \in Seq(Message)
    BY <1>7 DEF Save, SaveResult, TypeInv, WorkOK, Working
  <2>2. SaveResult(sessions[chat])
    BY <1>7 DEF Save
  <2>3. torn' \subseteq Chats /\ failed' \subseteq Chats
    BY <1>7, <2>1, <2>2, SaveTyped DEF Save, SavedTorn, TypeInv, TypeOK
  <2> QED BY <2>1, <2>2, <2>3, SaveTyped
          DEF SaveResult, TypeInv, TypeOK, WorkOK, Working
<1>8. CASE SaveFails
  <2>1. pc \in Working /\ chat \in Chats /\ sessions[chat] \in Seq(Message)
    BY <1>8 DEF SaveFails, SaveResult, TypeInv, WorkOK, Working
  <2>2. \E f \in Seq(Message) \cup {NoFile} : SaveResult(f)
    <3>1. files[chat] \in Seq(Message) \cup {NoFile}
      BY <2>1 DEF TypeInv, TypeOK
    <3>2. Beginnings(sessions[chat]) \subseteq Seq(Message)
      BY <2>1, SubSeqPrefix DEF Begins, Beginnings
    <3> QED BY <1>8, <3>1, <3>2 DEF SaveFails
  <2>3. torn' \subseteq Chats /\ failed' \subseteq Chats
    BY <1>8, <2>1 DEF SaveFails, TypeInv, TypeOK
  <2> QED BY <2>1, <2>2, <2>3, SaveTyped
          DEF SaveResult, TypeInv, TypeOK, WorkOK, Working
<1>9. CASE Crash
  <2>1. /\ files' \in [Chats -> Seq(Message) \cup {NoFile}]
        /\ torn' \subseteq Chats
    <3>1. CASE UNCHANGED <<files, torn>>
      BY <3>1 DEF TypeInv, TypeOK
    <3>2. ASSUME NEW f \in Torn, files' = [files EXCEPT ![chat] = f],
                 torn' = torn \cup {chat}
          PROVE  files' \in [Chats -> Seq(Message) \cup {NoFile}] /\ torn' \subseteq Chats
      <4>1. chat \in Chats /\ sessions[chat] \in Seq(Message)
        BY DEF Torn, TypeInv, WorkOK, Working
      <4>2. f \in Seq(Message)
        BY <4>1, SubSeqPrefix DEF Torn, Begins, Beginnings
      <4> QED BY <3>2, <4>1, <4>2 DEF TypeInv, TypeOK
    <3> QED BY <1>9, <3>1, <3>2 DEF Crash
  <2>2. fresh' \in [Chats -> 0..MaxTurns]
    BY <1>9, SizesAssumption DEF Crash, TypeInv, TypeOK
  <2>3. crashes' \in 0..MaxCrashes
    BY <1>9, SizesAssumption DEF Crash, TypeInv, TypeOK
  <2> QED BY <1>9, <2>1, <2>2, <2>3, EmptySeq, SizesAssumption
          DEF Crash, NoCalls, TypeInv, TypeOK, WorkOK, Working
<1>10. CASE UNCHANGED vars
  BY <1>10 DEF vars, TypeInv, TypeOK, WorkOK
<1> QED
  BY <1>1, <1>2, <1>3, <1>4, <1>5, <1>6, <1>7, <1>8, <1>9, <1>10 DEF Next, TurnStep

(* Every reachable state of the agent and its sessions is well typed: no   *)
(* turn makes more requests than it may, and the file of a session holds   *)
(* messages whatever a crash or a failed Save left of it.                  *)
THEOREM ConversationTypeCorrect == Spec => []TypeOK
<1>1. Init => TypeInv
  BY EmptySeq, SizesAssumption DEF Init, TypeInv, TypeOK, WorkOK, Working, NoCalls
<1>2. TypeInv /\ [Next]_vars => TypeInv'
  BY TypeStep
<1>3. TypeInv => TypeOK
  BY DEF TypeInv
<1> QED BY <1>1, <1>2, <1>3, PTL DEF Spec

-----------------------------------------------------------------------------
(* What /new forgets stays forgotten *)

After(s, t) == \A i \in 1..Len(s) : s[i].turn > t

(* Nothing older than the last confirmed /new of a chat is in its session, *)
(* in the request made from it, or in its file, unless the last Save       *)
(* failed; and /new is confirmed when nothing is left.                     *)
FreshInv ==
    /\ \A c \in Chats :
          /\ fresh[c] <= turns
          /\ sessions[c] # NotLoaded => After(sessions[c], fresh[c])
          /\ sessions[c] = NotLoaded => c \notin failed
          /\ files[c] # NoFile /\ c \notin failed => After(files[c], fresh[c])
    /\ pc \in {"ask", "tools"} => turns > fresh[chat] /\ After(messages, fresh[chat])
    /\ pc \in {"clear", "confirm"} => sessions[chat] = <<>>
    /\ pc = "confirm" => chat \in failed \/ files[chat] \in {<<>>, NoFile}

(* Parts of a sequence of recent messages are recent. *)
LEMMA AfterPart ==
    ASSUME NEW s \in Seq(Message), NEW h, NEW t,
           After(s, t), Begins(h, s) \/ \E q : TailFrom(h, s, q)
    PROVE  After(h, t)
<1>1. Len(s) \in Nat
  BY LenProperties
<1>2. CASE Begins(h, s)
  BY <1>1, <1>2, LenProperties DEF Begins, After
<1>3. ASSUME NEW q, TailFrom(h, s, q) PROVE After(h, t)
  <2>1. q \in 1..(Len(s) + 1) /\ Len(h) = Len(s) - q + 1
    BY <1>3 DEF TailFrom
  <2>2. ASSUME NEW i \in 1..Len(h) PROVE h[i].turn > t
    <3>1. h[i] = s[q + i - 1]
      BY <1>3 DEF TailFrom
    <3>2. q + i - 1 \in 1..Len(s)
      BY <1>1, <2>1
    <3> QED BY <3>1, <3>2 DEF After
  <2> QED BY <2>2 DEF After
<1> QED BY <1>2, <1>3

LEMMA AfterAppend ==
    ASSUME NEW s \in Seq(Message), NEW t, NEW m \in Message, After(s, t), m.turn > t
    PROVE  After(Append(s, m), t)
BY AppendProperties DEF After

LEMMA AfterEmpty == \A t : After(<<>>, t)
BY DEF After

(* The turn of a message the agent appends. *)
LEMMA TurnOfMessage ==
    \A t, n : User(t).turn = t /\ Assistant(t, n).turn = t /\ ToolResult(t, n).turn = t
BY DEF User, Assistant, ToolResult

(* A session that is read back, as far as it is, holds what its file holds. *)
LEMMA LoadedIsFresh ==
    ASSUME TypeInv, FreshInv, NEW c \in Chats
    PROVE  \A s \in GetOrCreate(c) : s \in Seq(Message) /\ After(s, fresh[c])
<1>1. After(Session(c), fresh[c])
  <2>1. CASE sessions[c] # NotLoaded
    BY <2>1 DEF Session, FreshInv
  <2>2. CASE sessions[c] = NotLoaded
    <3>1. files[c] \in Seq(Message) \cup {NoFile} /\ c \notin failed
      BY <2>2 DEF TypeInv, TypeOK, FreshInv
    <3>2. CASE files[c] = NoFile
      BY <2>2, <3>2, AfterEmpty DEF Session, Load
    <3>3. CASE files[c] # NoFile
      BY <2>2, <3>1, <3>3 DEF Session, Load, FreshInv
    <3> QED BY <3>2, <3>3
  <2> QED BY <2>1, <2>2
<1>2. ASSUME NEW s \in GetOrCreate(c) PROVE s \in Seq(Message) /\ After(s, fresh[c])
  <2>1. s \in Seq(Message) /\ Begins(s, Session(c)) /\ Session(c) \in Seq(Message)
    BY SessionTyped DEF TypeInv
  <2> QED BY <1>1, <2>1, AfterPart
<1> QED BY <1>2

(* Appending a message of this turn, which no /new has ended. *)
LEMMA FreshAppend ==
    ASSUME TypeInv, FreshInv, pc \in {"ask", "tools"}, NEW STATE m, m \in Message, m.turn = turns,
           sessions' = [sessions EXCEPT ![chat] = Append(@, m)],
           messages' = Append(messages, m),
           pc' \in {"ask", "tools", "reply"},
           UNCHANGED <<files, chat, turns, fresh, failed>>
    PROVE  FreshInv'
<1>1. chat \in Chats /\ sessions[chat] \in Seq(Message) /\ messages \in Seq(Message)
  BY DEF TypeInv, TypeOK, WorkOK, Working
<1>2. turns > fresh[chat] /\ After(messages, fresh[chat]) /\ After(sessions[chat], fresh[chat])
  BY <1>1, SessionIsLoaded DEF FreshInv
<1>3. After(messages', fresh[chat]) /\ After(Append(sessions[chat], m), fresh[chat])
  BY <1>1, <1>2, AfterAppend
<1>4. Append(sessions[chat], m) \in Seq(Message)
  BY <1>1, AppendProperties
<1>5. \A c \in Chats : sessions'[c] = IF c = chat THEN Append(sessions[chat], m) ELSE sessions[c]
  BY <1>1 DEF TypeInv, TypeOK
<1> QED BY <1>1, <1>2, <1>3, <1>4, <1>5, SessionIsLoaded DEF FreshInv

(* Every step keeps it. *)
LEMMA FreshStep ==
    ASSUME TypeInv, TypeInv', FreshInv, [Next]_vars
    PROVE  FreshInv'
<1>t. /\ turns \in Nat /\ \A c \in Chats : fresh[c] \in Nat
      /\ sessions \in [Chats -> Seq(Message) \cup {NotLoaded}]
      /\ files \in [Chats -> Seq(Message) \cup {NoFile}]
      /\ fresh \in [Chats -> 0..MaxTurns]
  BY SizesAssumption DEF TypeInv, TypeOK
<1>w. pc \in Working => chat \in Chats /\ sessions[chat] \in Seq(Message)
  BY DEF TypeInv, WorkOK
<1>1. ASSUME NEW c \in Chats, BeginTurn(c) PROVE FreshInv'
  <2>0. PICK s \in GetOrCreate(c) :
          /\ messages' = Append(GetHistory(s), User(turns'))
          /\ sessions' = [sessions EXCEPT ![c] = Append(s, User(turns'))]
    BY <1>1 DEF BeginTurn
  <2> DEFINE h == GetHistory(s)
  <2>1. s \in Seq(Message) /\ After(s, fresh[c])
    BY LoadedIsFresh
  <2>2. h \in Seq(Message) /\ After(h, fresh[c])
    <3>1. \E q : TailFrom(h, s, q)
      BY <2>1, HistoryIsSuffix
    <3>2. h \in Seq(Message)
      BY <3>1 DEF TailFrom
    <3> QED BY <2>1, <3>1, <3>2, AfterPart
  <2>3. turns' = turns + 1 /\ turns' > fresh[c] /\ User(turns').turn > fresh[c] /\ User(turns') \in Message
    <3>1. turns' = turns + 1 /\ turns' \in 1..MaxTurns
      BY <1>1, <1>t, SizesAssumption DEF BeginTurn
    <3> QED BY <1>t, <3>1, UserTyped, TurnOfMessage DEF FreshInv
  <2> HIDE DEF h
  <2>4. After(Append(s, User(turns')), fresh[c]) /\ After(Append(h, User(turns')), fresh[c])
    BY <2>1, <2>2, <2>3, AfterAppend
  <2>5. Append(s, User(turns')) # NotLoaded
    BY <2>1, <2>3, AppendProperties, SessionIsLoaded
  <2>6. \A d \in Chats : sessions'[d] = IF d = c THEN Append(s, User(turns')) ELSE sessions[d]
    BY <1>t, <2>0
  <2>7. messages' = Append(h, User(turns')) /\ chat' = c /\ pc' = "ask"
        /\ UNCHANGED <<files, fresh, failed>>
    BY <1>1, <2>0 DEF BeginTurn, h
  <2>8. ASSUME NEW d \in Chats
        PROVE  /\ fresh'[d] <= turns'
               /\ sessions'[d] # NotLoaded => After(sessions'[d], fresh'[d])
               /\ sessions'[d] = NotLoaded => d \notin failed'
               /\ files'[d] # NoFile /\ d \notin failed' => After(files'[d], fresh'[d])
    <3>1. fresh[d] <= turns /\ turns <= turns' /\ turns' \in Nat
      BY <1>t, <2>3 DEF FreshInv
    <3>2. fresh'[d] <= turns'
      BY <1>t, <2>7, <3>1
    <3> QED BY <2>4, <2>5, <2>6, <2>7, <3>2 DEF FreshInv
  <2>9. turns' > fresh'[chat'] /\ After(messages', fresh'[chat'])
    BY <2>3, <2>4, <2>7
  <2> QED BY <2>7, <2>8, <2>9 DEF FreshInv
<1>2. ASSUME NEW n \in 0..MaxCalls, NEW stop \in {FALSE, StopWithCalls}, Complete(n, stop)
      PROVE  FreshInv'
  <2>1. turns \in 1..MaxTurns
    BY <1>2, SizesAssumption DEF Complete, TypeInv, TypeOK, WorkOK, Working
  <2>2. Assistant(turns, n) \in Message /\ Assistant(turns, n).turn = turns
    BY <2>1, MessagesTyped, TurnOfMessage
  <2> QED BY <1>2, <2>2, FreshAppend DEF Complete, AddMessage, historyVars
<1>3. CASE ExecuteToolCall
  <2>1. turns \in 1..MaxTurns /\ calls.done + 1 \in 0..MaxCalls
    <3>1. /\ calls.done \in Nat /\ calls.all \in 0..MaxCalls /\ calls.done < calls.all
      BY <1>3, SizesAssumption DEF ExecuteToolCall, TypeInv, TypeOK, WorkOK
    <3>2. turns \in 1..MaxTurns
      BY <1>3, SizesAssumption DEF ExecuteToolCall, TypeInv, TypeOK, WorkOK, Working
    <3> QED BY <3>1, <3>2, SizesAssumption
  <2> DEFINE m == ToolResult(turns, calls.done + 1)
  <2>2. m \in Message /\ m.turn = turns
    BY <2>1, MessagesTyped, TurnOfMessage
  <2>3. /\ pc = "tools" /\ messages' = Append(messages, m)
        /\ sessions' = [sessions EXCEPT ![chat] = Append(@, m)]
        /\ pc' \in {"ask", "tools", "reply"} /\ UNCHANGED <<files, chat, turns, fresh, failed>>
    BY <1>3 DEF ExecuteToolCall, AddMessage, historyVars
  <2> HIDE DEF m
  <2> QED BY <2>2, <2>3, FreshAppend
<1>4. CASE CompleteFails \/ Reply \/ Restart \/ UNCHANGED vars
  BY <1>4 DEF CompleteFails, Reply, Restart, FreshInv, historyVars, vars
<1>5. ASSUME NEW c \in Chats, NewCommand(c) PROVE FreshInv'
  <2>1. \A d \in Chats : sessions'[d] = IF d = c THEN <<>> ELSE sessions[d]
    BY <1>5, <1>t DEF NewCommand
  <2>2. <<>> # NotLoaded
    BY EmptySeq, SessionIsLoaded
  <2>3. /\ turns' = turns + 1 /\ pc' = "clear" /\ chat' = c
        /\ UNCHANGED <<files, fresh, failed>>
    BY <1>5 DEF NewCommand
  <2> QED BY <1>t, <2>1, <2>2, <2>3, AfterEmpty DEF FreshInv
<1>6. CASE Confirm
  <2>1. chat \in Chats /\ sessions[chat] = <<>> /\ <<>> # NotLoaded
    BY <1>6, <1>w, EmptySeq, SessionIsLoaded DEF Confirm, FreshInv, Working
  <2>2. chat \in failed \/ files[chat] \in {<<>>, NoFile}
    BY <1>6 DEF Confirm, FreshInv
  <2>3. \A c \in Chats : fresh'[c] = IF c = chat THEN turns ELSE fresh[c]
    BY <1>6, <1>t DEF Confirm
  <2>4. pc' = "idle" /\ UNCHANGED <<sessions, files, turns, failed>>
    BY <1>6 DEF Confirm
  <2> QED BY <1>t, <2>1, <2>2, <2>3, <2>4, AfterEmpty DEF FreshInv
<1>7. CASE Save \/ SaveFails
  <2>1. PICK f : SaveResult(f) /\ \/ f = sessions[chat] /\ failed' = failed \ {chat}
                                  \/ failed' = failed \cup {chat}
    BY <1>7 DEF Save, SaveFails
  <2>2. chat \in Chats /\ sessions[chat] \in Seq(Message) /\ sessions[chat] # NotLoaded
    BY <2>1, <1>w, SessionIsLoaded DEF SaveResult, Working
  <2>3. \A c \in Chats : files'[c] = IF c = chat THEN f ELSE files[c]
    BY <1>t, <2>1 DEF SaveResult
  <2>4. /\ pc' = (IF pc = "clear" THEN "confirm" ELSE "idle") /\ pc \in {"save", "clear"}
        /\ chat' = (IF pc = "clear" THEN chat ELSE NoChat)
        /\ UNCHANGED <<sessions, turns, fresh>>
    BY <2>1 DEF SaveResult
  <2>5. \A c \in Chats : /\ c # chat => (c \in failed' <=> c \in failed)
                         /\ c = chat => c \in failed' \/ f = sessions[c]
    BY <2>1
  <2> QED BY <2>2, <2>3, <2>4, <2>5 DEF FreshInv
<1>8. CASE Crash
  <2>1. /\ pc' = "down" /\ failed' = {} /\ turns' = turns
        /\ \A c \in Chats : fresh'[c] = IF c \in failed THEN 0 ELSE fresh[c]
        /\ \A c \in Chats : sessions'[c] = NotLoaded
    BY <1>8 DEF Crash
  <2>2. ASSUME NEW c \in Chats, files'[c] # NoFile PROVE After(files'[c], fresh'[c])
    <3>1. files'[c] \in Seq(Message)
      BY <2>2 DEF TypeInv, TypeOK
    <3>2. CASE c \in failed
      <4>1. \A i \in 1..Len(files'[c]) : files'[c][i] \in Message
        BY <3>1, ElementOfSeq
      <4>2. \A m \in Message : m.turn > 0
        BY SizesAssumption DEF Message
      <4> QED BY <2>1, <3>2, <4>1, <4>2 DEF After
    <3>3. CASE c \notin failed /\ files'[c] = files[c]
      BY <2>1, <2>2, <3>3 DEF FreshInv
    <3>4. CASE c \notin failed /\ files'[c] # files[c]
      <4>1. PICK f \in Torn : files' = [files EXCEPT ![chat] = f]
        BY <1>8, <3>4 DEF Crash
      <4>2. chat \in Chats /\ sessions[chat] \in Seq(Message) /\ sessions[chat] # NotLoaded
        BY <4>1, <1>w, SessionIsLoaded DEF Torn, Working
      <4>3. Begins(f, sessions[chat])
        BY <4>1, <4>2, SubSeqPrefix DEF Torn, Beginnings
      <4>4. After(f, fresh[chat])
        BY <4>2, <4>3, AfterPart DEF FreshInv
      <4>5. c = chat /\ files'[c] = f
        BY <1>t, <3>4, <4>1, <4>2
      <4> QED BY <2>1, <3>4, <4>4, <4>5
    <3> QED BY <3>2, <3>3, <3>4
  <2>3. \A c \in Chats : fresh'[c] <= turns'
    BY <1>t, <2>1 DEF FreshInv
  <2> QED BY <2>1, <2>2, <2>3 DEF FreshInv
<1> QED
  BY <1>1, <1>2, <1>3, <1>4, <1>5, <1>6, <1>7, <1>8 DEF Next, TurnStep

(* No request of a chat holds anything said before a confirmed /new of it, *)
(* through crashes, torn and failed saves, unless the last Save before a   *)
(* crash had failed.                                                       *)
THEOREM NewForgets == Spec => []FreshStart
<1>1. Init => TypeInv /\ FreshInv
  BY EmptySeq, SizesAssumption
     DEF Init, TypeInv, TypeOK, WorkOK, Working, NoCalls, FreshInv
<1>2. TypeInv /\ [Next]_vars => TypeInv'
  BY TypeStep
<1>3. TypeInv /\ TypeInv' /\ FreshInv /\ [Next]_vars => FreshInv'
  BY FreshStep
<1>4. TypeInv /\ FreshInv => FreshStart
  <2> SUFFICES ASSUME TypeInv, FreshInv, pc = "ask", NEW i \in DOMAIN messages
               PROVE  messages[i].turn > fresh[chat]
    BY DEF FreshStart
  <2>1. i \in 1..Len(messages)
    BY LenProperties DEF TypeInv, TypeOK
  <2> QED BY <2>1 DEF FreshInv, After
<1> QED BY <1>1, <1>2, <1>3, <1>4, PTL DEF Spec

-----------------------------------------------------------------------------
(* What the model gets *)

WellFormedAt(s, i) == CallsAnswered(s, i) /\ ResultHasCall(s, i)
Whole(s) == \A i \in 1..Len(s) : WellFormedAt(s, i)

(* A message that is well formed stays so when another is appended. *)
LEMMA AppendKeepsForm ==
    ASSUME NEW s \in Seq(Message), NEW m \in Message, NEW i \in 1..Len(s), WellFormedAt(s, i)
    PROVE  WellFormedAt(Append(s, m), i)
<1> DEFINE a == Append(s, m)
<1>1. /\ Len(s) \in Nat /\ DOMAIN s = 1..Len(s) /\ DOMAIN a = 1..(Len(s) + 1)
      /\ \A j \in 1..Len(s) : a[j] = s[j]
  BY LenProperties, AppendProperties
<1>2. s[i] \in Message
  BY ElementOfSeq
<1> HIDE DEF a
<1>3. CallsAnswered(a, i)
  BY <1>1, <1>2 DEF WellFormedAt, CallsAnswered, Message
<1>4. ResultHasCall(a, i)
  <2> SUFFICES ASSUME s[i].role = "tool" PROVE ResultHasCall(a, i)
    BY <1>1 DEF ResultHasCall
  <2> DEFINE e == i - s[i].n
  <2>1. /\ e \in DOMAIN s
        /\ s[e] \in {Assistant(s[i].turn, n) : n \in s[i].n..MaxCalls}
    BY DEF WellFormedAt, ResultHasCall
  <2>2. e \in DOMAIN a /\ a[e] = s[e] /\ a[i] = s[i]
    <3> HIDE DEF e
    <3> QED BY <1>1, <2>1
  <2> QED BY <2>1, <2>2 DEF ResultHasCall
<1> QED BY <1>3, <1>4 DEF WellFormedAt, a

(* A message of the user, or an answer without calls, is well formed, and  *)
(* an answer with calls answers none.                                      *)
LEMMA NewMessageForm ==
    ASSUME NEW s \in Seq(Message), NEW m \in Message
    PROVE  /\ m.role # "tool" => ResultHasCall(Append(s, m), Len(s) + 1)
           /\ m.role = "user" \/ m.n = 0 => CallsAnswered(Append(s, m), Len(s) + 1)
<1>1. Append(s, m)[Len(s) + 1] = m
  BY AppendProperties
<1> HIDE DEF Message
<1> QED BY <1>1 DEF ResultHasCall, CallsAnswered

(* Cut before a message of the user, a whole conversation is whole: the    *)
(* call a result answers and the message cannot overlap.                   *)
LEMMA SuffixIsWhole ==
    ASSUME NEW s \in Seq(Message), Whole(s), NEW h, NEW q \in 1..Len(s),
           TailFrom(h, s, q), s[q].role = "user"
    PROVE  Whole(h)
<1>1. /\ Len(s) \in Nat /\ Len(h) \in Nat /\ DOMAIN s = 1..Len(s) /\ DOMAIN h = 1..Len(h)
      /\ Len(h) = Len(s) - q + 1 /\ \A i \in 1..Len(h) : h[i] = s[q + i - 1]
  BY LenProperties DEF TailFrom
<1> SUFFICES ASSUME NEW i \in 1..Len(h) PROVE WellFormedAt(h, i)
  BY DEF Whole
<1> DEFINE j == q + i - 1
<1>2. j \in 1..Len(s) /\ h[i] = s[j] /\ j >= q
  BY <1>1
<1>3. s[j] \in Message /\ s[j].n \in Nat
  <2> HIDE DEF j
  <2>1. s[j] \in Message
    BY <1>2, ElementOfSeq
  <2> QED BY <2>1, SizesAssumption DEF Message
<1>4. CallsAnswered(s, j) /\ ResultHasCall(s, j)
  BY <1>2 DEF Whole, WellFormedAt
<1>5. CallsAnswered(h, i)
  <2> SUFFICES ASSUME h[i].role = "assistant", NEW k \in 1..h[i].n
               PROVE  i + k \in DOMAIN h
                      /\ h[i + k] = ToolResult(h[i].turn, k)
    BY DEF CallsAnswered
  <2>1. j + k \in 1..Len(s) /\ s[j + k] = ToolResult(s[j].turn, k)
    BY <1>1, <1>2, <1>4 DEF CallsAnswered
  <2>2. i + k \in 1..Len(h)
    BY <1>1, <1>2, <1>3, <2>1
  <2>3. q + (i + k) - 1 = j + k
    BY <1>1, <1>2, <1>3
  <2>4. h[i + k] = s[j + k]
    BY <1>1, <2>2, <2>3
  <2> QED BY <1>1, <1>2, <2>1, <2>2, <2>4
<1>6. ResultHasCall(h, i)
  <2> SUFFICES ASSUME h[i].role = "tool"
               PROVE  /\ i - h[i].n \in DOMAIN h
                      /\ h[i - h[i].n] \in {Assistant(h[i].turn, n) : n \in h[i].n..MaxCalls}
    BY DEF ResultHasCall
  <2> DEFINE c == j - s[j].n
  <2>1. c \in 1..Len(s) /\ s[c] \in {Assistant(s[j].turn, n) : n \in s[j].n..MaxCalls}
    BY <1>1, <1>2, <1>4 DEF ResultHasCall
  <2>2. PICK n \in s[j].n..MaxCalls : s[c] = Assistant(s[j].turn, n)
    BY <2>1
  <2>3. c >= q
    <3> SUFFICES ASSUME c < q PROVE FALSE
      BY <2>1
    <3> DEFINE k == q - c
    <3>1. k \in 1..n
      <4>1. n \in Nat /\ s[j].n <= n
        BY <1>3, <2>2, SizesAssumption
      <4>2. q - c <= s[j].n
        BY <1>2, <1>3
      <4> HIDE DEF c
      <4> QED BY <1>1, <1>3, <2>1, <4>1, <4>2
    <3>2. s[c].role = "assistant" /\ s[c].n = n /\ CallsAnswered(s, c)
      BY <2>1, <2>2 DEF Assistant, Whole, WellFormedAt
    <3>3. s[c + k] = ToolResult(s[c].turn, k)
      BY <3>1, <3>2 DEF CallsAnswered
    <3>4. c + k = q
      BY <1>2, <1>3, <2>1
    <3>5. s[q].role = "tool"
      <4> HIDE DEF c, k
      <4>1. s[q] = ToolResult(s[c].turn, k)
        BY <3>3, <3>4
      <4> QED BY <4>1 DEF ToolResult
    <3> QED BY <3>5
  <2> DEFINE e == i - h[i].n
  <2>4. e \in 1..Len(h) /\ q + e - 1 = c
    <3>1. h[i].n = s[j].n
      BY <1>2
    <3>2. q + e - 1 = c
      BY <1>1, <1>3, <3>1
    <3>3. e <= i
      BY <1>1, <1>3, <3>1
    <3>4. e \in Int
      BY <1>1, <1>3, <3>1
    <3> HIDE DEF c, e
    <3> QED BY <1>1, <2>1, <2>3, <3>2, <3>3, <3>4
  <2>5. h[e] = s[c]
    BY <1>1, <2>4
  <2> QED BY <1>1, <1>2, <2>1, <2>4, <2>5
<1> QED BY <1>5, <1>6 DEF WellFormedAt

(* The messages that k requests, their answers and results may add. *)
Weight(k) == k * (1 + MaxCalls)

(* The window holds the longest turn, and no answer of the model asks for  *)
(* tools and says that it is the last one.                                 *)
TurnFits ==
    /\ StopWithCalls = FALSE
    /\ Window >= 1 + Weight(MaxIteration)

LEMMA WeightGrows ==
    ASSUME NEW k \in 0..MaxIteration
    PROVE  /\ Weight(k) \in Nat /\ Weight(0) = 0
           /\ Weight(k + 1) = Weight(k) + 1 + MaxCalls
           /\ Weight(k) <= Weight(MaxIteration)
<1>1. k \in Nat /\ MaxCalls \in Nat /\ MaxIteration \in Nat
  BY SizesAssumption
<1>2. Weight(k) \in Nat /\ Weight(0) = 0 /\ Weight(k + 1) = Weight(k) + 1 + MaxCalls
  BY <1>1 DEF Weight
<1>3. PICK d \in Nat : MaxIteration = k + d
  <2>1. MaxIteration - k \in Nat /\ MaxIteration = k + (MaxIteration - k)
    BY <1>1
  <2> QED BY <2>1
<1>4. Weight(MaxIteration) = Weight(k) + d * (1 + MaxCalls) /\ d * (1 + MaxCalls) \in Nat
  BY <1>1, <1>3 DEF Weight
<1> QED BY <1>2, <1>4

(* The last message of a user is at most k messages from the end. *)
Recent(s, k) == \E u \in 1..Len(s) : s[u].role = "user" /\ Len(s) - u <= k

(* A conversation between two turns. *)
Settled(s) ==
    Whole(s) /\ (s = <<>> \/ Recent(s, Weight(MaxIteration)))

(* All of it is well formed but the answer whose calls are being executed. *)
Pending(s, t, all, done) ==
    \E a \in 1..Len(s) :
        /\ a = Len(s) - done
        /\ s[a] = Assistant(t, all)
        /\ \A k \in 1..done : s[a + k] = ToolResult(t, k)
        /\ \A i \in 1..Len(s) : i # a => WellFormedAt(s, i)

(* A conversation of turn t when the agent is at p, with it requests made  *)
(* and the calls c.                                                        *)
Underway(s, p, it, t, c) ==
    /\ p = "ask" => Whole(s) /\ Recent(s, Weight(it))
    /\ p = "tools" => Pending(s, t, c.all, c.done) /\ Recent(s, Weight(it) + 1 + c.done)
    /\ p \notin {"ask", "tools"} => Settled(s)
Current(s) == Underway(s, pc, iteration, turns, calls)

(* Every conversation of a chat that did not lose the end of a file, in    *)
(* memory, in the file and in the request, is of this form.                *)
FormInv ==
    /\ \A c \in Chats :
          /\ sessions[c] # NotLoaded /\ c \notin damaged =>
                IF c = chat THEN Current(sessions[c]) ELSE Settled(sessions[c])
          /\ files[c] # NoFile /\ c \notin torn => Settled(files[c])
          /\ sessions[c] = NotLoaded /\ c \in torn => c \in damaged
    /\ pc \in {"ask", "tools"} /\ chat \notin damaged =>
          Current(messages) /\ messages[1].role = "user"

LEMMA EmptySettled == Settled(<<>>)
BY DEF Settled, Whole

(* A message appended keeps the last message of a user near. *)
LEMMA AppendRecent ==
    ASSUME NEW s \in Seq(Message), NEW m \in Message, NEW k \in Nat, Recent(s, k)
    PROVE  Recent(Append(s, m), k + 1)
<1>1. PICK u \in 1..Len(s) : s[u].role = "user" /\ Len(s) - u <= k
  BY DEF Recent
<1>2. /\ Len(s) \in Nat /\ Len(Append(s, m)) = Len(s) + 1
      /\ Append(s, m)[u] = s[u]
  BY LenProperties, AppendProperties
<1>3. u \in 1..Len(Append(s, m)) /\ Len(Append(s, m)) - u <= k + 1
  BY <1>1, <1>2
<1> QED BY <1>1, <1>2, <1>3 DEF Recent

LEMMA RecentWeaker ==
    ASSUME NEW s \in Seq(Message), NEW k \in Nat, NEW n \in Nat, k <= n, Recent(s, k)
    PROVE  Recent(s, n)
BY LenProperties DEF Recent

(* A message that needs no others after it keeps a conversation whole. *)
LEMMA AppendWhole ==
    ASSUME NEW s \in Seq(Message), NEW m \in Message, Whole(s),
           m.role = "user" \/ (m.role = "assistant" /\ m.n = 0)
    PROVE  Whole(Append(s, m))
<1>1. Len(s) \in Nat /\ Len(Append(s, m)) = Len(s) + 1
  BY LenProperties, AppendProperties
<1>2. WellFormedAt(Append(s, m), Len(s) + 1)
  BY NewMessageForm DEF WellFormedAt
<1>3. \A i \in 1..Len(s) : WellFormedAt(Append(s, m), i)
  BY AppendKeepsForm DEF Whole
<1> QED BY <1>1, <1>2, <1>3 DEF Whole

(* The history of a settled conversation begins with a user and is whole.  *)
LEMMA HistoryOfSettled ==
    ASSUME NEW s \in Seq(Message), Settled(s), TurnFits
    PROVE  LET h == GetHistory(s) IN
           /\ h \in Seq(Message) /\ Whole(h)
           /\ h # <<>> => h[1].role = "user"
<1> DEFINE h == GetHistory(s)
<1>1. PICK q \in 1..(Len(s) + 1) :
         /\ TailFrom(h, s, q)
         /\ (\E u \in 1..Len(s) : u > Len(s) - Window /\ s[u].role = "user")
               => q \in 1..Len(s) /\ s[q].role = "user"
  BY HistoryIsSuffix
<1> HIDE DEF h
<1>2. /\ Len(s) \in Nat /\ Len(h) \in Nat /\ h \in Seq(Message)
      /\ Len(h) = Len(s) - q + 1 /\ \A i \in 1..Len(h) : h[i] = s[q + i - 1]
  BY <1>1, LenProperties DEF TailFrom
<1>4. CASE s = <<>>
  <2>1. Len(h) = 0
    BY <1>1, <1>2, <1>4
  <2>2. h = <<>>
    BY <1>2, <2>1, EmptySeq
  <2> QED BY <1>2, <2>1, <2>2 DEF Whole, h
<1>5. CASE s # <<>>
  <2>1. PICK u \in 1..Len(s) : s[u].role = "user" /\ Len(s) - u <= Weight(MaxIteration)
    BY <1>5 DEF Settled, Recent
  <2>2. u > Len(s) - Window
    <3>1. Weight(MaxIteration) \in Nat /\ Window \in Nat /\ Window >= 1 + Weight(MaxIteration)
      BY WeightGrows, SizesAssumption DEF TurnFits
    <3> QED BY <1>2, <2>1, <3>1
  <2>3. q \in 1..Len(s) /\ s[q].role = "user"
    BY <1>1, <2>1, <2>2
  <2>4. Whole(h)
    BY <1>1, <2>3, SuffixIsWhole DEF Settled
  <2>5. h[1] = s[q]
    BY <1>2, <2>3
  <2> QED BY <1>2, <2>3, <2>4, <2>5 DEF h
<1> QED BY <1>4, <1>5

(* The message of the user begins a turn. *)
LEMMA UserBegins ==
    ASSUME NEW s \in Seq(Message), Whole(s), NEW t \in 1..MaxTurns
    PROVE  LET a == Append(s, User(t)) IN Whole(a) /\ Recent(a, 0)
<1> DEFINE m == User(t)
<1>1. m \in Message /\ m.role = "user"
  BY UserTyped DEF User
<1> HIDE DEF m
<1>2. Whole(Append(s, m))
  <2>1. m \in Message /\ (m.role = "user" \/ (m.role = "assistant" /\ m.n = 0))
    BY <1>1
  <2> QED BY <2>1, AppendWhole
<1>3. Len(Append(s, m)) = Len(s) + 1 /\ Append(s, m)[Len(s) + 1] = m /\ Len(s) \in Nat
  BY <1>1, LenProperties, AppendProperties
<1>4. Recent(Append(s, m), 0)
  BY <1>1, <1>3 DEF Recent
<1> QED BY <1>2, <1>4 DEF m

(* An answer with calls leaves its calls pending. *)
LEMMA AnswerPends ==
    ASSUME NEW s \in Seq(Message), Whole(s), NEW t \in 1..MaxTurns, NEW n \in 1..MaxCalls
    PROVE  Pending(Append(s, Assistant(t, n)), t, n, 0)
<1> DEFINE m == Assistant(t, n)
           a == Append(s, m)
<1>1. m \in Message /\ m.role = "assistant"
  <2>1. n \in 0..MaxCalls
    BY SizesAssumption
  <2>2. m \in Message
    BY <2>1, MessagesTyped
  <2> QED BY <2>2 DEF Assistant
<1> HIDE DEF m
<1>2. Len(a) = Len(s) + 1 /\ a[Len(s) + 1] = m /\ Len(s) \in Nat
  BY <1>1, LenProperties, AppendProperties
<1>3. \A i \in 1..Len(s) : WellFormedAt(a, i)
  BY <1>1, AppendKeepsForm DEF Whole
<1> HIDE DEF a
<1>4. \A i \in 1..Len(a) : i # Len(s) + 1 => WellFormedAt(a, i)
  BY <1>2, <1>3
<1>5. Pending(a, t, n, 0)
  BY <1>2, <1>4 DEF Pending, m
<1> QED BY <1>5 DEF a, m

(* A result is appended: the last one makes the conversation whole. *)
LEMMA ResultAnswers ==
    ASSUME NEW s \in Seq(Message), NEW t \in 1..MaxTurns, NEW all \in 1..MaxCalls,
           NEW done \in Nat, done < all, Pending(s, t, all, done)
    PROVE  LET a == Append(s, ToolResult(t, done + 1)) IN
           /\ done + 1 < all => Pending(a, t, all, done + 1)
           /\ done + 1 = all => Whole(a)
<1> DEFINE m == ToolResult(t, done + 1)
           a == Append(s, m)
<1>0. MaxCalls \in Nat /\ done + 1 \in 1..MaxCalls
  BY SizesAssumption
<1>1. m \in Message /\ m.role = "tool" /\ m.n = done + 1 /\ m.turn = t
  <2>1. done + 1 \in 0..MaxCalls
    BY <1>0
  <2>2. m \in Message
    BY <2>1, MessagesTyped
  <2> QED BY <2>2 DEF ToolResult
<1>2. PICK c \in 1..Len(s) :
        /\ c = Len(s) - done
        /\ s[c] = Assistant(t, all)
        /\ \A k \in 1..done : s[c + k] = ToolResult(t, k)
        /\ \A i \in 1..Len(s) : i # c => WellFormedAt(s, i)
  BY DEF Pending
<1> HIDE DEF m
<1>3. /\ Len(s) \in Nat /\ Len(a) = Len(s) + 1 /\ a[Len(s) + 1] = m
      /\ \A i \in 1..Len(s) : a[i] = s[i]
  BY <1>1, LenProperties, AppendProperties
<1>4. DOMAIN a = 1..Len(a)
  BY <1>1, LenProperties, AppendProperties
<1>5. \A i \in 1..Len(s) : i # c => WellFormedAt(a, i)
  BY <1>1, <1>2, AppendKeepsForm
<1> HIDE DEF a
<1>6. c \in 1..Len(a) /\ c = Len(a) - (done + 1) /\ a[c] = Assistant(t, all)
  BY <1>2, <1>3
<1>7. \A k \in 1..(done + 1) : a[c + k] = ToolResult(t, k)
  <2> SUFFICES ASSUME NEW k \in 1..(done + 1) PROVE a[c + k] = ToolResult(t, k)
    OBVIOUS
  <2>1. CASE k = done + 1
    <3>1. c + k = Len(s) + 1
      BY <1>2, <1>3, <2>1
    <3> QED BY <1>3, <2>1, <3>1 DEF m
  <2>2. CASE k # done + 1
    <3>1. k \in 1..done /\ c + k \in 1..Len(s)
      BY <1>2, <1>3, <2>2
    <3> QED BY <1>2, <1>3, <3>1
  <2> QED BY <2>1, <2>2
<1>8. WellFormedAt(a, Len(s) + 1)
  <2>1. Len(s) + 1 - (done + 1) = c
    BY <1>2, <1>3
  <2>2. Assistant(t, all) \in {Assistant(t, n) : n \in (done + 1)..MaxCalls}
    BY <1>0
  <2>3. ResultHasCall(a, Len(s) + 1)
    BY <1>1, <1>3, <1>4, <1>6, <2>1, <2>2 DEF ResultHasCall
  <2>4. CallsAnswered(a, Len(s) + 1)
    BY <1>1, <1>3 DEF CallsAnswered
  <2> QED BY <2>3, <2>4 DEF WellFormedAt
<1>9. \A i \in 1..Len(a) : i # c => WellFormedAt(a, i)
  BY <1>3, <1>5, <1>8
<1>10. Pending(a, t, all, done + 1)
  BY <1>6, <1>7, <1>9 DEF Pending
<1>11. ASSUME done + 1 = all PROVE Whole(a)
  <2>1. a[c].role = "assistant" /\ a[c].n = all /\ a[c].turn = t
    BY <1>6 DEF Assistant
  <2>2. ResultHasCall(a, c)
    BY <2>1 DEF ResultHasCall
  <2>3. CallsAnswered(a, c)
    <3> SUFFICES ASSUME NEW k \in 1..all
                 PROVE  c + k \in DOMAIN a /\ a[c + k] = ToolResult(t, k)
      BY <2>1 DEF CallsAnswered
    <3>1. c + k \in 1..Len(a)
      BY <1>2, <1>3, <1>11
    <3>2. a[c + k] = ToolResult(t, k)
      BY <1>7, <1>11
    <3> QED BY <1>4, <3>1, <3>2
  <2>4. WellFormedAt(a, c)
    BY <2>2, <2>3 DEF WellFormedAt
  <2> QED BY <1>9, <2>4 DEF Whole
<1>12. (done + 1 < all => Pending(a, t, all, done + 1)) /\ (done + 1 = all => Whole(a))
  BY <1>10, <1>11
<1> QED BY <1>12 DEF a, m

(* What an answer makes of a conversation. *)
LEMMA AnswerForm ==
    ASSUME NEW s \in Seq(Message), NEW t \in 1..MaxTurns, NEW n \in 0..MaxCalls, NEW c,
           NEW it \in 0..MaxIteration, it < MaxIteration, Underway(s, "ask", it, t, c)
    PROVE  LET a == Append(s, Assistant(t, n)) IN
           /\ n = 0 => Settled(a)
           /\ n # 0 => Underway(a, "tools", it, t, [all |-> n, done |-> 0])
<1> DEFINE m == Assistant(t, n)
           a == Append(s, m)
<1>1. m \in Message
  <2>1. m \in Message
    BY MessagesTyped
  <2> QED BY <2>1 DEF Assistant
<1>2. Whole(s) /\ Recent(s, Weight(it))
  BY DEF Underway
<1>3. /\ Weight(it) \in Nat /\ Weight(it + 1) = Weight(it) + 1 + MaxCalls
      /\ Weight(it + 1) \in Nat /\ Weight(it + 1) <= Weight(MaxIteration)
      /\ Weight(MaxIteration) \in Nat
  BY WeightGrows, SizesAssumption
<1>4. Recent(a, Weight(it) + 1) /\ a \in Seq(Message)
  BY <1>1, <1>2, <1>3, AppendRecent, AppendProperties
<1>6. ASSUME n = 0 PROVE Settled(a)
  <2>1. Whole(a)
    <3>1. m.role = "user" \/ (m.role = "assistant" /\ m.n = 0)
      BY <1>6 DEF Assistant
    <3> HIDE DEF m
    <3> QED BY <1>1, <1>2, <3>1, AppendWhole
  <2>2. Recent(a, Weight(MaxIteration))
    <3>1. Weight(it) + 1 \in Nat /\ Weight(it) + 1 <= Weight(MaxIteration)
      BY <1>3, SizesAssumption
    <3> HIDE DEF a
    <3> QED BY <1>3, <1>4, <3>1, RecentWeaker
  <2> QED BY <2>1, <2>2 DEF Settled
<1>7. ASSUME n # 0 PROVE Underway(a, "tools", it, t, [all |-> n, done |-> 0])
  <2>1. n \in 1..MaxCalls
    BY <1>7, SizesAssumption
  <2>2. Pending(a, t, n, 0)
    BY <1>2, <2>1, AnswerPends
  <2>3. Weight(it) + 1 + 0 = Weight(it) + 1
    BY <1>3
  <2> HIDE DEF a
  <2> QED BY <1>4, <2>2, <2>3 DEF Underway
<1> QED BY <1>6, <1>7

(* An error of the model leaves a conversation as it is between turns. *)
LEMMA ErrorForm ==
    ASSUME NEW s \in Seq(Message), NEW t, NEW c,
           NEW it \in 0..MaxIteration, Underway(s, "ask", it, t, c)
    PROVE  Settled(s)
<1>1. Weight(it) \in Nat /\ Weight(MaxIteration) \in Nat /\ Weight(it) <= Weight(MaxIteration)
  BY WeightGrows, SizesAssumption
<1> QED BY <1>1, RecentWeaker DEF Underway, Settled

(* What the result of a call makes of a conversation. *)
LEMMA ResultForm ==
    ASSUME NEW s \in Seq(Message), NEW t \in 1..MaxTurns,
           NEW all \in 1..MaxCalls, NEW done \in Nat, done < all,
           NEW it \in 0..MaxIteration, it < MaxIteration,
           Underway(s, "tools", it, t, [all |-> all, done |-> done])
    PROVE  LET a == Append(s, ToolResult(t, done + 1)) IN
           /\ done + 1 < all => Underway(a, "tools", it, t, [all |-> all, done |-> done + 1])
           /\ done + 1 = all => /\ \A c : Underway(a, "ask", it + 1, t, c)
                                /\ Settled(a)
<1> DEFINE m == ToolResult(t, done + 1)
           a == Append(s, m)
<1>1. m \in Message
  <2>1. done + 1 \in 0..MaxCalls
    BY SizesAssumption
  <2>2. m \in Message
    BY <2>1, MessagesTyped
  <2> QED BY <2>2 DEF ToolResult
<1>2. Pending(s, t, all, done) /\ Recent(s, Weight(it) + 1 + done)
  BY DEF Underway
<1>3. /\ Weight(it) \in Nat /\ Weight(it + 1) = Weight(it) + 1 + MaxCalls
      /\ Weight(it + 1) \in Nat /\ Weight(it + 1) <= Weight(MaxIteration)
      /\ Weight(MaxIteration) \in Nat /\ MaxCalls \in Nat
  BY WeightGrows, SizesAssumption
<1> DEFINE k == Weight(it) + 1 + done
<1>4. k \in Nat /\ k + 1 = Weight(it) + 1 + (done + 1) /\ k + 1 \in Nat
  <2> DEFINE w == Weight(it)
  <2>1. w \in Nat
    BY <1>3
  <2> HIDE DEF w
  <2>2. /\ w + 1 + done \in Nat /\ w + 1 + done + 1 = w + 1 + (done + 1)
        /\ w + 1 + done + 1 \in Nat
    BY <2>1
  <2> QED BY <2>2 DEF w
<1>5. Recent(a, k + 1) /\ a \in Seq(Message)
  <2> HIDE DEF k, m
  <2>1. Recent(s, k)
    BY <1>2 DEF k
  <2> QED BY <1>1, <1>4, <2>1, AppendRecent, AppendProperties
<1>7. (done + 1 < all => Pending(a, t, all, done + 1)) /\ (done + 1 = all => Whole(a))
  BY <1>2, ResultAnswers
<1>8. ASSUME done + 1 < all
      PROVE  Underway(a, "tools", it, t, [all |-> all, done |-> done + 1])
  <2> HIDE DEF a, k
  <2> QED BY <1>4, <1>5, <1>7, <1>8 DEF Underway
<1>9. ASSUME done + 1 = all
      PROVE  (\A c : Underway(a, "ask", it + 1, t, c)) /\ Settled(a)
  <2>1. k + 1 <= Weight(it + 1) /\ k + 1 <= Weight(MaxIteration)
    BY <1>3, <1>9
  <2> HIDE DEF a, k
  <2>2. Recent(a, Weight(it + 1)) /\ Recent(a, Weight(MaxIteration))
    BY <1>3, <1>4, <1>5, <2>1, RecentWeaker
  <2> QED BY <1>7, <1>9, <2>2 DEF Underway, Settled
<1> QED BY <1>8, <1>9

(* Between turns every conversation is settled. *)
LEMMA IdleSettled ==
    ASSUME FormInv, pc \notin {"ask", "tools"}, NEW c \in Chats \ damaged,
           sessions[c] # NotLoaded
    PROVE  Settled(sessions[c])
BY DEF FormInv, Current, Underway

(* A conversation between turns is what it is whatever the agent does.     *)
LEMMA SettledUnderway ==
    ASSUME NEW s, Settled(s), NEW p, p \notin {"ask", "tools"}, NEW it, NEW t, NEW c
    PROVE  Underway(s, p, it, t, c)
BY DEF Underway, Settled

(* The session of a chat is settled when it is loaded. *)
LEMMA LoadedSettled ==
    ASSUME TypeInv, FormInv, pc \notin {"ask", "tools"}, NEW c \in Chats \ damaged
    PROVE  Settled(Session(c))
<1>1. CASE sessions[c] # NotLoaded
  BY <1>1, IdleSettled DEF Session
<1>2. CASE sessions[c] = NotLoaded
  <2>1. files[c] \in Seq(Message) \cup {NoFile} /\ c \notin torn
    BY <1>2 DEF TypeInv, TypeOK, FormInv
  <2>2. CASE files[c] = NoFile
    BY <1>2, <2>2, EmptySettled DEF Session, Load
  <2>3. CASE files[c] # NoFile
    BY <1>2, <2>1, <2>3 DEF Session, Load, FormInv
  <2> QED BY <2>2, <2>3
<1> QED BY <1>1, <1>2

(* The steps of a turn, given what they make of the two conversations.     *)
LEMMA FormAppend ==
    ASSUME TypeInv, TypeInv', FormInv, pc \in {"ask", "tools"}, NEW STATE m, m \in Message,
           sessions' = [sessions EXCEPT ![chat] = Append(@, m)],
           messages' = Append(messages, m),
           UNCHANGED <<files, chat, torn, damaged>>,
           chat \notin damaged =>
              /\ Underway(Append(sessions[chat], m), pc', iteration', turns', calls')
              /\ Underway(Append(messages, m), pc', iteration', turns', calls')
    PROVE  FormInv'
<1>1. chat \in Chats /\ sessions[chat] \in Seq(Message) /\ messages \in Seq(Message)
  BY DEF TypeInv, TypeOK, WorkOK, Working
<1>2. Append(sessions[chat], m) # NotLoaded
  BY <1>1, AppendProperties, SessionIsLoaded
<1>3. \A c \in Chats : sessions'[c] = IF c = chat THEN Append(sessions[chat], m) ELSE sessions[c]
  BY <1>1 DEF TypeInv, TypeOK
<1>4. sessions[chat] # NotLoaded
  BY <1>1, SessionIsLoaded
<1>5. ASSUME chat \notin damaged PROVE messages'[1].role = "user"
  <2>1. messages[1].role = "user" /\ Current(messages)
    BY <1>5 DEF FormInv
  <2>2. \E k : Recent(messages, k)
    BY <2>1 DEF Current, Underway
  <2>3. 1 \in 1..Len(messages)
    BY <1>1, <2>2, LenProperties DEF Recent
  <2>4. Append(messages, m)[1] = messages[1]
    BY <1>1, <2>3, AppendProperties
  <2> QED BY <2>1, <2>4
<1>6. ASSUME NEW c \in Chats
      PROVE  /\ sessions'[c] # NotLoaded /\ c \notin damaged =>
                   IF c = chat THEN Current(sessions[c])' ELSE Settled(sessions'[c])
             /\ files[c] # NoFile /\ c \notin torn => Settled(files[c])
             /\ sessions'[c] = NotLoaded /\ c \in torn => c \in damaged
  <2>1. CASE c = chat
    BY <1>2, <1>3, <2>1 DEF FormInv, Current
  <2>2. CASE c # chat
    BY <1>3, <2>2 DEF FormInv
  <2> QED BY <2>1, <2>2
<1>7. chat \notin damaged => Current(messages)'
  BY DEF Current
<1> QED BY <1>5, <1>6, <1>7 DEF FormInv

(* The message of a user finds a conversation the model accepts. *)
LEMMA BeginForm ==
    ASSUME TypeInv, TypeInv', FormInv, TurnFits, NEW c \in Chats, BeginTurn(c)
    PROVE  FormInv'
<1>s. PICK s \in GetOrCreate(c) :
        /\ messages' = Append(GetHistory(s), User(turns'))
        /\ sessions' = [sessions EXCEPT ![c] = Append(s, User(turns'))]
        /\ damaged' = IF s \in {Session(c), <<>>} THEN damaged ELSE damaged \cup {c}
  BY DEF BeginTurn
<1> DEFINE h == GetHistory(s)
<1>0. pc \notin {"ask", "tools"} /\ pc' = "ask" /\ chat' = c /\ iteration' = 0
  BY DEF BeginTurn
<1>1. turns' \in 1..MaxTurns /\ User(turns') \in Message
  <2>1. turns' \in 1..MaxTurns
    BY SizesAssumption DEF BeginTurn, TypeInv, TypeOK
  <2> QED BY <2>1, UserTyped
<1>2. s \in Seq(Message)
  BY SessionTyped DEF TypeInv
<1>3. Append(s, User(turns')) # NotLoaded
  BY <1>1, <1>2, AppendProperties, SessionIsLoaded
<1>4. \A d \in Chats : sessions'[d] = IF d = c THEN Append(s, User(turns')) ELSE sessions[d]
  BY <1>s DEF TypeInv, TypeOK
<1>5. messages' = Append(h, User(turns')) /\ UNCHANGED <<files, torn>>
  BY <1>s DEF BeginTurn
<1>d. damaged \subseteq damaged' /\ \A d \in Chats : d # c /\ d \in damaged' => d \in damaged
  BY <1>s
<1>6. ASSUME c \notin damaged'
      PROVE  Current(sessions[c])' /\ Current(messages)' /\ messages'[1].role = "user"
  <2>1. Settled(s)
    <3>1. c \notin damaged /\ s \in {Session(c), <<>>}
      BY <1>s, <1>6
    <3> QED BY <1>0, <3>1, LoadedSettled, EmptySettled
  <2>2. h \in Seq(Message) /\ Whole(h) /\ (h # <<>> => h[1].role = "user")
    BY <1>2, <2>1, HistoryOfSettled
  <2> HIDE DEF h
  <2>3. Whole(s)
    BY <2>1 DEF Settled
  <2> DEFINE a == Append(s, User(turns'))
             b == Append(h, User(turns'))
  <2>4. Whole(a) /\ Recent(a, 0) /\ Whole(b) /\ Recent(b, 0)
    BY <1>1, <1>2, <2>2, <2>3, UserBegins
  <2>5. Weight(0) = 0
    BY WeightGrows, SizesAssumption
  <2>6. b[1].role = "user"
    <3>1. CASE h = <<>>
      <4>1. b[1] = User(turns')
        BY <1>1, <2>2, <3>1, EmptySeq, AppendProperties
      <4> QED BY <4>1 DEF User
    <3>2. CASE h # <<>>
      <4>1. 1 \in 1..Len(h)
        BY <2>2, <3>2, LenProperties, EmptySeq
      <4>2. b[1] = h[1]
        BY <1>1, <2>2, <4>1, AppendProperties
      <4> QED BY <2>2, <3>2, <4>2
    <3> QED BY <3>1, <3>2
  <2>7. sessions'[c] = a /\ messages' = b
    BY <1>4, <1>5
  <2> HIDE DEF a, b
  <2> QED BY <1>0, <2>4, <2>5, <2>6, <2>7 DEF Current, Underway
<1>7. \A d \in Chats : d # c /\ sessions[d] # NotLoaded /\ d \notin damaged => Settled(sessions[d])
  BY <1>0, IdleSettled
<1> HIDE DEF h
<1>8. ASSUME NEW d \in Chats
      PROVE  /\ sessions'[d] # NotLoaded /\ d \notin damaged' =>
                   IF d = chat' THEN Current(sessions[d])' ELSE Settled(sessions[d])'
             /\ files'[d] # NoFile /\ d \notin torn' => Settled(files'[d])
             /\ sessions'[d] = NotLoaded /\ d \in torn' => d \in damaged'
  <2>1. CASE d = c
    BY <1>0, <1>3, <1>4, <1>5, <1>d, <1>6, <2>1 DEF FormInv
  <2>2. CASE d # c
    BY <1>0, <1>4, <1>5, <1>d, <1>7, <2>2 DEF FormInv
  <2> QED BY <2>1, <2>2
<1> QED BY <1>0, <1>5, <1>6, <1>8 DEF FormInv

(* Every step keeps the form. *)
LEMMA FormStep ==
    ASSUME TypeInv, TypeInv', FormInv, TurnFits, [Next]_vars
    PROVE  FormInv'
<1>t. /\ sessions \in [Chats -> Seq(Message) \cup {NotLoaded}]
      /\ files \in [Chats -> Seq(Message) \cup {NoFile}]
      /\ torn \subseteq Chats
  BY DEF TypeInv, TypeOK
<1>w. pc \in Working => chat \in Chats /\ sessions[chat] \in Seq(Message)
  BY DEF TypeInv, WorkOK
<1>1. ASSUME NEW c \in Chats, BeginTurn(c) PROVE FormInv'
  BY <1>1, BeginForm
<1>2. ASSUME NEW n \in 0..MaxCalls, NEW stop \in {FALSE, StopWithCalls}, Complete(n, stop)
      PROVE  FormInv'
  <2>1. /\ turns \in 1..MaxTurns /\ iteration \in 0..MaxIteration /\ iteration < MaxIteration
        /\ pc = "ask" /\ messages \in Seq(Message) /\ sessions[chat] \in Seq(Message)
        /\ chat \in Chats
    BY <1>2, <1>w, SizesAssumption DEF Complete, TypeInv, TypeOK, WorkOK, Working
  <2>2. Assistant(turns, n) \in Message
    BY <2>1, MessagesTyped
  <2>3. /\ sessions' = [sessions EXCEPT ![chat] = Append(@, Assistant(turns, n))]
        /\ messages' = Append(messages, Assistant(turns, n))
        /\ UNCHANGED <<files, chat, iteration, turns, torn, damaged>>
        /\ n = 0 => pc' = "reply"
        /\ n # 0 => pc' = "tools" /\ calls' = [all |-> n, done |-> 0]
    BY <1>2 DEF Complete, AddMessage, historyVars, TurnFits
  <2>4. \A s \in Seq(Message) : Current(s) =>
           Underway(Append(s, Assistant(turns, n)), pc', iteration', turns', calls')
    <3> SUFFICES ASSUME NEW s \in Seq(Message), Current(s)
                 PROVE  Underway(Append(s, Assistant(turns, n)), pc', iteration', turns', calls')
      OBVIOUS
    <3> DEFINE a == Append(s, Assistant(turns, n))
    <3>1. /\ n = 0 => Settled(a)
          /\ n # 0 => Underway(a, "tools", iteration, turns, [all |-> n, done |-> 0])
      BY <2>1, AnswerForm DEF Current
    <3> HIDE DEF a
    <3>2. Underway(a, pc', iteration', turns', calls')
      BY <2>3, <3>1, SettledUnderway
    <3> QED BY <3>2 DEF a
  <2>5. chat \notin damaged => Current(sessions[chat]) /\ Current(messages)
    BY <2>1, SessionIsLoaded DEF FormInv
  <2>6. chat \notin damaged =>
           /\ Underway(Append(sessions[chat], Assistant(turns, n)), pc', iteration', turns', calls')
           /\ Underway(Append(messages, Assistant(turns, n)), pc', iteration', turns', calls')
    BY <2>1, <2>4, <2>5
  <2> QED BY <2>1, <2>2, <2>3, <2>6, FormAppend
<1>3. CASE ExecuteToolCall
  <2>1. /\ turns \in 1..MaxTurns /\ iteration \in 0..MaxIteration /\ iteration < MaxIteration
        /\ pc = "tools" /\ messages \in Seq(Message) /\ sessions[chat] \in Seq(Message)
        /\ chat \in Chats
    BY <1>3, <1>w, SizesAssumption DEF ExecuteToolCall, TypeInv, TypeOK, WorkOK, Working
  <2> DEFINE all == calls.all
             done == calls.done
  <2>2. all \in 1..MaxCalls /\ done \in Nat /\ done < all /\ done + 1 \in 0..MaxCalls
    BY <1>3, SizesAssumption DEF ExecuteToolCall, TypeInv, TypeOK, WorkOK
  <2>3. calls = [all |-> all, done |-> done]
    BY DEF TypeInv, TypeOK
  <2> DEFINE m == ToolResult(turns, done + 1)
  <2>4. m \in Message
    BY <2>1, <2>2, MessagesTyped
  <2>6. /\ sessions' = [sessions EXCEPT ![chat] = Append(@, m)]
        /\ messages' = Append(messages, m)
        /\ UNCHANGED <<files, chat, turns, torn, damaged>>
    BY <1>3 DEF ExecuteToolCall, AddMessage, historyVars
  <2>7. done + 1 < all => /\ calls' = [all |-> all, done |-> done + 1]
                          /\ pc' = "tools" /\ iteration' = iteration
    BY <1>3, <2>3 DEF ExecuteToolCall
  <2>8. ~(done + 1 < all) => pc' \in {"ask", "reply"} /\ iteration' = iteration + 1
    BY <1>3 DEF ExecuteToolCall
  <2>9. \A s \in Seq(Message) : Current(s) =>
           Underway(Append(s, m), pc', iteration', turns', calls')
    <3> SUFFICES ASSUME NEW s \in Seq(Message), Current(s)
                 PROVE  Underway(Append(s, m), pc', iteration', turns', calls')
      OBVIOUS
    <3> DEFINE a == Append(s, m)
    <3>1. /\ done + 1 < all =>
                Underway(a, "tools", iteration, turns, [all |-> all, done |-> done + 1])
          /\ done + 1 = all => /\ \A c : Underway(a, "ask", iteration + 1, turns, c)
                               /\ Settled(a)
      <4>1. Underway(s, "tools", iteration, turns, [all |-> all, done |-> done])
        BY <2>1, <2>3 DEF Current
      <4> HIDE DEF all, done
      <4> QED BY <2>1, <2>2, <4>1, ResultForm
    <3> HIDE DEF a, all, done
    <3>2. ASSUME done + 1 < all
          PROVE  Underway(a, pc', iteration', turns', calls')
      BY <2>6, <2>7, <3>1, <3>2
    <3>3. ASSUME ~(done + 1 < all)
          PROVE  Underway(a, pc', iteration', turns', calls')
      <4>1. done + 1 = all
        BY <2>2, <3>3
      <4> QED BY <2>6, <2>8, <3>1, <3>3, <4>1, SettledUnderway
    <3> QED BY <3>2, <3>3 DEF a
  <2>10. chat \notin damaged => Current(sessions[chat]) /\ Current(messages)
    BY <2>1, SessionIsLoaded DEF FormInv
  <2> HIDE DEF m
  <2>11. chat \notin damaged =>
           /\ Underway(Append(sessions[chat], m), pc', iteration', turns', calls')
           /\ Underway(Append(messages, m), pc', iteration', turns', calls')
    BY <2>1, <2>9, <2>10
  <2> QED BY <2>1, <2>4, <2>6, <2>11, FormAppend
<1>4. CASE CompleteFails
  <2>1. /\ pc = "ask" /\ pc' = "reply" /\ iteration \in 0..MaxIteration
        /\ chat \in Chats /\ sessions[chat] \in Seq(Message)
        /\ UNCHANGED <<sessions, files, chat, iteration, calls, turns, torn, damaged>>
    BY <1>4, <1>w DEF CompleteFails, TypeInv, TypeOK, Working, historyVars
  <2>2. chat \notin damaged => Settled(sessions[chat])
    BY <2>1, SessionIsLoaded, ErrorForm DEF FormInv, Current
  <2>3. chat \notin damaged => Current(sessions[chat])'
    BY <2>1, <2>2, SettledUnderway DEF Current
  <2> QED BY <2>1, <2>3 DEF FormInv
<1>5. CASE Reply \/ Confirm \/ Restart
  <2>1. /\ pc \notin {"ask", "tools"} /\ pc' \notin {"ask", "tools"}
        /\ UNCHANGED <<sessions, files, torn, damaged>>
    BY <1>5 DEF Reply, Confirm, Restart, historyVars
  <2>2. \A c \in Chats : sessions[c] # NotLoaded /\ c \notin damaged =>
           Settled(sessions[c]) /\ Current(sessions[c])'
    BY <2>1, IdleSettled, SettledUnderway DEF Current
  <2> QED BY <2>1, <2>2 DEF FormInv
<1>6. ASSUME NEW c \in Chats, NewCommand(c) PROVE FormInv'
  <2>1. /\ pc = "idle" /\ pc' = "clear" /\ damaged' = damaged \ {c}
        /\ UNCHANGED <<files, torn>>
    BY <1>6 DEF NewCommand
  <2>2. \A d \in Chats : sessions'[d] = IF d = c THEN <<>> ELSE sessions[d]
    BY <1>6, <1>t DEF NewCommand
  <2>3. <<>> # NotLoaded
    BY EmptySeq, SessionIsLoaded
  <2>4. \A d \in Chats : sessions'[d] # NotLoaded /\ d \notin damaged' => Settled(sessions'[d])
    BY <2>1, <2>2, IdleSettled, EmptySettled
  <2>5. \A d \in Chats : sessions'[d] # NotLoaded /\ d \notin damaged' => Current(sessions[d])'
    BY <2>1, <2>4, SettledUnderway DEF Current
  <2> QED BY <2>1, <2>2, <2>3, <2>4, <2>5 DEF FormInv
<1>7. CASE Save \/ SaveFails
  <2>1. PICK f : /\ SaveResult(f)
                 /\ \/ f = sessions[chat] /\ torn' = SavedTorn
                    \/ f = files[chat] /\ torn' = torn
                    \/ torn' = torn \cup {chat}
    BY <1>7 DEF Save, SaveFails
  <2>2. chat \in Chats /\ sessions[chat] # NotLoaded
    BY <2>1, <1>w, SessionIsLoaded DEF SaveResult, Working
  <2>3. \A c \in Chats : files'[c] = IF c = chat THEN f ELSE files[c]
    BY <1>t, <2>1 DEF SaveResult
  <2>4. /\ pc \notin {"ask", "tools"} /\ pc' \notin {"ask", "tools"}
        /\ UNCHANGED <<sessions, damaged>>
    BY <2>1 DEF SaveResult
  <2>5. \A c \in Chats : sessions[c] # NotLoaded /\ c \notin damaged =>
           Settled(sessions[c]) /\ Current(sessions[c])'
    BY <2>4, IdleSettled, SettledUnderway DEF Current
  <2>6. ASSUME NEW c \in Chats, files'[c] # NoFile, c \notin torn'
        PROVE  Settled(files'[c])
    <3>1. CASE c # chat
      BY <2>1, <2>3, <2>6, <3>1 DEF FormInv, SavedTorn
    <3>2. CASE c = chat
      BY <2>1, <2>2, <2>3, <2>5, <2>6, <3>2 DEF FormInv, SavedTorn
    <3> QED BY <3>1, <3>2
  <2>7. \A c \in Chats : c # chat => (c \in torn' <=> c \in torn)
    BY <2>1 DEF SavedTorn
  <2> QED BY <2>2, <2>4, <2>5, <2>6, <2>7 DEF FormInv
<1>8. CASE Crash
  <2>1. /\ pc' = "down" /\ damaged' = torn' /\ torn \subseteq torn'
        /\ \A c \in Chats : sessions'[c] = NotLoaded
    BY <1>8 DEF Crash
  <2>2. \A c \in Chats : c \notin torn' => files'[c] = files[c]
    <3>1. CASE UNCHANGED <<files, torn>>
      BY <3>1
    <3>2. ASSUME NEW f \in Torn, files' = [files EXCEPT ![chat] = f],
                 torn' = torn \cup {chat}
          PROVE  \A c \in Chats : c \notin torn' => files'[c] = files[c]
      BY <1>t, <3>2
    <3> QED BY <1>8, <3>1, <3>2 DEF Crash
  <2> QED BY <2>1, <2>2 DEF FormInv
<1>9. CASE UNCHANGED vars
  BY <1>9 DEF vars, FormInv, Current
<1> QED
  BY <1>1, <1>2, <1>3, <1>4, <1>5, <1>6, <1>7, <1>8, <1>9 DEF Next, TurnStep

(* When the window holds the longest turn, every request of a chat that    *)
(* did not lose the end of its file and was not read in part is a          *)
(* conversation the model accepts, after any number of turns, errors,      *)
(* failed saves, failed loads and restarts.                                *)
THEOREM RequestsAreWellFormed ==
    ASSUME TurnFits
    PROVE  Spec => []RequestWellFormed
<1>1. Init => TypeInv /\ FormInv
  BY EmptySeq, SizesAssumption
     DEF Init, TypeInv, TypeOK, WorkOK, Working, NoCalls, FormInv
<1>2. TypeInv /\ [Next]_vars => TypeInv'
  BY TypeStep
<1>3. TypeInv /\ TypeInv' /\ FormInv /\ [Next]_vars => FormInv'
  BY FormStep
<1>4. TypeInv /\ FormInv => RequestWellFormed
  <2> SUFFICES ASSUME TypeInv, FormInv, pc = "ask", chat \notin damaged
               PROVE  /\ HistoryStartsWithUser
                      /\ \A i \in DOMAIN messages :
                            CallsAnswered(messages, i) /\ ResultHasCall(messages, i)
    BY DEF RequestWellFormed
  <2>1. Whole(messages) /\ messages[1].role = "user"
    BY DEF FormInv, Current, Underway
  <2>2. DOMAIN messages = 1..Len(messages)
    BY LenProperties DEF TypeInv, TypeOK
  <2> QED BY <2>1, <2>2 DEF Whole, WellFormedAt, HistoryStartsWithUser
<1> QED BY <1>1, <1>2, <1>3, <1>4, PTL DEF Spec

-----------------------------------------------------------------------------
(* Requests begin with a message of the user *)

(* Every message has one of a user at most a turn before it.  Unlike the   *)
(* form above, a beginning of such a conversation is one too.              *)
Led(s) ==
    \A i \in 1..Len(s) :
        \E u \in 1..i : s[u].role = "user" /\ i - u <= Weight(MaxIteration)
Begun(s) == s # <<>> /\ s[1].role = "user"

LedInv ==
    /\ \A c \in Chats : /\ sessions[c] # NotLoaded => Led(sessions[c])
                        /\ files[c] # NoFile => Led(files[c])
    /\ pc = "ask" => Recent(sessions[chat], Weight(iteration))
    /\ pc = "tools" => Recent(sessions[chat], Weight(iteration) + 1 + calls.done)
    /\ pc \in {"ask", "tools"} => Begun(messages)

LEMMA LedPart ==
    ASSUME NEW s \in Seq(Message), NEW h, Led(s), Begins(h, s)
    PROVE  Led(h)
<1>1. Len(s) \in Nat /\ Len(h) \in Nat /\ Len(h) <= Len(s)
      /\ \A i \in 1..Len(h) : h[i] = s[i]
  BY LenProperties DEF Begins
<1>2. ASSUME NEW i \in 1..Len(h)
      PROVE  \E u \in 1..i : h[u].role = "user" /\ i - u <= Weight(MaxIteration)
  <2>1. PICK u \in 1..i : s[u].role = "user" /\ i - u <= Weight(MaxIteration)
    BY <1>1 DEF Led
  <2>2. h[u] = s[u]
    BY <1>1
  <2> QED BY <2>1, <2>2
<1> QED BY <1>2 DEF Led

(* A message appended to a conversation whose last message of a user is    *)
(* near enough has one before it too.                                      *)
LEMMA LedAppend ==
    ASSUME NEW s \in Seq(Message), NEW m \in Message, Led(s),
           m.role = "user" \/ \E k \in Nat : Recent(s, k) /\ k + 1 <= Weight(MaxIteration)
    PROVE  Led(Append(s, m))
<1> DEFINE a == Append(s, m)
           n == Len(s) + 1
<1>1. /\ Len(s) \in Nat /\ Len(a) = n /\ a[n] = m
      /\ \A i \in 1..Len(s) : a[i] = s[i]
  BY LenProperties, AppendProperties
<1>2. Weight(MaxIteration) \in Nat
  BY WeightGrows, SizesAssumption
<1> HIDE DEF a
<1>3. ASSUME NEW i \in 1..Len(s)
      PROVE  \E u \in 1..i : a[u].role = "user" /\ i - u <= Weight(MaxIteration)
  <2>1. PICK u \in 1..i : s[u].role = "user" /\ i - u <= Weight(MaxIteration)
    BY DEF Led
  <2> QED BY <1>1, <2>1
<1>4. \E u \in 1..n : a[u].role = "user" /\ n - u <= Weight(MaxIteration)
  <2>1. CASE m.role = "user"
    <3>1. n \in 1..n /\ n - n <= Weight(MaxIteration)
      BY <1>1, <1>2
    <3> QED BY <1>1, <2>1, <3>1
  <2>2. ASSUME NEW k \in Nat, Recent(s, k), k + 1 <= Weight(MaxIteration)
        PROVE  \E u \in 1..n : a[u].role = "user" /\ n - u <= Weight(MaxIteration)
    <3>1. PICK u \in 1..Len(s) : s[u].role = "user" /\ Len(s) - u <= k
      BY <2>2 DEF Recent
    <3> QED BY <1>1, <1>2, <2>2, <3>1
  <2> QED BY <2>1, <2>2
<1>5. \A i \in 1..n : i \in 1..Len(s) \/ i = n
  BY <1>1
<1> QED BY <1>1, <1>3, <1>4, <1>5 DEF Led, a

(* The window of such a conversation begins with a message of a user. *)
LEMMA LedHistory ==
    ASSUME NEW s \in Seq(Message), Led(s), Window >= 1 + Weight(MaxIteration)
    PROVE  /\ GetHistory(s) \in Seq(Message)
           /\ GetHistory(s) # <<>> => GetHistory(s)[1].role = "user"
<1> DEFINE h == GetHistory(s)
<1>1. PICK q \in 1..(Len(s) + 1) :
         /\ TailFrom(h, s, q)
         /\ (\E u \in 1..Len(s) : u > Len(s) - Window /\ s[u].role = "user")
               => q \in 1..Len(s) /\ s[q].role = "user"
  BY HistoryIsSuffix
<1> HIDE DEF h
<1>2. /\ Len(s) \in Nat /\ Len(h) \in Nat /\ h \in Seq(Message)
      /\ Len(h) = Len(s) - q + 1 /\ \A i \in 1..Len(h) : h[i] = s[q + i - 1]
  BY <1>1, LenProperties DEF TailFrom
<1>3. ASSUME h # <<>> PROVE h[1].role = "user"
  <2>1. Len(h) # 0
    BY <1>2, <1>3, EmptySeq
  <2>2. Len(s) \in 1..Len(s)
    BY <1>2, <2>1
  <2>3. PICK u \in 1..Len(s) : s[u].role = "user" /\ Len(s) - u <= Weight(MaxIteration)
    BY <2>2 DEF Led
  <2>4. Window \in Nat /\ Weight(MaxIteration) \in Nat
    BY WeightGrows, SizesAssumption
  <2>5. u > Len(s) - Window
    BY <1>2, <2>3, <2>4
  <2>6. s[q].role = "user"
    BY <1>1, <2>3, <2>5
  <2>7. h[1] = s[q]
    <3>1. 1 \in 1..Len(h)
      <4>1. Len(h) \in Nat
        BY <1>2
      <4> QED BY <2>1, <4>1
    <3>2. q \in Nat /\ q + 1 - 1 = q
      BY <1>2
    <3> QED BY <1>2, <3>1, <3>2
  <2> QED BY <2>6, <2>7
<1> QED BY <1>2, <1>3 DEF h

(* A request stays begun. *)
LEMMA AppendBegun ==
    ASSUME NEW s \in Seq(Message), NEW m \in Message,
           Begun(s) \/ (s = <<>> /\ m.role = "user")
    PROVE  Begun(Append(s, m))
<1>1. /\ Len(s) \in Nat /\ Append(s, m) \in Seq(Message)
      /\ Len(Append(s, m)) = Len(s) + 1 /\ Append(s, m)[Len(s) + 1] = m
      /\ \A i \in 1..Len(s) : Append(s, m)[i] = s[i]
  BY LenProperties, AppendProperties
<1>2. Append(s, m) # <<>>
  BY <1>1, EmptySeq
<1>3. CASE s = <<>>
  <2>1. Len(s) = 0
    BY <1>3
  <2>2. Append(s, m)[1] = m
    BY <1>1, <2>1
  <2> QED BY <1>2, <1>3, <2>2 DEF Begun
<1>4. CASE s # <<>>
  <2>1. Len(s) # 0
    BY <1>4, EmptySeq
  <2>2. 1 \in 1..Len(s)
    BY <1>1, <2>1
  <2>3. Append(s, m)[1] = s[1]
    BY <1>1, <2>2
  <2> QED BY <1>2, <1>4, <2>3 DEF Begun
<1> QED BY <1>3, <1>4

(* The session a turn begins with. *)
LEMMA LoadedLed ==
    ASSUME TypeInv, LedInv, NEW c \in Chats
    PROVE  \A s \in GetOrCreate(c) : s \in Seq(Message) /\ Led(s)
<1>1. files[c] \in Seq(Message) \cup {NoFile}
  BY DEF TypeInv, TypeOK
<1>2. Led(Session(c))
  <2>1. CASE sessions[c] # NotLoaded
    BY <2>1 DEF Session, LedInv
  <2>2. CASE sessions[c] = NotLoaded /\ files[c] = NoFile
    BY <2>2, EmptySeq DEF Session, Load, Led
  <2>3. CASE sessions[c] = NotLoaded /\ files[c] # NoFile
    BY <1>1, <2>3 DEF Session, Load, LedInv
  <2> QED BY <2>1, <2>2, <2>3
<1>3. ASSUME NEW s \in GetOrCreate(c) PROVE s \in Seq(Message) /\ Led(s)
  <2>1. s \in Seq(Message) /\ Begins(s, Session(c)) /\ Session(c) \in Seq(Message)
    BY SessionTyped DEF TypeInv
  <2> QED BY <1>2, <2>1, LedPart
<1> QED BY <1>3

(* The steps of a turn, given how far they are from the user's message.    *)
LEMMA LedTurn ==
    ASSUME TypeInv, LedInv, pc \in {"ask", "tools"}, NEW STATE m, m \in Message,
           sessions' = [sessions EXCEPT ![chat] = Append(@, m)],
           messages' = Append(messages, m),
           UNCHANGED <<files, chat>>,
           NEW k \in Nat, Recent(sessions[chat], k), k + 1 <= Weight(MaxIteration),
           pc' = "ask" => k + 1 <= Weight(iteration') /\ Weight(iteration') \in Nat,
           pc' = "tools" => k + 1 <= Weight(iteration') + 1 + calls'.done
                            /\ Weight(iteration') + 1 + calls'.done \in Nat
    PROVE  LedInv'
<1> DEFINE a == Append(sessions[chat], m)
<1>1. /\ chat \in Chats /\ sessions[chat] \in Seq(Message) /\ messages \in Seq(Message)
      /\ sessions[chat] # NotLoaded
  BY SessionIsLoaded DEF TypeInv, TypeOK, WorkOK, Working
<1>2. \A c \in Chats : sessions'[c] = IF c = chat THEN a ELSE sessions[c]
  BY <1>1 DEF TypeInv, TypeOK
<1>3. Led(a) /\ a \in Seq(Message)
  BY <1>1, LedAppend, AppendProperties DEF LedInv
<1>4. Recent(a, k + 1)
  BY <1>1, AppendRecent
<1>5. Begun(Append(messages, m))
  BY <1>1, AppendBegun DEF LedInv
<1> HIDE DEF a
<1>6. k + 1 \in Nat
  OBVIOUS
<1>7. pc' = "ask" => Recent(a, Weight(iteration'))
  BY <1>3, <1>4, <1>6, RecentWeaker
<1>8. pc' = "tools" => Recent(a, Weight(iteration') + 1 + calls'.done)
  <2> DEFINE n == Weight(iteration') + 1 + calls'.done
  <2>1. ASSUME pc' = "tools" PROVE n \in Nat /\ k + 1 <= n
    BY <2>1
  <2> HIDE DEF n
  <2>2. pc' = "tools" => Recent(a, n)
    BY <1>3, <1>4, <1>6, <2>1, RecentWeaker
  <2> QED BY <2>2 DEF n
<1> QED BY <1>1, <1>2, <1>3, <1>5, <1>7, <1>8 DEF LedInv

LEMMA LedStep ==
    ASSUME TypeInv, LedInv, Window >= 1 + Weight(MaxIteration), [Next]_vars
    PROVE  LedInv'
<1>t. /\ sessions \in [Chats -> Seq(Message) \cup {NotLoaded}]
      /\ files \in [Chats -> Seq(Message) \cup {NoFile}]
      /\ turns \in 0..MaxTurns /\ MaxCalls \in Nat
  BY SizesAssumption DEF TypeInv, TypeOK
<1>w. pc \in Working => /\ chat \in Chats /\ sessions[chat] \in Seq(Message)
                        /\ sessions[chat] # NotLoaded /\ turns \in 1..MaxTurns
  BY <1>t, SizesAssumption, SessionIsLoaded DEF TypeInv, WorkOK
<1>i. pc \in {"ask", "tools"} =>
         /\ iteration \in 0..MaxIteration /\ iteration + 1 \in 0..MaxIteration
         /\ Weight(iteration) \in Nat /\ Weight(iteration + 1) \in Nat
         /\ Weight(iteration + 1) = Weight(iteration) + 1 + MaxCalls
         /\ Weight(iteration + 1) <= Weight(MaxIteration) /\ Weight(MaxIteration) \in Nat
  <2>1. pc \in {"ask", "tools"} =>
           iteration \in 0..MaxIteration /\ iteration + 1 \in 0..MaxIteration
    BY SizesAssumption DEF TypeInv, TypeOK, WorkOK
  <2> QED BY <2>1, WeightGrows, SizesAssumption
<1>1. ASSUME NEW c \in Chats, BeginTurn(c) PROVE LedInv'
  <2>0. PICK s \in GetOrCreate(c) :
          /\ messages' = Append(GetHistory(s), User(turns'))
          /\ sessions' = [sessions EXCEPT ![c] = Append(s, User(turns'))]
    BY <1>1 DEF BeginTurn
  <2> DEFINE h == GetHistory(s)
             m == User(turns')
  <2>1. turns' \in 1..MaxTurns /\ chat' = c /\ pc' = "ask" /\ iteration' = 0 /\ files' = files
    BY <1>1, <1>t, SizesAssumption DEF BeginTurn
  <2>2. m \in Message /\ m.role = "user"
    BY <2>1, UserTyped DEF User
  <2>3. s \in Seq(Message) /\ Led(s)
    BY LoadedLed
  <2>4. \A d \in Chats : sessions'[d] = IF d = c THEN Append(s, m) ELSE sessions[d]
    BY <1>t, <2>0
  <2>5. messages' = Append(h, m)
    BY <2>0
  <2> HIDE DEF m
  <2>6. h \in Seq(Message) /\ (h # <<>> => h[1].role = "user")
    BY <2>3, LedHistory
  <2> HIDE DEF h
  <2>7. Led(Append(s, m)) /\ Begun(Append(h, m))
    BY <2>2, <2>3, <2>6, LedAppend, AppendBegun DEF Begun
  <2>8. Recent(Append(s, m), Weight(0))
    <3>1. Len(s) \in Nat /\ Len(Append(s, m)) = Len(s) + 1 /\ Append(s, m)[Len(s) + 1] = m
      BY <2>2, <2>3, LenProperties, AppendProperties
    <3>2. Weight(0) = 0
      BY WeightGrows, SizesAssumption
    <3> QED BY <2>2, <3>1, <3>2 DEF Recent
  <2> QED BY <2>1, <2>4, <2>5, <2>7, <2>8 DEF LedInv
<1>2. ASSUME NEW n \in 0..MaxCalls, NEW stop \in {FALSE, StopWithCalls}, Complete(n, stop)
      PROVE  LedInv'
  <2>1. Assistant(turns, n) \in Message
    BY <1>2, <1>w, MessagesTyped DEF Complete, Working
  <2>2. Recent(sessions[chat], Weight(iteration)) /\ Weight(iteration) + 1 <= Weight(MaxIteration)
    BY <1>2, <1>t, <1>i DEF Complete, LedInv
  <2>3. /\ pc = "ask" /\ iteration' = iteration /\ UNCHANGED <<files, chat>>
        /\ pc' \in {"reply", "tools"} /\ (pc' = "tools" => calls'.done = 0)
        /\ sessions' = [sessions EXCEPT ![chat] = Append(@, Assistant(turns, n))]
        /\ messages' = Append(messages, Assistant(turns, n))
    BY <1>2 DEF Complete, AddMessage
  <2>4. pc' = "tools" => /\ Weight(iteration) + 1 <= Weight(iteration') + 1 + calls'.done
                         /\ Weight(iteration') + 1 + calls'.done \in Nat
    BY <1>i, <2>3
  <2>5. Weight(iteration) \in Nat /\ pc \in {"ask", "tools"} /\ pc' # "ask"
    BY <1>i, <2>3
  <2> QED BY <2>1, <2>2, <2>3, <2>4, <2>5, LedTurn
<1>3. CASE ExecuteToolCall
  <2> DEFINE d == calls.done
             m == ToolResult(turns, d + 1)
             k == Weight(iteration) + 1 + d
  <2>1. d \in Nat /\ d + 1 \in 0..MaxCalls /\ d + 1 <= calls.all /\ calls.all <= MaxCalls
    BY <1>3, <1>t DEF ExecuteToolCall, TypeInv, TypeOK, WorkOK
  <2>2. m \in Message
    BY <1>3, <1>w, <2>1, MessagesTyped DEF ExecuteToolCall, Working
  <2>3. /\ pc = "tools" /\ UNCHANGED <<files, chat>>
        /\ sessions' = [sessions EXCEPT ![chat] = Append(@, m)]
        /\ messages' = Append(messages, m)
    BY <1>3 DEF ExecuteToolCall, AddMessage
  <2>4. Recent(sessions[chat], k)
    BY <2>3 DEF LedInv
  <2>5. k \in Nat /\ k + 1 <= Weight(MaxIteration)
    <3>1. /\ Weight(iteration) \in Nat /\ Weight(MaxIteration) \in Nat
          /\ Weight(iteration) + 1 + MaxCalls <= Weight(MaxIteration)
      BY <1>i, <2>3
    <3>2. d + 1 <= MaxCalls
      BY <1>t, <2>1 DEF TypeInv, TypeOK
    <3> HIDE DEF d
    <3> QED BY <1>t, <2>1, <3>1, <3>2
  <2>6. CASE d + 1 < calls.all
    <3>1. pc' = "tools" /\ iteration' = iteration /\ calls'.done = d + 1
      BY <1>3, <2>3, <2>6 DEF ExecuteToolCall, TypeInv, TypeOK
    <3>2. k + 1 <= Weight(iteration') + 1 + calls'.done /\ Weight(iteration') + 1 + calls'.done \in Nat
      BY <1>i, <2>1, <2>3, <3>1
    <3> HIDE DEF k, m, d
    <3>3. pc \in {"ask", "tools"} /\ pc' # "ask"
      BY <2>3, <3>1
    <3> QED BY <2>2, <2>3, <2>4, <2>5, <3>2, <3>3, LedTurn
  <2>7. CASE ~(d + 1 < calls.all)
    <3>1. pc' \in {"ask", "reply"} /\ iteration' = iteration + 1
      BY <1>3, <2>7 DEF ExecuteToolCall
    <3>2. k + 1 <= Weight(iteration') /\ Weight(iteration') \in Nat
      BY <1>t, <1>i, <2>1, <2>3, <3>1
    <3> HIDE DEF k, m, d
    <3>3. pc \in {"ask", "tools"} /\ pc' # "tools"
      BY <2>3, <3>1
    <3> QED BY <2>2, <2>3, <2>4, <2>5, <3>2, <3>3, LedTurn
  <2> QED BY <2>6, <2>7
<1>4. CASE CompleteFails \/ Reply \/ Confirm \/ Restart
  BY <1>4 DEF CompleteFails, Reply, Confirm, Restart, LedInv
<1>5. ASSUME NEW c \in Chats, NewCommand(c) PROVE LedInv'
  <2>1. /\ pc' = "clear" /\ UNCHANGED files
        /\ \A d \in Chats : sessions'[d] = IF d = c THEN <<>> ELSE sessions[d]
    BY <1>5, <1>t DEF NewCommand
  <2>2. Led(<<>>)
    BY DEF Led
  <2> QED BY <2>1, <2>2 DEF LedInv
<1>6. CASE Save \/ SaveFails
  <2>1. PICK f : /\ SaveResult(f)
                 /\ \/ f = sessions[chat] \/ f = files[chat]
                    \/ \E i \in 0..Len(sessions[chat]) : f = SubSeq(sessions[chat], 1, i)
    BY <1>6 DEF Save, SaveFails, Beginnings
  <2>2. /\ chat \in Chats /\ sessions[chat] \in Seq(Message) /\ Led(sessions[chat])
        /\ sessions' = sessions /\ pc' \in {"confirm", "idle"}
        /\ \A c \in Chats : files'[c] = IF c = chat THEN f ELSE files[c]
    BY <2>1, <1>t, <1>w DEF SaveResult, Working, LedInv
  <2>3. f # NoFile => Led(f)
    <3>1. ASSUME NEW i \in 0..Len(sessions[chat]) PROVE Led(SubSeq(sessions[chat], 1, i))
      BY <2>2, SubSeqPrefix, LedPart
    <3> QED BY <2>1, <2>2, <3>1 DEF LedInv
  <2> QED BY <2>2, <2>3 DEF LedInv
<1>7. CASE Crash
  <2>1. pc' = "down" /\ \A c \in Chats : sessions'[c] = NotLoaded
    BY <1>7 DEF Crash
  <2>2. ASSUME NEW f \in Torn, files' = [files EXCEPT ![chat] = f]
        PROVE  \A c \in Chats : files'[c] # NoFile => Led(files'[c])
    <3>1. PICK i \in 0..Len(sessions[chat]) : f = SubSeq(sessions[chat], 1, i)
      BY <2>2 DEF Torn, Beginnings
    <3>2. pc \in Working
      BY <2>2 DEF Torn, Working
    <3>3. Led(f)
      BY <1>w, <3>1, <3>2, SubSeqPrefix, LedPart DEF LedInv
    <3> QED BY <1>t, <2>2, <3>3 DEF LedInv
  <2>3. \A c \in Chats : files'[c] # NoFile => Led(files'[c])
    BY <1>7, <2>2 DEF Crash, LedInv
  <2> QED BY <2>1, <2>3 DEF LedInv
<1>8. CASE UNCHANGED vars
  BY <1>8 DEF vars, LedInv
<1> QED
  BY <1>1, <1>2, <1>3, <1>4, <1>5, <1>6, <1>7, <1>8 DEF Next, TurnStep

(* If the window holds the longest turn, the earliest message of every     *)
(* request is from the user, as trimHistoryStart says: whatever the model  *)
(* answers, and also in a chat that lost the end of its file or was read   *)
(* only in part.                                                           *)
THEOREM RequestsBeginWithUser ==
    ASSUME Window >= 1 + Weight(MaxIteration)
    PROVE  Spec => []HistoryStartsWithUser
<1>1. Init => TypeInv /\ LedInv
  BY EmptySeq, SizesAssumption
     DEF Init, TypeInv, TypeOK, WorkOK, Working, NoCalls, LedInv
<1>2. TypeInv /\ [Next]_vars => TypeInv'
  BY TypeStep
<1>3. TypeInv /\ LedInv /\ [Next]_vars => LedInv'
  BY LedStep
<1>4. LedInv => HistoryStartsWithUser
  BY DEF LedInv, Begun, HistoryStartsWithUser
<1> QED BY <1>1, <1>2, <1>3, <1>4, PTL DEF Spec

-----------------------------------------------------------------------------
(* A turn has an end *)

(* What is left of a turn, in numbers of requests. *)
LeftOK ==
    /\ StepsLeft \in 0..(2 + Weight(MaxIteration))
    /\ pc = "ask" => StepsLeft = 2 + Weight(MaxIteration - iteration)
    /\ pc = "tools" => StepsLeft = 2 + Weight(MaxIteration - iteration - 1)
                                    + (calls.all - calls.done)
    /\ pc \in {"reply", "clear"} => StepsLeft = 2
    /\ pc \in {"save", "confirm"} => StepsLeft = 1
    /\ pc \in {"idle", "down"} => StepsLeft = 0

LEMMA StepsLeftOf == TypeInv => LeftOK
<1> SUFFICES ASSUME TypeInv PROVE LeftOK
  OBVIOUS
<1>1. /\ MaxIteration \in Nat /\ MaxCalls \in Nat /\ iteration \in 0..MaxIteration
      /\ pc \in {"idle", "ask", "tools", "reply", "save", "clear", "confirm", "down"}
      /\ calls.all \in 0..MaxCalls /\ calls.done \in 0..MaxCalls
      /\ pc \in {"ask", "tools"} => iteration < MaxIteration
      /\ pc = "tools" => calls.done < calls.all
  BY SizesAssumption DEF TypeInv, TypeOK, WorkOK
<1>2. \A k \in 0..MaxIteration : Weight(k) \in Nat /\ Weight(k) <= Weight(MaxIteration)
  BY WeightGrows
<1>3. CASE pc = "ask"
  <2> DEFINE k == MaxIteration - iteration
  <2>1. k \in 0..MaxIteration
    BY <1>1
  <2>2. StepsLeft = 2 + Weight(k)
    BY <1>3 DEF StepsLeft, Weight
  <2> HIDE DEF k
  <2>3. Weight(k) \in Nat /\ Weight(k) <= Weight(MaxIteration) /\ Weight(MaxIteration) \in Nat
    BY <1>1, <1>2, <2>1
  <2>4. StepsLeft \in 0..(2 + Weight(MaxIteration))
    BY <2>2, <2>3
  <2> QED BY <1>3, <2>2, <2>4 DEF k, LeftOK
<1>4. CASE pc = "tools"
  <2> DEFINE k == MaxIteration - iteration - 1
             d == calls.all - calls.done
  <2>1. k \in 0..MaxIteration /\ d \in Nat /\ d <= MaxCalls /\ k + 1 \in 0..MaxIteration
    BY <1>1, <1>4
  <2>2. StepsLeft = 2 + Weight(k) + d
    BY <1>4 DEF StepsLeft, Weight
  <2> HIDE DEF k, d
  <2>3. /\ Weight(k) \in Nat /\ Weight(k + 1) = Weight(k) + 1 + MaxCalls
        /\ Weight(k + 1) <= Weight(MaxIteration) /\ Weight(MaxIteration) \in Nat
    BY <1>1, <1>2, <2>1, WeightGrows
  <2>4. StepsLeft \in 0..(2 + Weight(MaxIteration))
    BY <1>1, <2>1, <2>2, <2>3
  <2> QED BY <1>4, <2>2, <2>4 DEF k, d, LeftOK
<1>5. CASE pc \notin {"ask", "tools"}
  <2>1. Weight(MaxIteration) \in Nat
    BY <1>1, <1>2
  <2>2. /\ pc \in {"reply", "clear"} => StepsLeft = 2
        /\ pc \in {"save", "confirm"} => StepsLeft = 1
        /\ pc \in {"idle", "down"} => StepsLeft = 0
    BY <1>1, <1>5 DEF StepsLeft
  <2> QED BY <1>1, <1>5, <2>1, <2>2 DEF LeftOK
<1> QED BY <1>3, <1>4, <1>5

(* A step of a turn leaves less to do. *)
LEMMA ShrinkStep ==
    ASSUME TypeInv, TypeInv', LeftOK, LeftOK', [Next]_vars, vars' # vars,
           pc \notin {"idle", "down"}
    PROVE  StepsLeft' < StepsLeft
<1>0. /\ MaxIteration \in Nat /\ MaxCalls \in Nat /\ iteration \in 0..MaxIteration
      /\ pc \in Working
      /\ pc \in {"ask", "tools"} => iteration < MaxIteration
      /\ pc = "tools" => /\ calls.all \in 0..MaxCalls /\ calls.done \in 0..MaxCalls
                         /\ calls.done < calls.all
      /\ calls = [all |-> calls.all, done |-> calls.done]
  BY SizesAssumption DEF TypeInv, TypeOK, WorkOK, Working
(* With k requests left after this one. *)
<1> DEFINE k == MaxIteration - iteration - 1
<1>k. pc \in {"ask", "tools"} =>
         /\ k \in Nat /\ MaxIteration - iteration = k + 1 /\ Weight(k) \in Nat
         /\ Weight(k + 1) = Weight(k) + 1 + MaxCalls
  <2>1. pc \in {"ask", "tools"} => k \in 0..MaxIteration /\ MaxIteration - iteration = k + 1
    BY <1>0
  <2> HIDE DEF k
  <2> QED BY <1>0, <2>1, WeightGrows
<1>l. StepsLeft \in Nat /\ StepsLeft' \in Nat
  BY <1>0, WeightGrows DEF LeftOK
<1>1. ASSUME NEW n \in 0..MaxCalls, NEW stop \in {FALSE, StopWithCalls}, Complete(n, stop)
      PROVE  StepsLeft' < StepsLeft
  <2>1. StepsLeft = 2 + Weight(k) + 1 + MaxCalls
    <3> HIDE DEF k
    <3> QED BY <1>1, <1>0, <1>k DEF Complete, LeftOK
  <2>2. pc' = "reply" \/ (pc' = "tools" /\ iteration' = iteration /\ calls' = [all |-> n, done |-> 0])
    BY <1>1 DEF Complete
  <2>3. StepsLeft' = 2 \/ StepsLeft' = 2 + Weight(k) + n
    BY <2>2 DEF LeftOK
  <2>4. Weight(k) \in Nat
    BY <1>1, <1>k DEF Complete
  <2> HIDE DEF k
  <2> QED BY <1>0, <2>1, <2>3, <2>4
<1>2. CASE CompleteFails
  <2>1. StepsLeft = 2 + Weight(k) + 1 + MaxCalls /\ Weight(k) \in Nat
    <3> HIDE DEF k
    <3> QED BY <1>2, <1>0, <1>k DEF CompleteFails, LeftOK
  <2>2. StepsLeft' = 2
    BY <1>2 DEF CompleteFails, LeftOK
  <2> HIDE DEF k
  <2> QED BY <1>0, <2>1, <2>2
<1>3. CASE ExecuteToolCall
  <2> DEFINE all == calls.all
             done == calls.done
  <2>1. /\ StepsLeft = 2 + Weight(k) + (all - done) /\ Weight(k) \in Nat
        /\ all \in Nat /\ done \in Nat /\ done < all
    BY <1>3, <1>0, <1>k DEF ExecuteToolCall, LeftOK
  <2>2. CASE done + 1 < all
    <3>1. pc' = "tools" /\ iteration' = iteration /\ calls'.all = all /\ calls'.done = done + 1
      BY <1>0, <1>3, <2>2 DEF ExecuteToolCall
    <3>2. StepsLeft' = 2 + Weight(k) + (all - (done + 1))
      BY <3>1 DEF LeftOK
    <3> HIDE DEF k, all, done
    <3> QED BY <2>1, <2>2, <3>2
  <2>3. CASE ~(done + 1 < all)
    <3>1. iteration' = iteration + 1 /\ pc' \in {"ask", "reply"}
      BY <1>3, <2>3 DEF ExecuteToolCall
    <3>2. MaxIteration - iteration' = k
      BY <1>0, <3>1
    <3>3. StepsLeft' = 2 \/ StepsLeft' = 2 + Weight(k)
      BY <3>1, <3>2 DEF LeftOK
    <3> HIDE DEF k, all, done
    <3> QED BY <2>1, <3>3
  <2> QED BY <2>2, <2>3
<1>4. CASE Reply \/ Confirm \/ Crash
  BY <1>0, <1>4, <1>k, <1>l DEF Reply, Confirm, Crash, LeftOK, Working
<1>5. CASE Save \/ SaveFails
  <2>1. \E f : SaveResult(f)
    BY <1>5 DEF Save, SaveFails
  <2> QED BY <2>1 DEF SaveResult, LeftOK
<1>6. CASE (\E c \in Chats : BeginTurn(c) \/ NewCommand(c)) \/ Restart
  BY <1>6 DEF BeginTurn, NewCommand, Restart
<1> QED
  BY <1>1, <1>2, <1>3, <1>4, <1>5, <1>6 DEF Next, TurnStep

(* Every step of a turn or a command shortens what is left of it, and no   *)
(* turn has more than 2 + MaxIteration * (1 + MaxCalls) steps: the part of *)
(* TurnEnds that does not need fairness.                                   *)
THEOREM TurnsAreBounded == Spec => TurnShrinks
<1> DEFINE Body == /\ pc \notin {"idle", "down"} => StepsLeft' < StepsLeft
                   /\ StepsLeft' \in 0..(2 + MaxIteration * (1 + MaxCalls))
<1>1. Init => TypeInv
  BY EmptySeq, SizesAssumption DEF Init, TypeInv, TypeOK, WorkOK, Working, NoCalls
<1>2. TypeInv /\ [Next]_vars => TypeInv'
  BY TypeStep
<1>3. TypeInv => LeftOK
  BY StepsLeftOf
<1>4. TypeInv /\ TypeInv' /\ LeftOK /\ LeftOK' /\ [Next]_vars => [Body]_vars
  <2> SUFFICES ASSUME TypeInv, TypeInv', LeftOK, LeftOK', [Next]_vars, vars' # vars
               PROVE  Body
    OBVIOUS
  <2>1. pc \notin {"idle", "down"} => StepsLeft' < StepsLeft
    BY ShrinkStep
  <2>2. StepsLeft' \in 0..(2 + MaxIteration * (1 + MaxCalls))
    BY DEF LeftOK, Weight
  <2> QED BY <2>1, <2>2
<1> QED BY <1>1, <1>2, <1>3, <1>4, PTL DEF Spec, TurnShrinks

-----------------------------------------------------------------------------
(* What is remembered is what would be read back *)

(* The session of a chat the agent does not work for, or whose /new it is  *)
(* about to confirm, is what its file holds, unless the last Save failed.  *)
ReadBack(c) == sessions[c] # NotLoaded => sessions[c] = Load(files[c])
RememberInv ==
    /\ \A c \in Chats \ failed : c # chat \/ pc = "confirm" => ReadBack(c)
    /\ pc \in {"idle", "down"} => chat = NoChat

(* A sequence of messages in a file is read as it is. *)
LEMMA LoadedWhole ==
    ASSUME NEW f \in Seq(Message)
    PROVE  Load(f) = f /\ \A i \in 0..Len(f) : Load(SubSeq(f, 1, i)) = SubSeq(f, 1, i)
<1>1. \A i \in 0..Len(f) : SubSeq(f, 1, i) \in Seq(Message)
  BY SubSeqPrefix DEF Begins
<1> QED BY <1>1, SessionIsLoaded DEF Load

(* A message is appended to the session of the chat the agent works for.   *)
LEMMA RememberAppend ==
    ASSUME TypeInv, RememberInv, pc \in {"ask", "tools"}, pc' \notin {"confirm", "idle", "down"},
           NEW STATE m, sessions' = [sessions EXCEPT ![chat] = Append(@, m)],
           UNCHANGED <<files, chat, failed>>
    PROVE  RememberInv'
<1>1. \A c \in Chats : c # chat => sessions'[c] = sessions[c]
  BY DEF TypeInv, TypeOK
<1> QED BY <1>1 DEF RememberInv, ReadBack

LEMMA RememberStep ==
    ASSUME TypeInv, TypeInv', RememberInv, [Next]_vars
    PROVE  RememberInv'
<1>t. /\ sessions \in [Chats -> Seq(Message) \cup {NotLoaded}]
      /\ files \in [Chats -> Seq(Message) \cup {NoFile}]
      /\ turns \in 0..MaxTurns /\ NoChat \notin Chats
  BY MarksAssumption DEF TypeInv, TypeOK
<1>w. pc \in Working => /\ chat \in Chats /\ sessions[chat] \in Seq(Message)
                        /\ sessions[chat] # NotLoaded /\ turns \in 1..MaxTurns
  BY <1>t, SizesAssumption, SessionIsLoaded DEF TypeInv, WorkOK
<1>1. ASSUME NEW c \in Chats, BeginTurn(c) PROVE RememberInv'
  <2>1. /\ chat' = c /\ pc' = "ask" /\ pc = "idle" /\ UNCHANGED <<files, failed>>
        /\ \A d \in Chats : d # c => sessions'[d] = sessions[d]
    BY <1>1, <1>t DEF BeginTurn
  <2>2. chat = NoChat
    BY <2>1 DEF RememberInv
  <2> QED BY <1>t, <2>1, <2>2 DEF RememberInv, ReadBack
<1>2. ASSUME NEW n \in 0..MaxCalls, NEW stop \in {FALSE, StopWithCalls}, Complete(n, stop)
      PROVE  RememberInv'
  BY <1>2, RememberAppend DEF Complete, AddMessage, historyVars
<1>3. CASE ExecuteToolCall
  <2>1. pc = "tools" /\ pc' \in {"tools", "ask", "reply"} /\ UNCHANGED <<files, chat, failed>>
    BY <1>3 DEF ExecuteToolCall, historyVars
  <2> QED BY <1>3, <2>1, RememberAppend DEF ExecuteToolCall, AddMessage
<1>4. CASE CompleteFails \/ Reply
  BY <1>4 DEF CompleteFails, Reply, historyVars, RememberInv, ReadBack
<1>5. CASE Confirm
  BY <1>5 DEF Confirm, RememberInv, ReadBack
<1>6. ASSUME NEW c \in Chats, NewCommand(c) PROVE RememberInv'
  <2>1. /\ chat' = c /\ pc' = "clear" /\ UNCHANGED <<files, failed>>
        /\ \A d \in Chats : sessions'[d] = IF d = c THEN <<>> ELSE sessions[d]
    BY <1>6, <1>t DEF NewCommand
  <2>2. chat = NoChat
    BY <1>6 DEF NewCommand, RememberInv
  <2> QED BY <1>t, <2>1, <2>2 DEF RememberInv, ReadBack
<1>7. CASE Save \/ SaveFails
  <2>1. PICK f : /\ SaveResult(f)
                 /\ \/ f = sessions[chat] /\ failed' = failed \ {chat}
                    \/ failed' = failed \cup {chat}
    BY <1>7 DEF Save, SaveFails
  <2>2. chat \in Chats /\ sessions[chat] \in Seq(Message)
    BY <2>1, <1>w DEF SaveResult, Working
  <2>3. /\ \A c \in Chats : files'[c] = IF c = chat THEN f ELSE files[c]
        /\ sessions' = sessions /\ pc' # "down" /\ (pc' = "idle" => chat' = NoChat)
    BY <1>t, <2>1 DEF SaveResult
  <2>4. chat \notin failed' => sessions[chat] = Load(f)
    BY <2>1, <2>2, LoadedWhole
  <2>5. \A c \in Chats : c # chat /\ c \notin failed' => c \notin failed
    BY <2>1
  <2> QED BY <2>3, <2>4, <2>5 DEF RememberInv, ReadBack
<1>8. CASE Crash
  <2>1. chat' = NoChat /\ \A c \in Chats : sessions'[c] = NotLoaded
    BY <1>8 DEF Crash
  <2> QED BY <2>1 DEF RememberInv, ReadBack
<1>9. CASE Restart \/ UNCHANGED vars
  BY <1>9 DEF Restart, vars, historyVars, RememberInv, ReadBack
<1> QED
  BY <1>1, <1>2, <1>3, <1>4, <1>5, <1>6, <1>7, <1>8, <1>9 DEF Next, TurnStep

(* Between turns memory and file agree on every chat whose last Save did   *)
(* not fail, through crashes inside Save and loads that fail.              *)
THEOREM MemoryAgreesWithFiles == Spec => []Remembered
<1>1. Init => TypeInv /\ RememberInv
  BY EmptySeq, SizesAssumption
     DEF Init, TypeInv, TypeOK, WorkOK, Working, NoCalls, RememberInv, ReadBack
<1>2. TypeInv /\ [Next]_vars => TypeInv'
  BY TypeStep
<1>3. TypeInv /\ TypeInv' /\ RememberInv /\ [Next]_vars => RememberInv'
  BY RememberStep
<1>4. TypeInv /\ RememberInv => Remembered
  <2>1. RememberInv /\ pc = "idle" => chat \notin Chats
    BY MarksAssumption DEF RememberInv
  <2> QED BY <2>1 DEF RememberInv, ReadBack, Remembered
<1> QED BY <1>1, <1>2, <1>3, <1>4, PTL DEF Spec

-----------------------------------------------------------------------------
(* The sessions implement SessionStore *)

(* The chat with unsaved messages. *)
Unsaved == IF pc \in {"ask", "tools", "reply", "save", "clear"} THEN chat ELSE NoChat

(* A step that appends to the session of a chat, loading it if need be, is *)
(* something said in it.                                                   *)
LEMMA SaidInStore ==
    ASSUME TypeInv, NEW c \in Chats, NEW STATE s, s \in GetOrCreate(c),
           NEW STATE m, m \in Message, Unsaved \in {NoChat, c}, Unsaved' = c,
           sessions' = [sessions EXCEPT ![c] = Append(s, m)],
           UNCHANGED <<files, failed>>
    PROVE  Store!Next
<1> DEFINE a == Append(s, m)
<1>1. /\ s \in Seq(Message)
      /\ s = Session(c) \/ (s \in Beginnings(Session(c)) /\ sessions[c] = NotLoaded)
  BY SessionTyped DEF TypeInv
<1>2. a \in Seq(Message) /\ Len(a) = Len(s) + 1 /\ a[Len(a)] = m
  BY <1>1, AppendProperties
<1>3. a # NotLoaded /\ a # <<>>
  <2>1. Len(a) # 0
    BY <1>1, <1>2, LenProperties
  <2>2. Len(<<>>) = 0
    BY EmptySeq
  <2> QED BY <1>2, <2>1, <2>2, SessionIsLoaded
<1>4. \A d \in Chats : sessions'[d] = IF d = c THEN a ELSE sessions[d]
  BY DEF TypeInv, TypeOK
<1> HIDE DEF a
<1> DEFINE R == [d \in Chats |-> Session(d)]
           U == {d \in Chats : sessions[d] # NotLoaded}
<1>5. \A d \in Chats : R'[d] = IF d = c THEN a ELSE R[d]
  BY <1>3, <1>4 DEF Session
<1>6. R' = [R EXCEPT ![c] = a]
  BY <1>5
<1>7. R'[c] = a /\ R[c] = Session(c)
  BY <1>5
<1>8. U' = U \cup {c}
  BY <1>3, <1>4
<1>9. s \in IF c \in U THEN {R[c]} ELSE Store!Beginnings(R[c])
  <2>1. CASE c \in U
    BY <1>1, <1>7, <2>1
  <2>2. CASE c \notin U
    <3>1. Session(c) \in Seq(Message)
      BY SessionTyped DEF TypeInv
    <3>2. Session(c) \in Beginnings(Session(c))
      <4>1. Len(Session(c)) \in 0..Len(Session(c))
        BY <3>1, LenProperties
      <4>2. SubSeq(Session(c), 1, Len(Session(c))) = Session(c)
        BY <3>1, SubSeqFull
      <4> QED BY <4>1, <4>2 DEF Beginnings
    <3>3. s \in Store!Beginnings(Session(c))
      BY <1>1, <3>2 DEF Beginnings, Store!Beginnings
    <3> QED BY <1>7, <2>2, <3>3
  <2> QED BY <2>1, <2>2
<1>10. Store!Say(c)
  <2>1. R'[c] # <<>> /\ R'[c][Len(R'[c])] = m
    BY <1>2, <1>3, <1>7
  <2>2. R' = [R EXCEPT ![c] = Append(s, R'[c][Len(R'[c])])]
    BY <1>6, <1>7, <2>1 DEF a
  <2> QED BY <1>8, <1>9, <2>1, <2>2 DEF Store!Say, Unsaved
<1> QED BY <1>10 DEF Store!Next

(* A step that changes neither what is remembered nor what is saved. *)
LEMMA StoreRests ==
    ASSUME UNCHANGED <<sessions, files, failed>>, Unsaved' = Unsaved
    PROVE  UNCHANGED Store!vars
BY DEF Store!vars, Session, Unsaved

LEMMA StoreStep ==
    ASSUME TypeInv, [Next]_vars
    PROVE  [Store!Next]_(Store!vars)
<1> DEFINE R == [d \in Chats |-> Session(d)]
           S == [d \in Chats |-> Load(files[d])]
           U == {d \in Chats : sessions[d] # NotLoaded}
<1>t. /\ sessions \in [Chats -> Seq(Message) \cup {NotLoaded}]
      /\ files \in [Chats -> Seq(Message) \cup {NoFile}]
      /\ turns \in 0..MaxTurns /\ NoChat \notin Chats
      /\ pc \in {"idle", "ask", "tools", "reply", "save", "clear", "confirm", "down"}
  BY MarksAssumption DEF TypeInv, TypeOK
<1>w. pc \in Working => /\ chat \in Chats /\ sessions[chat] \in Seq(Message)
                        /\ sessions[chat] # NotLoaded /\ turns \in 1..MaxTurns
  BY <1>t, SizesAssumption, SessionIsLoaded DEF TypeInv, WorkOK
<1>1. ASSUME NEW c \in Chats, BeginTurn(c) PROVE Store!Next
  <2> DEFINE m == User(turns')
  <2>1. /\ turns' \in 1..MaxTurns /\ chat' = c /\ pc' = "ask" /\ pc = "idle"
        /\ UNCHANGED <<files, failed>>
    BY <1>1, <1>t, SizesAssumption DEF BeginTurn
  <2>s. PICK s \in GetOrCreate(c) : sessions' = [sessions EXCEPT ![c] = Append(s, m)]
    BY <1>1 DEF BeginTurn
  <2>2. m \in Message
    BY <2>1, UserTyped
  <2>3. Unsaved = NoChat /\ Unsaved' = c
    BY <2>1 DEF Unsaved
  <2> HIDE DEF m
  <2> QED BY <2>1, <2>s, <2>2, <2>3, SaidInStore
<1>a. ASSUME NEW STATE m, m \in Message, pc \in {"ask", "tools"},
             pc' \in {"ask", "tools", "reply"},
             sessions' = [sessions EXCEPT ![chat] = Append(@, m)],
             UNCHANGED <<files, chat, failed>>
      PROVE  Store!Next
  <2>1. chat \in Chats /\ sessions[chat] \in GetOrCreate(chat)
    BY <1>w, <1>a DEF Working, GetOrCreate, Session
  <2>2. Unsaved = chat /\ Unsaved' = chat
    BY <1>a DEF Unsaved
  <2> QED BY <1>a, <2>1, <2>2, SaidInStore
<1>2. ASSUME NEW n \in 0..MaxCalls, NEW stop \in {FALSE, StopWithCalls}, Complete(n, stop)
      PROVE  Store!Next
  <2>1. Assistant(turns, n) \in Message
    BY <1>2, <1>w, MessagesTyped DEF Complete, Working
  <2> QED BY <1>2, <1>a, <2>1 DEF Complete, AddMessage, historyVars
<1>3. CASE ExecuteToolCall
  <2> DEFINE m == ToolResult(turns, calls.done + 1)
  <2>1. calls.done + 1 \in 0..MaxCalls
    BY <1>3, SizesAssumption DEF ExecuteToolCall, TypeInv, TypeOK, WorkOK
  <2>2. m \in Message
    BY <1>3, <1>w, <2>1, MessagesTyped DEF ExecuteToolCall, Working
  <2>3. /\ pc = "tools" /\ pc' \in {"tools", "ask", "reply"} /\ UNCHANGED <<files, chat, failed>>
        /\ sessions' = [sessions EXCEPT ![chat] = Append(@, m)]
    BY <1>3 DEF ExecuteToolCall, AddMessage, historyVars
  <2> HIDE DEF m
  <2> QED BY <1>a, <2>2, <2>3
<1>4. CASE CompleteFails \/ Reply \/ Confirm \/ Restart \/ UNCHANGED vars
  <2>1. UNCHANGED <<sessions, files, failed>> /\ Unsaved' = Unsaved
    BY <1>4 DEF CompleteFails, Reply, Confirm, Restart, vars, historyVars, Unsaved
  <2> QED BY <2>1, StoreRests
<1>5. ASSUME NEW c \in Chats, NewCommand(c) PROVE Store!Next
  <2>1. /\ chat' = c /\ pc' = "clear" /\ pc = "idle" /\ UNCHANGED <<files, failed>>
        /\ \A d \in Chats : sessions'[d] = IF d = c THEN <<>> ELSE sessions[d]
    BY <1>5, <1>t DEF NewCommand
  <2>2. <<>> # NotLoaded
    BY EmptySeq, SessionIsLoaded
  <2>3. \A d \in Chats : R'[d] = IF d = c THEN <<>> ELSE R[d]
    BY <2>1, <2>2 DEF Session
  <2>4. R' = [R EXCEPT ![c] = <<>>]
    BY <2>3
  <2>u. U' = U \cup {c}
    BY <2>1, <2>2
  <2>5. Store!Forget(c)
    BY <2>1, <2>4, <2>u DEF Store!Forget
  <2> QED BY <2>5 DEF Store!Next
(* What a save leaves is read back as it is. *)
<1>b. pc \in Working =>
         \A i \in 0..Len(sessions[chat]) :
            Load(SubSeq(sessions[chat], 1, i)) = SubSeq(sessions[chat], 1, i)
  BY <1>w, LoadedWhole
<1>r. pc \in Working => R[chat] = sessions[chat] /\ Load(sessions[chat]) = sessions[chat]
  BY <1>w, LoadedWhole DEF Session
<1>6. CASE Save \/ SaveFails
  <2>1. PICK f : /\ SaveResult(f)
                 /\ \/ f = sessions[chat] /\ failed' = failed \ {chat}
                    \/ /\ \/ f = files[chat]
                          \/ \E i \in 0..Len(sessions[chat]) : f = SubSeq(sessions[chat], 1, i)
                       /\ failed' = failed \cup {chat}
    BY <1>6 DEF Save, SaveFails, Beginnings
  <2>2. /\ pc \in {"save", "clear"} /\ pc' \in {"confirm", "idle"} /\ sessions' = sessions
        /\ pc \in Working
        /\ \A d \in Chats : files'[d] = IF d = chat THEN f ELSE files[d]
    BY <1>t, <2>1 DEF SaveResult, Working
  <2>3. chat \in Chats /\ chat # NoChat
    BY <1>t, <1>w, <2>2
  <2>4. \A d \in Chats : R'[d] = R[d]
    <3>1. \A d \in Chats : sessions[d] = NotLoaded => d # chat
      BY <1>w, <2>2
    <3> QED BY <2>2, <3>1 DEF Session
  <2>5. R' = R /\ U' = U
    BY <2>2, <2>4
  <2>6. S' = [S EXCEPT ![chat] = Load(f)]
    BY <2>2
  <2> DEFINE B == IF pc \in {"ask", "tools", "reply", "save", "clear"} THEN chat ELSE NoChat
  <2>7. B = chat /\ B' = NoChat
    BY <2>2
  <2>8. CASE f = sessions[chat] /\ failed' = failed \ {chat}
    <3>1. S' = [S EXCEPT ![B] = R[B]]
      BY <1>r, <2>2, <2>6, <2>7, <2>8
    <3>2. Store!Save
      BY <2>3, <2>5, <2>7, <2>8, <3>1 DEF Store!Save
    <3> QED BY <3>2 DEF Store!Next
  <2>9. ASSUME failed' = failed \cup {chat},
               \/ f = files[chat]
               \/ \E i \in 0..Len(sessions[chat]) : f = SubSeq(sessions[chat], 1, i)
        PROVE  Store!Next
    <3>1. Load(f) \in {S[chat]} \cup Store!Beginnings(R[chat])
      <4>1. CASE f = files[chat]
        BY <2>3, <4>1
      <4>2. ASSUME NEW i \in 0..Len(sessions[chat]), f = SubSeq(sessions[chat], 1, i)
            PROVE  Load(f) \in Store!Beginnings(R[chat])
        BY <1>b, <1>r, <2>2, <4>2 DEF Store!Beginnings
      <4> QED BY <2>9, <4>1, <4>2
    <3> HIDE DEF R, S, B
    <3>2. \E s \in {S[B]} \cup Store!Beginnings(R[B]) : S' = [S EXCEPT ![B] = s]
      BY <2>6, <2>7, <3>1
    <3>3. Store!SaveFails
      BY <2>3, <2>5, <2>7, <2>9, <3>2 DEF Store!SaveFails, R, S, B
    <3> QED BY <3>3 DEF Store!Next
  <2> QED BY <2>1, <2>8, <2>9
<1>7. CASE Crash
  <2> DEFINE B == IF pc \in {"ask", "tools", "reply", "save", "clear"} THEN chat ELSE NoChat
  <2>1. /\ pc' = "down" /\ failed' = {} /\ \A d \in Chats : sessions'[d] = NotLoaded
    BY <1>7 DEF Crash
  <2>2. B' = NoChat
    BY <2>1
  <2>3. R' = S'
    BY <2>1 DEF Session
  <2>4. \/ S' = S
        \/ B # NoChat /\ \E s \in Store!Beginnings(R[B]) : S' = [S EXCEPT ![B] = s]
    <3>1. ASSUME NEW f \in Torn, files' = [files EXCEPT ![chat] = f]
          PROVE  B # NoChat /\ \E s \in Store!Beginnings(R[B]) : S' = [S EXCEPT ![B] = s]
      <4>1. pc \in {"save", "clear"} /\ pc \in Working
        BY <3>1 DEF Torn, Working
      <4>2. PICK i \in 0..Len(sessions[chat]) : f = SubSeq(sessions[chat], 1, i)
        BY <3>1 DEF Torn, Beginnings
      <4>3. chat \in Chats /\ chat # NoChat /\ B = chat
        BY <1>t, <1>w, <4>1
      <4>4. Load(f) \in Store!Beginnings(R[chat])
        BY <1>b, <1>r, <4>1, <4>2 DEF Store!Beginnings
      <4>5. S' = [S EXCEPT ![chat] = Load(f)]
        BY <1>t, <3>1, <4>3
      <4> HIDE DEF R, S, B
      <4> QED BY <4>3, <4>4, <4>5
    <3>2. UNCHANGED files => S' = S
      OBVIOUS
    <3> QED BY <1>7, <3>1, <3>2 DEF Crash
  <2>u. U' = {}
    BY <2>1
  <2>5. Store!Die
    BY <2>1, <2>2, <2>3, <2>4, <2>u DEF Store!Die
  <2> QED BY <2>5 DEF Store!Next
<1> QED
  BY <1>1, <1>2, <1>3, <1>4, <1>5, <1>6, <1>7 DEF Next, TurnStep

(* The refinement: whatever happens to turns, saves, loads and the         *)
(* process, the sessions behave like SessionStore.                         *)
THEOREM SessionsAreAStore == Spec => ImplementsSessionStore
<1>1. Init => TypeInv
  BY EmptySeq, SizesAssumption DEF Init, TypeInv, TypeOK, WorkOK, Working, NoCalls
<1>2. Init => Store!Init
  BY DEF Init, Store!Init, Session, Load
<1>3. TypeInv /\ [Next]_vars => TypeInv'
  BY TypeStep
<1>4. TypeInv /\ [Next]_vars => [Store!Next]_(Store!vars)
  BY StoreStep
<1> QED BY <1>1, <1>2, <1>3, <1>4, PTL DEF Spec, ImplementsSessionStore, Store!Spec

(* What SessionStore means: only the turn in progress and chats that could *)
(* not be saved have something to lose.                                    *)
THEOREM StoreHasLittleToLose == Store!Spec => []Store!LittleToLose
<1> DEFINE R == [d \in Chats |-> Session(d)]
           S == [d \in Chats |-> Load(files[d])]
           B == IF pc \in {"ask", "tools", "reply", "save", "clear"} THEN chat ELSE NoChat
           Safe == \A d \in Chats \ failed : d # B => R[d] = S[d]
<1>1. Store!Init => Store!LittleToLose
  BY DEF Store!Init, Store!LittleToLose
<1>2. Store!LittleToLose /\ [Store!Next]_(Store!vars) => Store!LittleToLose'
  <2> SUFFICES ASSUME Safe, [Store!Next]_(Store!vars) PROVE Safe'
    BY DEF Store!LittleToLose
  <2>n. \A d \in Chats : d # NoChat
    BY MarksAssumption
  <2>1. ASSUME NEW c \in Chats, Store!Forget(c) \/ Store!Say(c) PROVE Safe'
    <3>1. B \in {NoChat, c} /\ B' = c /\ S' = S /\ failed' = failed
      BY <2>1 DEF Store!Forget, Store!Say
    <3>2. PICK log : R' = [R EXCEPT ![c] = log]
      BY <2>1 DEF Store!Forget, Store!Say
    <3>3. \A d \in Chats : d # c => R'[d] = R[d]
      BY <3>2
    <3> HIDE DEF R, S, B
    <3> QED BY <2>n, <3>1, <3>3
  <2>2. CASE Store!Save
    <3>1. R' = R /\ B' = NoChat /\ failed' = failed \ {B} /\ S' = [S EXCEPT ![B] = R[B]]
      BY <2>2 DEF Store!Save
    <3>2. \A d \in Chats : S'[d] = IF d = B THEN R[B] ELSE S[d]
      BY <3>1
    <3> HIDE DEF R, S, B
    <3> QED BY <3>1, <3>2
  <2>3. CASE Store!SaveFails
    <3>1. R' = R /\ B' = NoChat /\ failed' = failed \cup {B}
      BY <2>3 DEF Store!SaveFails
    <3>2. PICK s : S' = [S EXCEPT ![B] = s]
      BY <2>3 DEF Store!SaveFails
    <3>3. \A d \in Chats : d # B => S'[d] = S[d]
      BY <3>2
    <3> HIDE DEF R, S, B
    <3> QED BY <3>1, <3>3
  <2>4. CASE Store!Die
    <3>1. R' = S'
      BY <2>4 DEF Store!Die
    <3> HIDE DEF R, S, B
    <3> QED BY <3>1
  <2>5. CASE UNCHANGED Store!vars
    <3>1. R' = R /\ S' = S /\ B' = B /\ failed' = failed
      BY <2>5 DEF Store!vars
    <3> HIDE DEF R, S, B
    <3> QED BY <3>1
  <2> QED BY <2>1, <2>2, <2>3, <2>4, <2>5 DEF Store!Next
<1> QED BY <1>1, <1>2, PTL DEF Store!Spec
=============================================================================
