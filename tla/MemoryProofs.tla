---------------------------- MODULE MemoryProofs ----------------------------
(***************************************************************************)
(* What the consolidation of the memory promises, for any number of        *)
(* messages, failures and crashes and any messages to keep: no message     *)
(* disappears from the session and its file without an entry in            *)
(* HISTORY.md, unless a /new dropped it, its Save failed or it was not     *)
(* read back, and nothing is summarised again without a failure or a       *)
(* crash.  Neither is inductive alone: between the writing of the entry    *)
(* and the trim the messages of the job are summarised and still in the    *)
(* session, and between a turn and its Save the session is ahead of the    *)
(* file a crash falls back on.                                             *)
(*                                                                         *)
(* And what the file tools promise, for any words and any length: an edit  *)
(* replaces the one place of its text.  That rests on what the counting of *)
(* the occurrences computes, which is a recursion over the file.           *)
(***************************************************************************)
EXTENDS Memory, FiniteSetTheorems, SequenceTheorems, WellFoundedInduction, TLAPS

USE MemoryBoundsAssumption, BlankAssumption

Numbers == 1..MaxMessages

Summarising == job.pc \in {"ask", "history", "memory"}

(* The job works on the messages the session begins with. *)
JobOK ==
    Summarising =>
        /\ job.to \in session
        /\ job.lines = {m \in session : m <= job.to} \ Blank

MemoryTypes ==
    /\ said \in 0..MaxMessages
    /\ session \subseteq 1..said /\ saved \subseteq 1..said
    /\ untold \subseteq 1..said /\ dropped \subseteq 1..said /\ lost \subseteq 1..said
    /\ history \in Seq(SUBSET Numbers) /\ Summarised \subseteq 1..said
    /\ failures \in Nat /\ crashes \in Nat
    /\ job = [pc |-> job.pc, to |-> job.to, lines |-> job.lines, current |-> job.current,
              update |-> job.update]
    /\ JobOK

(* Between a turn and its Save the session may be ahead of its file. *)
SavedInv == job.pc \notin {"turn", "save"} => session \subseteq saved \cup lost

(* The entry of the job is written. *)
EntryWritten == job.pc = "memory" => broken \/ job.lines \subseteq Summarised \cup untold

AccountInv == MemoryTypes /\ SavedInv /\ EntryWritten /\ Accounted

-----------------------------------------------------------------------------
(* The history *)

LEMMA AppendSummarises ==
    ASSUME NEW h \in Seq(SUBSET Numbers), NEW e \in SUBSET Numbers
    PROVE  /\ Append(h, e) \in Seq(SUBSET Numbers)
           /\ UNION ToSet(Append(h, e)) = e \cup UNION ToSet(h)
<1>1. /\ Len(h) \in Nat /\ DOMAIN h = 1..Len(h)
      /\ DOMAIN Append(h, e) = 1..(Len(h) + 1)
      /\ \A i \in 1..Len(h) : Append(h, e)[i] = h[i]
      /\ Append(h, e)[Len(h) + 1] = e
  OBVIOUS
<1>2. ToSet(Append(h, e)) = ToSet(h) \cup {e}
  BY <1>1 DEF ToSet
<1> QED  BY <1>2

LEMMA PrefixOfHistory ==
    ASSUME NEW h \in Seq(SUBSET Numbers), NEW p \in Prefixes(h)
    PROVE  /\ p \in Seq(SUBSET Numbers)
           /\ Len(p) <= Len(h) /\ \A i \in 1..Len(p) : p[i] = h[i]
           /\ UNION ToSet(p) \subseteq UNION ToSet(h)
<1>1. PICK l \in 0..Len(h) : p = SubSeq(h, 1, l)
  BY DEF Prefixes
<1>2. /\ p \in Seq(SUBSET Numbers)
      /\ Len(p) <= Len(h) /\ \A i \in 1..Len(p) : p[i] = h[i]
  BY <1>1
<1>3. /\ Len(p) \in Nat /\ Len(h) \in Nat
      /\ DOMAIN p = 1..Len(p) /\ DOMAIN h = 1..Len(h)
  BY <1>2
<1>4. ToSet(p) \subseteq ToSet(h)
  BY <1>2, <1>3 DEF ToSet
<1> QED  BY <1>2, <1>4

-----------------------------------------------------------------------------
(* Every message is accounted for *)

LEMMA NothingSummarised == UNION ToSet(<<>>) = {}
BY DEF ToSet

LEMMA AccountInit == Init => AccountInv
<1> SUFFICES ASSUME Init PROVE AccountInv
  OBVIOUS
<1>1. Summarised = {}
  BY NothingSummarised DEF Init, Summarised
<1>2. history \in Seq(SUBSET Numbers)
  BY DEF Init
<1> QED
  BY <1>1, <1>2 DEF Init, AccountInv, MemoryTypes, JobOK, Summarising, NoJob, SavedInv,
     EntryWritten, Accounted

(* What a step leaves alone when it only touches the files of the tools. *)
LEMMA AccountFrame ==
    ASSUME AccountInv, UNCHANGED memoryVars
    PROVE  AccountInv'
BY DEF AccountInv, MemoryTypes, JobOK, Summarising, SavedInv, EntryWritten, Accounted,
   Summarised, memoryVars, gone

LEMMA AccountNext == AccountInv /\ [Next]_vars => AccountInv'
<1> SUFFICES ASSUME AccountInv, [Next]_vars PROVE AccountInv'
  OBVIOUS
<1> USE DEF AccountInv, MemoryTypes, JobOK, Summarising, SavedInv, EntryWritten, Accounted,
        gone
<1>n. /\ NoJob = [pc |-> NoJob.pc, to |-> NoJob.to, lines |-> NoJob.lines,
                  current |-> NoJob.current, update |-> NoJob.update]
      /\ NoJob.pc = "idle"
  BY DEF NoJob
<1>h. ASSUME UNCHANGED history PROVE Summarised' = Summarised
  BY <1>h DEF Summarised
<1>1. CASE Turn
  <2>1. /\ said' = said + 1 /\ session' = session \cup {said + 1} /\ said < MaxMessages
        /\ UNCHANGED <<saved, history, failures, crashes, broken, untold, dropped, lost>>
        /\ job' = [NoJob EXCEPT !.pc = "turn"]
    BY <1>1 DEF Turn
  <2>2. /\ job'.pc = "turn"
        /\ job' = [pc |-> job'.pc, to |-> job'.to, lines |-> job'.lines,
                   current |-> job'.current, update |-> job'.update]
    BY <1>n, <2>1 DEF NoJob
  <2>3. 1..said' = 1..said \cup {said + 1} /\ said' \in 0..MaxMessages
    BY <2>1
  <2> QED  BY <1>h, <2>1, <2>2, <2>3
<1>2. CASE ToolStep \/ Somebody \/ UNCHANGED vars
  BY <1>2, AccountFrame DEF ToolStep, Somebody, vars
<1>3. CASE NewCommand
  <2>1. /\ session' = {} /\ dropped' = dropped \cup session
        /\ UNCHANGED <<said, saved, history, failures, crashes, broken, untold, lost>>
        /\ job' = [NoJob EXCEPT !.pc = "save"]
    BY <1>3 DEF NewCommand
  <2>2. /\ job'.pc = "save"
        /\ job' = [pc |-> job'.pc, to |-> job'.to, lines |-> job'.lines,
                   current |-> job'.current, update |-> job'.update]
    BY <1>n, <2>1 DEF NoJob
  <2> QED  BY <1>h, <2>1, <2>2
<1>4. CASE Save \/ SaveFails
  <2>1. PICK s : SaveResult(s) /\ s \subseteq 1..said
    <3>1. ASSUME NEW s \in Beginnings(session) PROVE s \subseteq 1..said
      BY <3>1 DEF Beginnings
    <3>2. CASE Save
      BY <3>2 DEF Save
    <3>3. CASE SaveFails
      <4>1. PICK s \in {saved} \cup Beginnings(session) : SaveResult(s)
        BY <3>3 DEF SaveFails
      <4> QED  BY <3>1, <4>1
    <3> QED  BY <1>4, <3>2, <3>3
  <2>2. /\ saved' = s /\ lost' = (lost \ session) \cup (session \ s) /\ job' = NoJob
        /\ UNCHANGED <<said, session, history, failures, crashes, broken, untold, dropped>>
    BY <2>1 DEF SaveResult
  <2> QED  BY <1>n, <1>h, <2>1, <2>2
<1>5. CASE BeginConsolidation
  <2>1. PICK to \in session :
          \E c : job' = [pc |-> "ask", to |-> to,
                         lines |-> {m \in session : m <= to} \ Blank,
                         current |-> c, update |-> <<>>]
    BY <1>5 DEF BeginConsolidation
  <2>2. /\ UNCHANGED <<said, session, saved, history, failures, crashes, broken, untold,
                       dropped, lost>>
        /\ job.pc = "idle"
    BY <1>5 DEF BeginConsolidation, AtRest
  <2>3. /\ job'.pc = "ask" /\ job'.to = to /\ job'.lines = {m \in session : m <= to} \ Blank
        /\ job' = [pc |-> job'.pc, to |-> job'.to, lines |-> job'.lines,
                   current |-> job'.current, update |-> job'.update]
    BY <2>1
  <2> QED  BY <1>h, <2>2, <2>3
<1>6. CASE CompleteFails
  <2>1. /\ failures' = failures + 1 /\ job' = NoJob /\ job.pc = "ask"
        /\ UNCHANGED <<said, session, saved, history, crashes, broken, untold, dropped, lost>>
    BY <1>6 DEF CompleteFails, ConsolidationFails
  <2> QED  BY <1>n, <1>h, <2>1
<1>7. ASSUME NEW entry \in BOOLEAN, NEW update \in Text, Complete(entry, update)
      PROVE  AccountInv'
  <2>1. /\ job.pc = "ask"
        /\ job' = [job EXCEPT !.pc = IF entry THEN "history" ELSE "memory", !.update = update]
        /\ untold' = IF entry THEN untold ELSE untold \cup job.lines
        /\ UNCHANGED <<said, session, saved, history, failures, crashes, broken, dropped, lost>>
    BY <1>7 DEF Complete
  <2>2. /\ job'.pc \in {"history", "memory"} /\ (entry => job'.pc = "history")
        /\ job'.to = job.to /\ job'.lines = job.lines
        /\ job' = [pc |-> job'.pc, to |-> job'.to, lines |-> job'.lines,
                   current |-> job'.current, update |-> job'.update]
    BY <2>1
  <2>3. job.lines \subseteq 1..said
    BY <2>1
  <2> QED  BY <1>h, <2>1, <2>2, <2>3
<1>8. CASE AppendHistory
  <2>1. /\ job.pc = "history" /\ history' = Append(history, job.lines)
        /\ job' = [job EXCEPT !.pc = "memory"]
        /\ UNCHANGED <<said, session, saved, failures, crashes, broken, untold, dropped, lost>>
    BY <1>8 DEF AppendHistory
  <2>2. job.lines \in SUBSET Numbers /\ job.lines \subseteq 1..said
    BY <2>1 DEF Numbers
  <2>3. history' \in Seq(SUBSET Numbers) /\ Summarised' = job.lines \cup Summarised
    BY <2>1, <2>2, AppendSummarises DEF Summarised
  <2>4. /\ job'.pc = "memory" /\ job'.lines = job.lines /\ job'.to = job.to
        /\ job' = [pc |-> job'.pc, to |-> job'.to, lines |-> job'.lines,
                   current |-> job'.current, update |-> job'.update]
    BY <2>1
  <2> QED  BY <2>1, <2>2, <2>3, <2>4
<1>9. CASE AppendHistoryFails
  <2>1. /\ failures' = failures + 1 /\ job' = NoJob /\ job.pc = "history"
        /\ UNCHANGED <<said, session, saved, crashes, untold, dropped, lost>>
        /\ \/ UNCHANGED <<history, broken>>
           \/ history' \in Prefixes(history) /\ broken' = TRUE
    BY <1>9 DEF AppendHistoryFails, ConsolidationFails
  <2>2. CASE UNCHANGED <<history, broken>>
    BY <1>n, <1>h, <2>1, <2>2
  <2>3. CASE history' \in Prefixes(history) /\ broken' = TRUE
    <3>1. history' \in Seq(SUBSET Numbers) /\ Summarised' \subseteq Summarised
      BY <2>3, PrefixOfHistory DEF Summarised
    <3> QED  BY <1>n, <2>1, <2>3, <3>1
  <2> QED  BY <2>1, <2>2, <2>3
<1>10. CASE WriteMemory
  <2>1. /\ session' = {m \in session : m > job.to} /\ job.pc = "memory" /\ job' = NoJob
        /\ UNCHANGED <<said, saved, history, failures, crashes, broken, untold, dropped, lost>>
    BY <1>10 DEF WriteMemory, Trim
  <2>2. Accounted'
    <3> SUFFICES ASSUME ~broken, NEW m \in session, m <= job.to
                 PROVE  m \in Blank \cup Summarised \cup untold
      <4>1. said \in Int /\ job.to \in Int /\ \A m \in session : m \in Int
        BY <2>1
      <4> QED  BY <1>h, <2>1, <4>1
    <3> QED  BY <2>1
  <2> QED  BY <1>n, <1>h, <2>1, <2>2
<1>11. CASE WriteMemoryFails
  <2>1. /\ failures' = failures + 1 /\ job' = NoJob /\ job.pc = "memory"
        /\ UNCHANGED <<said, session, saved, history, crashes, broken, untold, dropped, lost>>
    BY <1>11 DEF WriteMemoryFails, ConsolidationFails, WritesMemory
  <2> QED  BY <1>n, <1>h, <2>1
<1>12. CASE Crash
  <2>1. /\ crashes' = crashes + 1 /\ job' = NoJob
        /\ UNCHANGED <<said, failures, untold, dropped>>
        /\ \/ UNCHANGED <<history, broken>>
           \/ history' \in Prefixes(history) /\ broken' = TRUE
        /\ lost' = lost \cup (saved' \ session')
                        \cup (IF job.pc \in {"turn", "save"} THEN session \ saved' ELSE {})
    BY <1>12 DEF Crash
  <2>2. saved' \subseteq 1..said /\ (job.pc \in {"turn", "save"} \/ saved' = saved)
    BY <1>12 DEF Crash, Saving, Beginnings
  <2>3. session' \subseteq saved'
    BY <1>12 DEF Crash, Beginnings
  <2>4. lost' \subseteq 1..said /\ session \subseteq session' \cup lost'
    <3>1. CASE job.pc \in {"turn", "save"}
      BY <2>1, <2>2, <2>3, <3>1
    <3>2. CASE job.pc \notin {"turn", "save"}
      BY <2>1, <2>2, <2>3, <3>2
    <3> QED  BY <3>1, <3>2
  <2>5. lost \subseteq lost'
    BY <2>1
  <2>6. CASE UNCHANGED <<history, broken>>
    <3>1. Accounted'
      BY <1>h, <2>1, <2>4, <2>5, <2>6
    <3> QED  BY <1>n, <1>h, <2>1, <2>2, <2>3, <2>4, <2>6, <3>1
  <2>7. CASE history' \in Prefixes(history) /\ broken' = TRUE
    <3>1. history' \in Seq(SUBSET Numbers) /\ Summarised' \subseteq Summarised
      BY <2>7, PrefixOfHistory DEF Summarised
    <3> QED  BY <1>n, <2>1, <2>2, <2>3, <2>4, <2>7, <3>1
  <2> QED  BY <2>1, <2>6, <2>7
<1> QED
  BY <1>1, <1>2, <1>3, <1>4, <1>5, <1>6, <1>7, <1>8, <1>9, <1>10, <1>11, <1>12 DEF Next

(* Every message with a text that the session no longer holds has an entry *)
(* in HISTORY.md, whatever fails, or is one the model had none for, a /new *)
(* dropped, a Save did not write or a load did not read; unless a write of *)
(* HISTORY.md broke off.                                                   *)
THEOREM NothingIsLost == Spec => []Accounted
<1>1. AccountInv => Accounted
  BY DEF AccountInv
<1> QED  BY <1>1, AccountInit, AccountNext, PTL DEF Spec

-----------------------------------------------------------------------------
(* Nothing is summarised again without a failure *)

EntriesIn(h, m) == {i \in DOMAIN h : m \in h[i]}

LEMMA EntriesFinite ==
    ASSUME NEW h \in Seq(SUBSET Numbers), NEW m
    PROVE  IsFiniteSet(EntriesIn(h, m)) /\ Cardinality(EntriesIn(h, m)) \in Nat
<1>1. DOMAIN h = 1..Len(h) /\ Len(h) \in Nat
  OBVIOUS
<1>2. EntriesIn(h, m) \subseteq 1..Len(h)
  BY <1>1 DEF EntriesIn
<1>3. IsFiniteSet(1..Len(h))
  BY <1>1, FS_Interval
<1>4. IsFiniteSet(EntriesIn(h, m))
  BY <1>2, <1>3, FS_Subset
<1> QED  BY <1>4, FS_CardinalityType

(* A new entry counts for the messages it summarises. *)
LEMMA EntriesOfAppend ==
    ASSUME NEW h \in Seq(SUBSET Numbers), NEW e \in SUBSET Numbers, NEW m
    PROVE  /\ m \in e => Cardinality(EntriesIn(Append(h, e), m)) =
                            Cardinality(EntriesIn(h, m)) + 1
           /\ m \notin e => Cardinality(EntriesIn(Append(h, e), m)) =
                               Cardinality(EntriesIn(h, m))
<1>1. /\ Len(h) \in Nat /\ DOMAIN h = 1..Len(h)
      /\ DOMAIN Append(h, e) = 1..(Len(h) + 1)
      /\ \A i \in 1..Len(h) : Append(h, e)[i] = h[i]
      /\ Append(h, e)[Len(h) + 1] = e
  OBVIOUS
<1>2. IsFiniteSet(EntriesIn(h, m)) /\ Cardinality(EntriesIn(h, m)) \in Nat
  BY EntriesFinite
<1>5. Len(h) + 1 \notin EntriesIn(h, m)
  BY <1>1 DEF EntriesIn
<1>3. CASE m \in e
  <2>1. EntriesIn(Append(h, e), m) = EntriesIn(h, m) \cup {Len(h) + 1}
    BY <1>1, <1>3 DEF EntriesIn
  <2> QED  BY <1>2, <1>3, <1>5, <2>1, FS_AddElement
<1>4. CASE m \notin e
  <2>1. EntriesIn(Append(h, e), m) = EntriesIn(h, m)
    BY <1>1, <1>4 DEF EntriesIn
  <2> QED  BY <1>2, <1>4, <2>1
<1> QED  BY <1>3, <1>4

LEMMA EntriesOfPrefix ==
    ASSUME NEW h \in Seq(SUBSET Numbers), NEW p \in Prefixes(h), NEW m
    PROVE  Cardinality(EntriesIn(p, m)) <= Cardinality(EntriesIn(h, m))
<1>1. /\ p \in Seq(SUBSET Numbers)
      /\ Len(p) <= Len(h) /\ \A i \in 1..Len(p) : p[i] = h[i]
  BY PrefixOfHistory
<1>2. EntriesIn(p, m) \subseteq EntriesIn(h, m)
  BY <1>1 DEF EntriesIn
<1> QED  BY <1>2, EntriesFinite, FS_Subset

(* A message may be summarised once more for each failure and each crash,  *)
(* and once for good.                                                      *)
Done(m) ==
    \/ m \notin session
    \/ job.pc = "memory" /\ m \in job.lines

RepeatInv ==
    \A m \in Numbers :
        Cardinality(EntriesIn(history, m)) <= failures + crashes + (IF Done(m) THEN 1 ELSE 0)

LEMMA RepeatInit == Init => RepeatInv
<1> SUFFICES ASSUME Init, NEW m \in Numbers
             PROVE  Cardinality(EntriesIn(history, m)) = 0 /\ failures = 0 /\ crashes = 0
  BY DEF RepeatInv
<1>1. EntriesIn(<<>>, m) = {}
  BY DEF EntriesIn
<1> QED  BY <1>1, FS_EmptySet DEF Init

LEMMA RepeatNext == AccountInv /\ RepeatInv /\ [Next]_vars => RepeatInv'
<1> SUFFICES ASSUME AccountInv, RepeatInv, [Next]_vars, NEW m \in Numbers
             PROVE  Cardinality(EntriesIn(history, m))' <=
                       failures' + crashes' + (IF Done(m)' THEN 1 ELSE 0)
  BY DEF RepeatInv
<1> DEFINE count == Cardinality(EntriesIn(history, m))
<1>h. history \in Seq(SUBSET Numbers)
  BY DEF AccountInv, MemoryTypes
<1>c. count \in Nat
  BY <1>h, EntriesFinite
<1>0. /\ count \in Nat /\ count <= failures + crashes + (IF Done(m) THEN 1 ELSE 0)
      /\ failures \in Nat /\ crashes \in Nat
  BY <1>c DEF AccountInv, MemoryTypes, RepeatInv
<1> HIDE DEF count
<1>1. CASE UNCHANGED <<history, failures, crashes>> /\ (Done(m) => Done(m)')
  <2>1. count' = count
    BY <1>1 DEF count
  <2> QED  BY <1>0, <1>1, <2>1 DEF count
<1>2. CASE /\ count' \in Nat /\ count' <= count
           /\ failures' + crashes' = failures + crashes + 1
  BY <1>0, <1>2 DEF count
<1>3. CASE Turn
  <2>1. /\ UNCHANGED <<history, failures, crashes>>
        /\ said' = said + 1 /\ session' = session \cup {said + 1} /\ job.pc = "idle"
    BY <1>3 DEF Turn, AtRest
  <2>2. CASE m = said + 1
    <3>1. m \notin Summarised
      BY <2>2 DEF AccountInv, MemoryTypes
    <3>2. EntriesIn(history, m) = {}
      BY <1>h, <3>1 DEF EntriesIn, Summarised, ToSet
    <3>3. count = 0
      BY <3>2, FS_EmptySet DEF count
    <3> QED  BY <1>0, <2>1, <3>3 DEF count
  <2>3. CASE m # said + 1
    BY <1>1, <2>1, <2>3 DEF Done
  <2> QED  BY <2>2, <2>3
<1>10. CASE NewCommand \/ Save \/ SaveFails \/ BeginConsolidation \/ ToolStep \/ Somebody
            \/ UNCHANGED vars
  <2>1. UNCHANGED <<history, failures, crashes>>
    BY <1>10 DEF NewCommand, Save, SaveFails, SaveResult, BeginConsolidation, ToolStep,
       Somebody, vars, memoryVars
  <2>2. CASE NewCommand
    BY <1>1, <2>1, <2>2 DEF Done, NewCommand
  <2>3. CASE Save \/ SaveFails \/ BeginConsolidation
    <3>1. session' = session /\ job.pc # "memory"
      BY <2>3 DEF Save, SaveFails, SaveResult, Saving, BeginConsolidation, AtRest
    <3> QED  BY <1>1, <2>1, <3>1 DEF Done
  <2>4. CASE ToolStep \/ Somebody \/ UNCHANGED vars
    <3>1. session' = session /\ job' = job
      BY <2>4 DEF ToolStep, Somebody, vars, memoryVars
    <3> QED  BY <1>1, <2>1, <3>1 DEF Done
  <2> QED  BY <1>10, <2>2, <2>3, <2>4
<1>4. CASE CompleteFails \/ WriteMemoryFails
  <2>1. history' = history /\ failures' = failures + 1 /\ crashes' = crashes
    BY <1>4 DEF CompleteFails, WriteMemoryFails, ConsolidationFails
  <2> QED  BY <1>0, <1>2, <2>1 DEF count
<1>5. ASSUME NEW entry \in BOOLEAN, NEW update \in Text, Complete(entry, update)
      PROVE  UNCHANGED <<history, failures, crashes>> /\ (Done(m) => Done(m)')
  BY <1>5 DEF Complete, Done
<1>6. CASE AppendHistory
  <2>0. job.lines \in SUBSET Numbers /\ job.pc = "history"
    BY <1>6 DEF AppendHistory, AccountInv, MemoryTypes, JobOK, Summarising, Numbers
  <2>1. /\ job.lines \in SUBSET Numbers /\ job.pc = "history"
        /\ history' = Append(history, job.lines)
        /\ job' = [job EXCEPT !.pc = "memory"]
        /\ UNCHANGED <<session, failures, crashes>>
    BY <1>6, <2>0 DEF AppendHistory
  <2>2. job'.pc = "memory" /\ job'.lines = job.lines
    BY <2>1 DEF AccountInv, MemoryTypes
  <2>3. (m \in job.lines => count' = count + 1) /\ (m \notin job.lines => count' = count)
    BY <1>h, <2>0, <2>1, EntriesOfAppend DEF count
  <2>4. m \in job.lines => ~Done(m) /\ Done(m)'
    BY <2>1, <2>2 DEF Done, AccountInv, MemoryTypes, JobOK, Summarising
  <2>5. m \notin job.lines => (Done(m) => Done(m)')
    BY <2>1 DEF Done
  <2> QED  BY <1>0, <2>1, <2>3, <2>4, <2>5 DEF count
<1>7. CASE AppendHistoryFails
  <2>1. history' = history \/ history' \in Prefixes(history)
    BY <1>7 DEF AppendHistoryFails
  <2>2. count' \in Nat /\ count' <= count
    <3>1. CASE history' = history
      BY <1>0, <3>1 DEF count
    <3>2. CASE history' \in Prefixes(history)
      <4>1. history' \in Seq(SUBSET Numbers)
        BY <1>h, <3>2, PrefixOfHistory
      <4>2. count' \in Nat
        BY <4>1, EntriesFinite DEF count
      <4>3. count' <= count
        BY <1>h, <3>2, EntriesOfPrefix DEF count
      <4> QED  BY <4>2, <4>3
    <3> QED  BY <2>1, <3>1, <3>2
  <2>3. failures' = failures + 1 /\ crashes' = crashes
    BY <1>7 DEF AppendHistoryFails, ConsolidationFails
  <2> QED  BY <1>0, <1>2, <2>2, <2>3
<1>8. CASE WriteMemory
  <2>1. /\ UNCHANGED <<history, failures, crashes>>
        /\ session' = {k \in session : k > job.to} /\ job.pc = "memory"
    BY <1>8 DEF WriteMemory, Trim
  <2>2. /\ job.to \in Int /\ \A k \in job.lines : k \in Int /\ k <= job.to
    BY <2>1 DEF AccountInv, MemoryTypes, JobOK, Summarising
  <2>3. Done(m) => Done(m)'
    BY <2>1, <2>2 DEF Done
  <2> QED  BY <1>1, <2>1, <2>3
<1>9. CASE Crash
  <2>1. history' = history \/ history' \in Prefixes(history)
    BY <1>9 DEF Crash
  <2>2. count' \in Nat /\ count' <= count
    <3>1. CASE history' = history
      BY <1>0, <3>1 DEF count
    <3>2. CASE history' \in Prefixes(history)
      <4>1. history' \in Seq(SUBSET Numbers)
        BY <1>h, <3>2, PrefixOfHistory
      <4>2. count' \in Nat
        BY <4>1, EntriesFinite DEF count
      <4>3. count' <= count
        BY <1>h, <3>2, EntriesOfPrefix DEF count
      <4> QED  BY <4>2, <4>3
    <3> QED  BY <2>1, <3>1, <3>2
  <2>3. failures' = failures /\ crashes' = crashes + 1
    BY <1>9 DEF Crash
  <2> QED  BY <1>0, <1>2, <2>2, <2>3
<1> QED  BY <1>1, <1>3, <1>4, <1>5, <1>6, <1>7, <1>8, <1>9, <1>10 DEF Next

(* A message is summarised at most once more than consolidations failed    *)
(* and the process died.                                                   *)
THEOREM RepeatsNeedFailures == Spec => []RepeatsBounded
<1>1. Init => AccountInv /\ RepeatInv
  BY AccountInit, RepeatInit
<1>2. (AccountInv /\ RepeatInv) /\ [Next]_vars => (AccountInv /\ RepeatInv)'
  BY AccountNext, RepeatNext
<1>3. AccountInv /\ RepeatInv => RepeatsBounded
  <2> SUFFICES ASSUME AccountInv, RepeatInv, NEW m \in Numbers
               PROVE  Cardinality(Entries(m)) <= 1 + failures + crashes
    BY DEF RepeatsBounded, Numbers
  <2>1. Entries(m) = EntriesIn(history, m)
    BY DEF Entries, EntriesIn
  <2>2. Cardinality(EntriesIn(history, m)) \in Nat /\ failures \in Nat /\ crashes \in Nat
    BY EntriesFinite DEF AccountInv, MemoryTypes
  <2> QED  BY <2>1, <2>2 DEF RepeatInv
<1> QED  BY <1>1, <1>2, <1>3, PTL DEF Spec

-----------------------------------------------------------------------------
(* Counting the occurrences of a text *)

(* The equation that defines the counting of Count, for a function f. *)
Counting(f, c, o) ==
    [i \in 1..(Len(c) + 2) |->
            IF i > Len(c) + 1 THEN 0
            ELSE IF i \in Occurrences(c, o) THEN 1 + f[i + Length(o)]
            ELSE f[i + 1]]

LEMMA Least ==
    ASSUME NEW B \in SUBSET Nat, B # {}
    PROVE  \E x \in B : \A y \in B : x <= y
<1>1. PICK x \in B : \A y \in B : <<y, x>> \notin OpToRel(<, Nat)
  BY NatLessThanWellFounded, WFMin
<1>2. ASSUME NEW y \in B, y < x PROVE FALSE
  <2>1. <<y, x>> \in OpToRel(<, Nat)
    BY <1>2 DEF OpToRel
  <2> QED  BY <1>1, <2>1
<1> QED  BY <1>2

(* An occurrence lies in the text. *)
LEMMA OccurrenceInside ==
    ASSUME NEW c \in Seq(Words), NEW o \in Seq(Words), NEW i \in Occurrences(c, o)
    PROVE  /\ i \in 1..(Len(c) + 1) /\ i + Len(o) <= Len(c) + 1
           /\ i + Length(o) <= Len(c) + 2 /\ Length(o) \in Nat \ {0}
           /\ SubSeq(c, i, i + Len(o) - 1) = o
<1>1. Len(c) \in Nat /\ Len(o) \in Nat /\ (o # <<>> => Len(o) # 0)
  BY LenProperties, EmptySeq
<1> QED  BY <1>1 DEF Occurrences, Length

(* The equation has a solution: the counting goes from the end of the text *)
(* to its beginning.                                                       *)
LEMMA CountingExists ==
    ASSUME NEW c \in Seq(Words), NEW o \in Seq(Words)
    PROVE  \E f : f = Counting(f, c, o)
<1> DEFINE D == 1..(Len(c) + 2)
           From(g, k) == \A i \in D : i >= Len(c) + 2 - k => g[i] = Counting(g, c, o)[i]
           B == {k \in 0..(Len(c) + 1) : ~\E g \in [D -> Nat] : From(g, k)}
<1>1. Len(c) \in Nat /\ Len(o) \in Nat
  BY LenProperties
<1>o. \A q \in Occurrences(c, o) : q \in Nat /\ Length(o) \in Nat \ {0}
                                  /\ q + Length(o) <= Len(c) + 2
  BY OccurrenceInside
<1>e. ASSUME NEW g, NEW i \in D
      PROVE  /\ i > Len(c) + 1 => Counting(g, c, o)[i] = 0
             /\ i <= Len(c) + 1 /\ i \in Occurrences(c, o)
                  => Counting(g, c, o)[i] = 1 + g[i + Length(o)]
             /\ i <= Len(c) + 1 /\ i \notin Occurrences(c, o)
                  => Counting(g, c, o)[i] = g[i + 1]
  BY <1>1 DEF Counting
<1>2. ASSUME NEW k \in B PROVE \E j \in B : j < k
  <2>1. CASE k = 0
    <3> DEFINE g == [i \in D |-> 0]
    <3>1. g \in [D -> Nat] /\ From(g, 0)
      BY <1>1 DEF Counting
    <3> QED  BY <1>2, <2>1, <3>1
  <2>2. CASE k # 0
    <3>1. k - 1 \in 0..(Len(c) + 1) /\ k \in 1..(Len(c) + 1)
      BY <1>1, <2>2
    <3> SUFFICES ASSUME k - 1 \notin B PROVE FALSE
      <4> HIDE DEF B
      <4> QED  BY <3>1
    <3>2. PICK g \in [D -> Nat] : From(g, k - 1)
      BY <3>1
    <3> DEFINE p == Len(c) + 2 - k
               n == IF p \in Occurrences(c, o) THEN 1 + g[p + Length(o)] ELSE g[p + 1]
               h == [g EXCEPT ![p] = n]
    <3>3. p \in 1..(Len(c) + 1) /\ p \in D /\ p + 1 \in D
      BY <1>1, <3>1
    <3>4. p \in Occurrences(c, o) => p + Length(o) \in D /\ p + Length(o) > p
      BY <1>1, <1>o, <3>3
    <3>5. n \in Nat
      <4>1. p + 1 \in D /\ g[p + 1] \in Nat
        BY <3>2, <3>3
      <4>2. p \in Occurrences(c, o) => g[p + Length(o)] \in Nat
        BY <3>2, <3>4
      <4> HIDE DEF p, D
      <4> QED  BY <4>1, <4>2
    <3>6. h \in [D -> Nat] /\ h[p] = n /\ \A i \in D : i # p => h[i] = g[i]
      BY <3>2, <3>3, <3>5
    <3> HIDE DEF n, h
    <3>7. ASSUME NEW i \in D, i >= p PROVE h[i] = Counting(h, c, o)[i]
      <4>1. CASE i = p
        <5>1. CASE p \in Occurrences(c, o)
          <6>1. n = 1 + g[p + Length(o)] /\ h[p + Length(o)] = g[p + Length(o)]
            BY <3>4, <3>6, <5>1 DEF n
          <6>2. p \in D /\ p <= Len(c) + 1
            BY <1>1, <3>3
          <6> HIDE DEF p, D
          <6> QED  BY <1>e, <3>6, <4>1, <5>1, <6>1, <6>2
        <5>2. CASE p \notin Occurrences(c, o)
          <6>1. n = g[p + 1] /\ h[p + 1] = g[p + 1]
            BY <1>1, <3>3, <3>6, <5>2 DEF n
          <6>2. p \in D /\ p <= Len(c) + 1
            BY <1>1, <3>3
          <6> HIDE DEF p, D
          <6> QED  BY <1>e, <3>6, <4>1, <5>2, <6>1, <6>2
        <5> QED  BY <5>1, <5>2
      <4>2. CASE i # p
        <5>1. g[i] = Counting(g, c, o)[i] /\ h[i] = g[i] /\ i > p
          BY <1>1, <3>1, <3>2, <3>6, <3>7, <4>2
        <5>2. CASE i > Len(c) + 1
          BY <1>e, <5>1, <5>2
        <5>3. CASE i <= Len(c) + 1 /\ i \in Occurrences(c, o)
          <6>1. i + Length(o) \in D /\ i + Length(o) > p
            BY <1>1, <1>o, <3>3, <5>1, <5>3
          <6>2. h[i + Length(o)] = g[i + Length(o)]
            BY <3>6, <6>1
          <6> QED  BY <1>e, <5>1, <5>3, <6>2
        <5>4. CASE i <= Len(c) + 1 /\ i \notin Occurrences(c, o)
          <6>1. i + 1 \in D /\ i + 1 > p
            BY <1>1, <3>3, <5>1, <5>4
          <6>2. h[i + 1] = g[i + 1]
            BY <3>6, <6>1
          <6> QED  BY <1>e, <5>1, <5>4, <6>2
        <5> QED  BY <1>1, <5>2, <5>3, <5>4
      <4> QED  BY <4>1, <4>2
    <3>8. From(h, k)
      BY <3>7
    <3> QED  BY <1>2, <3>6, <3>8
  <2> QED  BY <2>1, <2>2
<1>3. B = {}
  <2>1. B \in SUBSET Nat
    BY <1>1
  <2> HIDE DEF B
  <2> QED  BY <1>2, <2>1, Least
<1>4. PICK g \in [D -> Nat] : From(g, Len(c) + 1)
  <2>1. Len(c) + 1 \in 0..(Len(c) + 1) /\ Len(c) + 1 \notin B
    <3> HIDE DEF B
    <3> QED  BY <1>1, <1>3
  <2> QED  BY <2>1
<1>5. \A i \in D : g[i] = Counting(g, c, o)[i]
  BY <1>1, <1>4
<1>6. g = Counting(g, c, o)
  <2>1. /\ Counting(g, c, o) = [i \in D |-> Counting(g, c, o)[i]]
        /\ g = [i \in D |-> g[i]]
    BY DEF Counting
  <2> QED  BY <1>5, <2>1
<1> QED  BY <1>6

(* The count from position i on. *)
CountFrom(f, c, o, i) ==
    /\ f[i] \in Nat
    /\ f[i] >= 1 <=> \E k \in Occurrences(c, o) : i <= k
    /\ f[i] >= 2 <=> \E j, k \in Occurrences(c, o) : i <= j /\ j + Length(o) <= k

LEMMA CountingFrom ==
    ASSUME NEW c \in Seq(Words), NEW o \in Seq(Words), NEW f, f = Counting(f, c, o)
    PROVE  \A i \in 1..(Len(c) + 2) : CountFrom(f, c, o, i)
<1> DEFINE B == {k \in 0..(Len(c) + 1) : ~CountFrom(f, c, o, Len(c) + 2 - k)}
           O == Occurrences(c, o)
<1>1. Len(c) \in Nat /\ Len(o) \in Nat
  BY LenProperties
<1>o. \A k \in O : k \in 1..(Len(c) + 1) /\ k + Length(o) <= Len(c) + 2
                   /\ Length(o) \in Nat \ {0}
  BY OccurrenceInside
<1>f. \A i \in 1..(Len(c) + 2) :
         f[i] = IF i > Len(c) + 1 THEN 0
                ELSE IF i \in Occurrences(c, o) THEN 1 + f[i + Length(o)]
                ELSE f[i + 1]
  BY DEF Counting
<1> HIDE DEF O
<1>2. ASSUME NEW k \in B PROVE \E j \in B : j < k
  <2> DEFINE i == Len(c) + 2 - k
  <2>1. k \in 0..(Len(c) + 1) /\ ~CountFrom(f, c, o, i) /\ i \in 1..(Len(c) + 2)
    BY <1>1, <1>2
  <2>2. k # 0
    <3> SUFFICES ASSUME k = 0 PROVE FALSE
      OBVIOUS
    <3>1. f[i] = 0 /\ \A x \in O : ~(i <= x)
      BY <1>1, <1>f, <1>o, <2>1
    <3> QED  BY <2>1, <3>1 DEF CountFrom, O
  <2>3. i \in 1..(Len(c) + 1)
    BY <1>1, <2>1, <2>2
  <2>4. ASSUME NEW d \in 1..(Len(c) + 2), d > i, ~CountFrom(f, c, o, d)
        PROVE  \E j \in B : j < k
    <3>1. /\ Len(c) + 2 - d \in 0..(Len(c) + 1) /\ Len(c) + 2 - (Len(c) + 2 - d) = d
          /\ Len(c) + 2 - d < k
      BY <1>1, <2>1, <2>4
    <3> QED  BY <2>4, <3>1
  <2> SUFFICES ASSUME \A d \in 1..(Len(c) + 2) : d > i => CountFrom(f, c, o, d)
               PROVE  CountFrom(f, c, o, i)
    BY <2>1, <2>4
  <2> HIDE DEF i
  <2>5. CASE i \in O
    <3>1. f[i] = 1 + f[i + Length(o)] /\ CountFrom(f, c, o, i + Length(o))
      <4>1. f[i] = 1 + f[i + Length(o)]
        BY <1>1, <1>f, <2>3, <2>5 DEF O
      <4>2. i + Length(o) \in 1..(Len(c) + 2) /\ i + Length(o) > i
        BY <1>1, <1>o, <2>3, <2>5
      <4> QED  BY <4>1, <4>2
    <3>2. f[i] \in Nat /\ f[i] >= 1
      BY <3>1 DEF CountFrom
    <3>3. f[i] >= 2 <=> \E x \in O : i + Length(o) <= x
      BY <3>1 DEF CountFrom, O
    <3>4. (\E x \in O : i + Length(o) <= x)
             <=> \E x, y \in O : i <= x /\ x + Length(o) <= y
      BY <1>1, <1>o, <2>3, <2>5
    <3> QED  BY <2>3, <2>5, <3>2, <3>3, <3>4 DEF CountFrom, O
  <2>6. CASE i \notin O
    <3>1. f[i] = f[i + 1] /\ CountFrom(f, c, o, i + 1)
      <4>1. i + 1 \in 1..(Len(c) + 2) /\ i + 1 > i
        BY <1>1, <2>3
      <4> QED  BY <1>1, <1>f, <2>3, <2>6, <4>1 DEF O
    <3>2. \A x \in O : i <= x <=> i + 1 <= x
      BY <1>1, <1>o, <2>3, <2>6
    <3> QED  BY <3>1, <3>2 DEF CountFrom, O
  <2> QED  BY <2>5, <2>6
<1>3. B = {}
  <2>1. B \in SUBSET Nat
    BY <1>1
  <2> HIDE DEF B
  <2> QED  BY <1>2, <2>1, Least
<1>4. ASSUME NEW i \in 1..(Len(c) + 2) PROVE CountFrom(f, c, o, i)
  <2>1. Len(c) + 2 - i \in 0..(Len(c) + 1) /\ Len(c) + 2 - (Len(c) + 2 - i) = i
    BY <1>1
  <2> QED  BY <1>3, <2>1
<1> QED  BY <1>4

(* edit_file accepts a text exactly when it occurs, and nowhere else apart *)
(* from that place: strings.Count sees two occurrences only when they do   *)
(* not overlap.                                                            *)
LEMMA FoundMeansUnique ==
    ASSUME NEW c \in Seq(Words), NEW o \in Seq(Words)
    PROVE  Found(c, o) <=> Occurrences(c, o) # {} /\ ~Apart(c, o)
<1> DEFINE f == CHOOSE g : g = Counting(g, c, o)
<1>1. Len(c) \in Nat
  BY LenProperties
<1>2. Count(c, o) = f[1]
  BY DEF Count, Counting
<1>3. f = Counting(f, c, o)
  BY CountingExists
<1> HIDE DEF f
<1>4. CountFrom(f, c, o, 1)
  BY <1>1, <1>3, CountingFrom
<1>5. \A j, k \in Occurrences(c, o) :
         (1 <= j /\ j + Length(o) <= k) <=> (j < k /\ j + Length(o) <= k)
  BY <1>1, OccurrenceInside
<1> QED  BY <1>2, <1>4, <1>5 DEF Found, Apart, CountFrom

-----------------------------------------------------------------------------
(* Texts *)

LEMMA TextIsSeq == \A c : c \in Text <=> c \in Seq(Words) /\ Len(c) <= MaxLength
<1>1. ASSUME NEW c \in Text PROVE c \in Seq(Words) /\ Len(c) <= MaxLength
  <2>1. PICK m \in 0..MaxLength : c \in [1..m -> Words]
    BY <1>1 DEF Text, SeqOf
  <2>2. m \in Nat
    BY BoundsAssumption
  <2>3. c \in Seq(Words)
    BY <2>1, <2>2
  <2>4. Len(c) = m
    BY <2>1, <2>2, <2>3, LenProperties
  <2> QED  BY <2>2, <2>3, <2>4
<1>2. ASSUME NEW c \in Seq(Words), Len(c) <= MaxLength PROVE c \in Text
  <2>1. Len(c) \in 0..MaxLength /\ c \in [1..Len(c) -> Words]
    BY <1>2, LenProperties, BoundsAssumption
  <2> QED  BY <2>1 DEF Text, SeqOf
<1> QED  BY <1>1, <1>2

LEMMA TextsOfWords ==
    /\ <<>> \in Text /\ NoFile \notin Text
    /\ \A c \in Text : Prefixes(c) \subseteq Text
    /\ \A c, d \in Text : Len(c) + Len(d) <= MaxLength => c \o d \in Text
<1>1. <<>> \in Text
  <2>1. <<>> \in Seq(Words) /\ Len(<<>>) = 0 /\ 0 <= MaxLength
    BY EmptySeq, BoundsAssumption
  <2> QED  BY <2>1, TextIsSeq
<1>2. NoFile \notin Text
  BY TextIsSeq, NoFileAssumption
<1>3. ASSUME NEW c \in Text, NEW p \in Prefixes(c) PROVE p \in Text
  <2>1. c \in Seq(Words) /\ Len(c) <= MaxLength /\ Len(c) \in Nat
    BY TextIsSeq, LenProperties
  <2>2. PICK l \in 0..Len(c) : p = SubSeq(c, 1, l)
    BY DEF Prefixes
  <2>3. \A i \in 1..l : c[i] \in Words
    BY <2>1, ElementOfSeq
  <2>4. p \in Seq(Words) /\ Len(p) = IF 1 <= l THEN l - 1 + 1 ELSE 0
    BY <2>1, <2>2, <2>3, SubSeqProperties
  <2> QED  BY <2>1, <2>4, TextIsSeq, BoundsAssumption
<1>4. ASSUME NEW c \in Text, NEW d \in Text, Len(c) + Len(d) <= MaxLength
      PROVE  c \o d \in Text
  BY <1>4, TextIsSeq, ConcatProperties
<1> QED  BY <1>1, <1>2, <1>3, <1>4

(* What the old text is replaced by stands between what was before it and  *)
(* what was behind it.                                                     *)
LEMMA ReplaceSplits ==
    ASSUME NEW c \in Seq(Words), NEW o \in Seq(Words), NEW n \in Seq(Words),
           Occurrences(c, o) # {}
    PROVE  /\ Replace(c, o, n) \in Seq(Words)
           /\ \E p \in Prefixes(c), s \in Suffixes(c) :
                 c = p \o o \o s /\ Replace(c, o, n) = p \o n \o s
<1> DEFINE i == CHOOSE i \in Occurrences(c, o) : \A k \in Occurrences(c, o) : i <= k
           p == SubSeq(c, 1, i - 1)
           s == SubSeq(c, i + Len(o), Len(c))
<1>1. Len(c) \in Nat /\ Len(o) \in Nat
  BY LenProperties
<1>2. i \in Occurrences(c, o)
  <2>1. Occurrences(c, o) \subseteq Nat
    BY OccurrenceInside
  <2> QED  BY <2>1, Least
<1>3. Replace(c, o, n) = p \o n \o s
  BY DEF Replace
<1> HIDE DEF i
<1>4. /\ i \in 1..(Len(c) + 1) /\ i + Len(o) <= Len(c) + 1
      /\ SubSeq(c, i, i + Len(o) - 1) = o
  BY <1>2, OccurrenceInside
<1>5. \A k \in 1..Len(c) : c[k] \in Words
  BY ElementOfSeq
<1>6. p \in Seq(Words) /\ s \in Seq(Words)
  BY <1>1, <1>4, <1>5, SubSeqProperties
<1> DEFINE e == i + Len(o) - 1
<1>7. /\ i - 1 \in 0..Len(c) /\ e \in (i - 1)..Len(c) /\ e \in Int
      /\ (i - 1) + 1 = i /\ e + 1 = i + Len(o)
  BY <1>1, <1>4
<1>8. p \in Prefixes(c) /\ s \in Suffixes(c)
  <2>1. p \in Prefixes(c)
    BY <1>7 DEF Prefixes
  <2>2. CASE i + Len(o) <= Len(c)
    <3>1. i + Len(o) \in 1..Len(c)
      BY <1>1, <1>4, <2>2
    <3> QED  BY <2>1, <3>1 DEF Suffixes
  <2>3. CASE i + Len(o) = Len(c) + 1
    <3>1. i + Len(o) \in Int /\ Len(c) \in Int /\ Len(c) < i + Len(o)
      BY <1>1, <2>3
    <3>2. s = <<>>
      BY <3>1, SubSeqEmpty
    <3> QED  BY <2>1, <3>2 DEF Suffixes
  <2> HIDE DEF p, s, e
  <2> QED  BY <1>1, <1>4, <2>2, <2>3
<1>10. c = p \o o \o s
  <2>1. ASSUME NEW k \in 0..Len(c), NEW l \in k..Len(c)
        PROVE  SubSeq(c, 1, k) \o SubSeq(c, k + 1, l) = SubSeq(c, 1, l)
    <3>1. 1 \in 1..(Len(c) + 1) /\ k \in (1 - 1)..Len(c)
      BY <1>1
    <3> QED  BY <3>1, ConcatAdjacentSubSeq
  <2> HIDE DEF e
  <2>2. SubSeq(c, 1, i - 1) \o SubSeq(c, (i - 1) + 1, e) = SubSeq(c, 1, e)
    BY <1>7, <2>1
  <2>3. SubSeq(c, 1, e) \o SubSeq(c, e + 1, Len(c)) = SubSeq(c, 1, Len(c))
    <3>1. e \in 0..Len(c) /\ Len(c) \in e..Len(c)
      BY <1>1, <1>7
    <3> QED  BY <2>1, <3>1
  <2>4. SubSeq(c, 1, Len(c)) = c
    BY SubSeqFull
  <2>5. o = SubSeq(c, i, e)
    BY <1>4 DEF e
  <2> QED  BY <1>7, <2>2, <2>3, <2>4, <2>5
<1>9. p \o n \o s \in Seq(Words)
  BY <1>6, ConcatProperties
<1> QED  BY <1>3, <1>8, <1>9, <1>10

-----------------------------------------------------------------------------
(* Type correctness *)

(* What an edit under way is about to write is a text, and what it         *)
(* replaces was unique in what it read.                                    *)
EditReady ==
    tool.pc = "edit" =>
        /\ Replace(tool.read, tool.old, tool.new) \in Text
        /\ Found(tool.read, tool.old)

FileInv == FileTypeOK /\ EditReady

LEMMA FileInvInit == FileInit => FileInv
BY TextsOfWords, BoundsAssumption DEF FileInit, FileInv, FileTypeOK, EditReady, NoEdit

LEMMA WrittenIsText ==
    ASSUME file \in Text \cup {NoFile}, NEW c \in Text, NEW ok \in BOOLEAN, WriteFile(c, ok)
    PROVE  file' \in Text \cup {NoFile}
BY TextsOfWords DEF WriteFile

LEMMA FileInvStep ==
    ASSUME FileInv, (\E c \in Text : Write(c) \/ AppendTo(c) \/ SomebodyWrites(c))
                    \/ (\E o, n \in Text : EditRead(o, n)) \/ EditWrite
    PROVE  FileInv'
<1> USE DEF FileInv, FileTypeOK
<1>1. Content \in Text
  BY TextsOfWords DEF Content
<1>2. ASSUME NEW c \in Text, Write(c) PROVE FileInv'
  <2>1. PICK ok \in BOOLEAN : WriteFile(c, ok) /\ report' = IF ok THEN "ok" ELSE "error"
    BY <1>2 DEF Write
  <2>2. file' \in Text \cup {NoFile}
    BY <2>1, WrittenIsText
  <2> QED  BY <1>2, <2>1, <2>2 DEF Write, EditReady
<1>3. ASSUME NEW c \in Text, AppendTo(c) PROVE FileInv'
  <2>1. file' \in Text \cup {NoFile}
    <3>1. CASE file' = file \/ file' = Content \o c
      BY <1>1, <1>3, <3>1, TextsOfWords DEF AppendTo
    <3>2. ASSUME NEW p \in Prefixes(c), file' = Content \o p PROVE file' \in Text
      <4>1. p \in Text
        BY TextsOfWords
      <4>2. Len(p) <= Len(c) /\ Len(p) \in Nat /\ Len(c) \in Nat /\ Len(Content) \in Nat
        <5>1. c \in Seq(Words) /\ Len(c) \in Nat
          BY TextIsSeq, LenProperties
        <5>2. PICK l \in 0..Len(c) : p = SubSeq(c, 1, l)
          BY DEF Prefixes
        <5>3. \A k \in 1..l : c[k] \in Words
          BY <5>1, ElementOfSeq
        <5>4. Len(p) = IF 1 <= l THEN l - 1 + 1 ELSE 0
          BY <5>1, <5>2, <5>3, SubSeqProperties
        <5> QED  BY <1>1, <5>1, <5>2, <5>4, TextIsSeq, LenProperties
      <4>3. Len(Content) + Len(p) <= MaxLength
        BY <1>3, <4>2, BoundsAssumption DEF AppendTo
      <4> QED  BY <1>1, <3>2, <4>1, <4>3, TextsOfWords
    <3> QED  BY <1>3, <3>1, <3>2 DEF AppendTo
  <2>2. report' \in {"ok", "error"} /\ UNCHANGED <<tool, others>>
    BY <1>3 DEF AppendTo
  <2> QED  BY <2>1, <2>2 DEF EditReady
<1>4. ASSUME NEW c \in Text, SomebodyWrites(c) PROVE FileInv'
  BY <1>4, BoundsAssumption DEF SomebodyWrites, EditReady
<1>5. ASSUME NEW o \in Text, NEW n \in Text, EditRead(o, n) PROVE FileInv'
  <2>1. CASE /\ file # NoFile /\ Found(file, o) /\ Len(Replace(file, o, n)) <= MaxLength
             /\ tool' = [pc |-> "edit", read |-> file, old |-> o, new |-> n]
             /\ UNCHANGED <<file, report, others>>
    <3>1. /\ tool' = [pc |-> "edit", read |-> file, old |-> o, new |-> n]
          /\ Len(Replace(file, o, n)) <= MaxLength
          /\ UNCHANGED <<file, report, others>>
      BY <2>1
    <3>2. file \in Text
      BY <2>1
    <3>3. Replace(file, o, n) \in Seq(Words)
      <4>1. file \in Seq(Words) /\ o \in Seq(Words) /\ n \in Seq(Words)
        BY <3>2, TextIsSeq
      <4>2. Occurrences(file, o) # {}
        BY <2>1 DEF Found
      <4> QED  BY <4>1, <4>2, ReplaceSplits
    <3>4. Replace(file, o, n) \in Text
      BY <3>1, <3>3, TextIsSeq
    <3> QED  BY <2>1, <3>1, <3>2, <3>4 DEF EditReady
  <2>2. CASE report' = "error" /\ UNCHANGED <<file, tool, others>>
    BY <2>2 DEF EditReady
  <2> QED  BY <1>5, <2>1, <2>2 DEF EditRead
<1>6. CASE EditWrite
  <2>1. PICK ok \in BOOLEAN :
          /\ WriteFile(Replace(tool.read, tool.old, tool.new), ok)
          /\ report' = IF ok THEN "ok" ELSE "error"
    BY <1>6 DEF EditWrite
  <2>2. Replace(tool.read, tool.old, tool.new) \in Text
    BY <1>6 DEF EditWrite, EditReady
  <2>3. file' \in Text \cup {NoFile}
    BY <2>1, <2>2, WrittenIsText
  <2>4. tool' = NoEdit /\ others' = others
    BY <1>6 DEF EditWrite
  <2> QED  BY <2>1, <2>3, <2>4, TextsOfWords DEF NoEdit, EditReady
<1> QED  BY <1>2, <1>3, <1>4, <1>5, <1>6

-----------------------------------------------------------------------------
(* The types of the consolidation *)

JobTypes ==
    /\ job.pc \in {"idle", "turn", "save", "ask", "history", "memory"}
    /\ job.to \in 0..MaxMessages /\ job.lines \subseteq Numbers
    /\ job.current \in Text /\ job.update \in Text

CountTypes ==
    /\ failures \in 0..MaxFailures /\ crashes \in 0..MaxCrashes
    /\ broken \in BOOLEAN

TypeInv == FileInv /\ AccountInv /\ JobTypes /\ CountTypes

LEMMA TypeInvInit == Init => TypeInv
<1> SUFFICES ASSUME Init PROVE JobTypes /\ CountTypes
  BY AccountInit, FileInvInit DEF Init, TypeInv
<1>1. /\ NoJob.pc = "idle" /\ NoJob.to = 0 /\ NoJob.lines = {}
      /\ NoJob.current = <<>> /\ NoJob.update = <<>>
  BY DEF NoJob
<1>2. JobTypes
  BY <1>1, TextsOfWords DEF Init, JobTypes
<1>3. broken \in BOOLEAN
  BY DEF Init
<1>4. CountTypes
  BY <1>3 DEF Init, CountTypes
<1> QED  BY <1>2, <1>4

(* Writes of MEMORY.md by the consolidation, and of whatever a crash       *)
(* breaks off, leave a text.                                               *)
LEMMA FileInvMemory ==
    ASSUME TypeInv, WriteMemory \/ WriteMemoryFails \/ Crash
    PROVE  FileInv'
<1> USE DEF TypeInv, FileInv, FileTypeOK
<1>1. ASSUME NEW ok \in BOOLEAN, WriteFile(job.update, ok) PROVE file' \in Text \cup {NoFile}
  BY <1>1, WrittenIsText DEF JobTypes
<1>2. CASE WriteMemory
  BY <1>1, <1>2 DEF WriteMemory, EditReady
<1>3. CASE WriteMemoryFails
  BY <1>1, <1>3 DEF WriteMemoryFails, EditReady
<1>4. CASE Crash
  <2>1. file' \in Text \cup {NoFile}
    <3>1. CASE file' = file
      BY <3>1
    <3>2. CASE tool.pc = "edit" /\ file' \in Prefixes(Replace(tool.read, tool.old, tool.new))
      BY <3>2, TextsOfWords DEF EditReady
    <3>3. CASE file' \in Prefixes(job.update)
      BY <3>3, TextsOfWords DEF JobTypes
    <3> QED  BY <1>4, <3>1, <3>2, <3>3 DEF Crash
  <2>2. tool' = NoEdit /\ report' = "none" /\ others' = others
    BY <1>4 DEF Crash
  <2> QED  BY <2>1, <2>2, TextsOfWords DEF NoEdit, EditReady
<1> QED  BY <1>2, <1>3, <1>4

LEMMA TypeInvNext == TypeInv /\ [Next]_vars => TypeInv'
<1> SUFFICES ASSUME TypeInv, [Next]_vars PROVE FileInv' /\ JobTypes' /\ CountTypes'
  BY AccountNext DEF TypeInv
<1>0. /\ FileInv /\ JobOK /\ said \in 0..MaxMessages /\ session \subseteq 1..said
      /\ job = [pc |-> job.pc, to |-> job.to, lines |-> job.lines, current |-> job.current,
                update |-> job.update]
  BY DEF TypeInv, AccountInv, MemoryTypes
<1>f. ASSUME UNCHANGED fileVars PROVE FileInv'
  BY <1>0, <1>f DEF FileInv, FileTypeOK, EditReady, fileVars
<1>n. ASSUME job' = NoJob PROVE JobTypes'
  BY <1>n, TextsOfWords DEF NoJob, JobTypes
<1>u. ASSUME UNCHANGED memoryVars PROVE JobTypes' /\ CountTypes'
  BY <1>u DEF TypeInv, JobTypes, CountTypes, memoryVars
<1> USE DEF TypeInv
<1>1. CASE Turn \/ NewCommand
  <2>1. /\ UNCHANGED <<fileVars, failures, crashes, broken>>
        /\ job' = [NoJob EXCEPT !.pc = "turn"] \/ job' = [NoJob EXCEPT !.pc = "save"]
    BY <1>1 DEF Turn, NewCommand
  <2>2. /\ job'.pc \in {"turn", "save"} /\ job'.to = 0 /\ job'.lines = {}
        /\ job'.current = <<>> /\ job'.update = <<>>
    BY <2>1 DEF NoJob
  <2> QED  BY <1>f, <2>1, <2>2, TextsOfWords DEF JobTypes, CountTypes
<1>11. CASE Save \/ SaveFails
  <2>1. job' = NoJob /\ UNCHANGED <<fileVars, failures, crashes, broken>>
    BY <1>11 DEF Save, SaveFails, SaveResult
  <2> QED  BY <1>f, <1>n, <2>1 DEF CountTypes
<1>2. CASE ToolStep
  BY <1>2, <1>u, FileInvStep DEF ToolStep
<1>3. CASE Somebody
  BY <1>3, <1>u, FileInvStep DEF Somebody
<1>4. CASE UNCHANGED vars
  BY <1>4, <1>f, <1>u DEF vars
<1>5. CASE BeginConsolidation
  <2>1. UNCHANGED <<fileVars, failures, crashes, broken>>
    BY <1>5 DEF BeginConsolidation
  <2>2. PICK to \in session, c \in {Content, <<>>} :
          job' = [pc |-> "ask", to |-> to, lines |-> {m \in session : m <= to} \ Blank,
                  current |-> c, update |-> <<>>]
    BY <1>5 DEF BeginConsolidation
  <2>3. c \in Text /\ <<>> \in Text
    BY <1>0, TextsOfWords DEF Content, FileInv, FileTypeOK
  <2>4. JobTypes'
    BY <1>0, <2>2, <2>3 DEF JobTypes, Numbers
  <2> QED  BY <1>f, <2>1, <2>4 DEF CountTypes
<1>6. CASE CompleteFails \/ AppendHistoryFails \/ WriteMemoryFails
  <2>1. /\ failures < MaxFailures /\ failures' = failures + 1 /\ job' = NoJob
        /\ crashes' = crashes
    BY <1>6 DEF CompleteFails, AppendHistoryFails, WriteMemoryFails, ConsolidationFails
  <2>b. broken' = broken \/ broken' = TRUE
    BY <1>6 DEF CompleteFails, AppendHistoryFails, WriteMemoryFails
  <2>c. broken' \in BOOLEAN
    BY <2>b DEF CountTypes
  <2>2. CountTypes'
    BY <2>1, <2>c DEF CountTypes
  <2>3. FileInv'
    BY <1>6, <1>f, FileInvMemory DEF CompleteFails, AppendHistoryFails
  <2> QED  BY <1>n, <2>1, <2>2, <2>3
<1>7. ASSUME NEW entry \in BOOLEAN, NEW update \in Text, Complete(entry, update)
      PROVE  FileInv' /\ JobTypes' /\ CountTypes'
  <2>1. /\ job' = [job EXCEPT !.pc = IF entry THEN "history" ELSE "memory", !.update = update]
        /\ UNCHANGED <<fileVars, failures, crashes, broken>>
    BY <1>7 DEF Complete
  <2>2. /\ job'.pc \in {"history", "memory"} /\ job'.to = job.to /\ job'.lines = job.lines
        /\ job'.current = job.current /\ job'.update = update
    BY <1>0, <2>1
  <2>3. JobTypes' /\ CountTypes'
    BY <2>1, <2>2 DEF JobTypes, CountTypes
  <2> QED  BY <1>f, <2>1, <2>3
<1>8. CASE AppendHistory
  <2>1. /\ job' = [job EXCEPT !.pc = "memory"]
        /\ UNCHANGED <<fileVars, failures, crashes, broken>>
    BY <1>8 DEF AppendHistory
  <2>2. /\ job'.pc = "memory" /\ job'.to = job.to /\ job'.lines = job.lines
        /\ job'.current = job.current /\ job'.update = job.update
    BY <1>0, <2>1
  <2> QED  BY <1>f, <2>1, <2>2 DEF JobTypes, CountTypes
<1>9. CASE WriteMemory
  <2>1. job' = NoJob /\ UNCHANGED <<failures, crashes, broken>>
    BY <1>9 DEF WriteMemory
  <2> QED  BY <1>9, <1>n, <2>1, FileInvMemory DEF CountTypes
<1>10. CASE Crash
  <2>1. crashes < MaxCrashes /\ crashes' = crashes + 1 /\ job' = NoJob /\ failures' = failures
    BY <1>10 DEF Crash
  <2>b. broken' = broken \/ broken' = TRUE
    BY <1>10 DEF Crash
  <2>c. broken' \in BOOLEAN
    BY <2>b DEF CountTypes
  <2>2. CountTypes'
    BY <2>1, <2>c DEF CountTypes
  <2> QED  BY <1>10, <1>n, <2>1, <2>2, FileInvMemory
<1> QED
  BY <1>1, <1>2, <1>3, <1>4, <1>5, <1>6, <1>7, <1>8, <1>9, <1>10, <1>11
  DEF Next

(* The files stay within their bounds, the session and its file hold only  *)
(* messages that were said, and every step of a consolidation has the data *)
(* it works on.                                                            *)
THEOREM MemoryTypeCorrect == Spec => []TypeOK
<1>1. TypeInv => TypeOK
  <2> SUFFICES ASSUME TypeInv PROVE TypeOK
    OBVIOUS
  <2>1. /\ said \in 0..MaxMessages /\ session \subseteq 1..said /\ saved \subseteq 1..said
        /\ untold \subseteq 1..said /\ dropped \subseteq 1..said /\ lost \subseteq 1..said
        /\ history \in Seq(SUBSET Numbers)
        /\ job = [pc |-> job.pc, to |-> job.to, lines |-> job.lines,
                  current |-> job.current, update |-> job.update]
    BY DEF TypeInv, AccountInv, MemoryTypes
  <2> QED  BY <2>1 DEF TypeInv, FileInv, TypeOK, JobTypes, CountTypes, Numbers
<1> QED  BY <1>1, TypeInvInit, TypeInvNext, PTL DEF Spec

(* An edit that reports success replaced the one place in what it read,    *)
(* whatever the texts: it goes back to what the counting of the            *)
(* occurrences and the replacement of the first one compute.               *)
THEOREM EditIsExact == Spec => EditExact
<1> DEFINE Exact ==
        tool.pc = "edit" /\ tool'.pc = "idle" /\ report' = "ok" =>
            /\ \E p \in Prefixes(tool.read), s \in Suffixes(tool.read) :
                  tool.read = p \o tool.old \o s /\ file' = p \o tool.new \o s
            /\ ~Apart(tool.read, tool.old)
<1>1. TypeInv /\ [Next]_vars => [Exact]_fileVars
  <2> SUFFICES ASSUME TypeInv, Next, tool.pc = "edit", tool'.pc = "idle", report' = "ok"
               PROVE  /\ \E p \in Prefixes(tool.read), s \in Suffixes(tool.read) :
                            tool.read = p \o tool.old \o s /\ file' = p \o tool.new \o s
                      /\ ~Apart(tool.read, tool.old)
    BY DEF vars
  <2>1. EditWrite
    <3>1. ~Crash
      BY DEF Crash
    <3>2. tool' # tool
      OBVIOUS
    <3>3. ~ToolStep => FALSE
      BY <3>1, <3>2 DEF Next, Turn, NewCommand, Save, SaveFails, SaveResult, Somebody,
         SomebodyWrites, BeginConsolidation, CompleteFails, Complete, AppendHistory, AppendHistoryFails, WriteMemory,
         WriteMemoryFails, fileVars
    <3> QED  BY <3>3 DEF ToolStep, Write, AppendTo, EditRead
  <2>2. PICK ok \in BOOLEAN :
          /\ WriteFile(Replace(tool.read, tool.old, tool.new), ok)
          /\ report' = IF ok THEN "ok" ELSE "error"
    BY <2>1 DEF EditWrite
  <2>3. file' = Replace(tool.read, tool.old, tool.new)
    BY <2>2 DEF WriteFile
  <2>4. /\ tool.read \in Seq(Words) /\ tool.old \in Seq(Words) /\ tool.new \in Seq(Words)
        /\ Found(tool.read, tool.old)
    BY TextIsSeq DEF TypeInv, FileInv, FileTypeOK, EditReady
  <2>5. Occurrences(tool.read, tool.old) # {} /\ ~Apart(tool.read, tool.old)
    BY <2>4, FoundMeansUnique
  <2>6. PICK p \in Prefixes(tool.read), s \in Suffixes(tool.read) :
          /\ tool.read = p \o tool.old \o s
          /\ Replace(tool.read, tool.old, tool.new) = p \o tool.new \o s
    BY <2>4, <2>5, ReplaceSplits
  <2> QED  BY <2>3, <2>5, <2>6
<1> QED  BY <1>1, TypeInvInit, TypeInvNext, PTL DEF Spec, EditExact
=============================================================================
