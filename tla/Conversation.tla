---------------------------- MODULE Conversation ----------------------------
(***************************************************************************)
(* One turn of the agent after the other (core/agent/agent.go) and the     *)
(* sessions they are kept in (service/session/session.go): the history     *)
(* window sent to the model, the loop of tool calls, the command /new, and *)
(* the file of each session, through crashes, failed writes and failed     *)
(* reads.                                                                  *)
(***************************************************************************)
EXTENDS Naturals, FiniteSets, SequencesExt

CONSTANTS
    Chats,          \* the chats, each with a session of its own
    Window,         \* messages of history in a request
    MaxIteration,   \* requests in a turn
    MaxCalls,       \* bound: tool calls in an answer of the model
    MaxTurns,       \* bound: messages and commands of users
    MaxCrashes,     \* bound: times the process dies
    StopWithCalls,  \* an answer with tool calls may say it is finished
    TornSaves,      \* the process may die inside Save
    SaveFaults,     \* what may fail in Save: "create", "write"
    LoadFaults,     \* what may fail in GetOrCreate: "open", "read"
    NoChat,         \* no chat
    NotLoaded,      \* the session is not in memory
    NoFile          \* the session has no file

ASSUME SizesAssumption ==
    /\ Window \in Nat \ {0} /\ MaxIteration \in Nat \ {0} /\ MaxCalls \in Nat
    /\ MaxTurns \in Nat /\ MaxCrashes \in Nat
ASSUME FlagsAssumption ==
    /\ {StopWithCalls, TornSaves} \subseteq BOOLEAN
    /\ SaveFaults \subseteq {"create", "write"} /\ LoadFaults \subseteq {"open", "read"}

(* A message of a turn: n is the number of tool calls of an assistant      *)
(* message, the call a tool message answers.                               *)
Message == [role : {"user", "assistant", "tool"}, turn : 1..MaxTurns, n : 0..MaxCalls]
ASSUME MarksAssumption ==
    NoChat \notin Chats /\ {NotLoaded, NoFile} \cap Seq(Message) = {}
User(t) == [role |-> "user", turn |-> t, n |-> 0]
Assistant(t, n) == [role |-> "assistant", turn |-> t, n |-> n]
ToolResult(t, k) == [role |-> "tool", turn |-> t, n |-> k]

VARIABLES
    sessions,   \* the messages of each session in memory
    files,      \* the messages in each session's file
    pc,         \* where the agent is
    chat,       \* the chat it works for
    messages,   \* the request, without the system prompt
    iteration,  \* requests made in this turn
    calls,      \* tool calls of the last answer, and those executed
    turns,      \* messages and commands so far
    crashes,    \* times the process died
    fresh,      \* history: the last turn a confirmed /new of the chat ended
    failed,     \* history: the chats whose last Save returned an error
    torn,       \* history: the chats whose file may lack an end
    damaged     \* history: the chats whose session may lack an end

historyVars == <<fresh, failed, torn, damaged>>
vars == <<sessions, files, pc, chat, messages, iteration, calls, turns, crashes,
          fresh, failed, torn, damaged>>

NoCalls == [all |-> 0, done |-> 0]

Init ==
    /\ sessions = [c \in Chats |-> NotLoaded]
    /\ files = [c \in Chats |-> NoFile]
    /\ pc = "idle" /\ chat = NoChat
    /\ messages = <<>> /\ iteration = 0 /\ calls = NoCalls
    /\ turns = 0 /\ crashes = 0
    /\ fresh = [c \in Chats |-> 0] /\ failed = {} /\ torn = {} /\ damaged = {}

-----------------------------------------------------------------------------
(* Sessions *)

Load(f) == IF f = NoFile THEN <<>> ELSE f

Beginnings(s) == {SubSeq(s, 1, i) : i \in 0..Len(s)}

(* A chat's session, in memory or as it would be read without a fault. *)
Session(c) == IF sessions[c] = NotLoaded THEN Load(files[c]) ELSE sessions[c]

(* A file that cannot be opened, whatever the reason, is taken for one     *)
(* that is not there, and the scanner ends without an error anybody sees   *)
(* when a read fails or a line is longer than 64 KB.                       *)
Misread(c) ==
    {s \in Beginnings(Load(files[c])) :
        /\ sessions[c] = NotLoaded
        /\ "read" \in LoadFaults \/ ("open" \in LoadFaults /\ s = <<>>)}

GetOrCreate(c) == {Session(c)} \cup Misread(c)

TrimHistoryStart(s) ==
    LET i == SelectInSeq(s, LAMBDA m : m.role = "user")
    IN  IF i = 0 THEN s ELSE SubSeq(s, i, Len(s))

(* Mutant: the oldest messages of the window are not trimmed. *)
GetHistoryUntrimmed(s) ==
    IF Len(s) <= Window THEN s ELSE SubSeq(s, Len(s) - Window + 1, Len(s))

GetHistory(s) ==
    TrimHistoryStart(IF Len(s) <= Window THEN s
                     ELSE SubSeq(s, Len(s) - Window + 1, Len(s)))

AddMessage(m) == sessions' = [sessions EXCEPT ![chat] = Append(@, m)]

-----------------------------------------------------------------------------
(* A turn *)

(* Mutant: the session is read from its file although it is in memory. *)
BeginTurnReloads(c) ==
    /\ pc = "idle" /\ turns < MaxTurns
    /\ turns' = turns + 1
    /\ pc' = "ask" /\ chat' = c /\ iteration' = 0
    /\ messages' = Append(GetHistory(Load(files[c])), User(turns'))
    /\ sessions' = [sessions EXCEPT ![c] = Append(Load(files[c]), User(turns'))]
    /\ UNCHANGED <<files, calls, crashes, historyVars>>

BeginTurn(c) ==
    /\ pc = "idle" /\ turns < MaxTurns
    /\ turns' = turns + 1
    /\ pc' = "ask" /\ chat' = c /\ iteration' = 0
    /\ \E s \in GetOrCreate(c) :
          /\ messages' = Append(GetHistory(s), User(turns'))
          /\ sessions' = [sessions EXCEPT ![c] = Append(s, User(turns'))]
          /\ damaged' = IF s \in {Session(c), <<>>} THEN damaged ELSE damaged \cup {c}
    /\ UNCHANGED <<files, calls, crashes, fresh, failed, torn>>

(* The model answers with n tool calls. *)
Complete(n, stop) ==
    /\ pc = "ask"
    /\ AddMessage(Assistant(turns, n))
    /\ messages' = Append(messages, Assistant(turns, n))
    /\ IF stop \/ n = 0
       THEN pc' = "reply" /\ UNCHANGED calls
       ELSE pc' = "tools" /\ calls' = [all |-> n, done |-> 0]
    /\ UNCHANGED <<files, chat, iteration, turns, crashes, historyVars>>

(* The call of the model fails or times out. *)
CompleteFails ==
    /\ pc = "ask"
    /\ pc' = "reply"
    /\ UNCHANGED <<sessions, files, chat, messages, iteration, calls, turns, crashes,
                   historyVars>>

(* Mutant: one request too many. *)
ExecuteToolCallOnceMore ==
    /\ pc = "tools"
    /\ AddMessage(ToolResult(turns, calls.done + 1))
    /\ messages' = Append(messages, ToolResult(turns, calls.done + 1))
    /\ IF calls.done + 1 < calls.all
       THEN calls' = [calls EXCEPT !.done = @ + 1] /\ UNCHANGED <<pc, iteration>>
       ELSE /\ calls' = NoCalls
            /\ iteration' = iteration + 1
            /\ pc' = IF iteration' <= MaxIteration THEN "ask" ELSE "reply"
    /\ UNCHANGED <<files, chat, turns, crashes, historyVars>>

(* Mutant: requests are not counted. *)
ExecuteToolCallUncounted ==
    /\ pc = "tools"
    /\ AddMessage(ToolResult(turns, calls.done + 1))
    /\ messages' = Append(messages, ToolResult(turns, calls.done + 1))
    /\ IF calls.done + 1 < calls.all
       THEN calls' = [calls EXCEPT !.done = @ + 1] /\ UNCHANGED pc
       ELSE calls' = NoCalls /\ pc' = "ask"
    /\ UNCHANGED <<files, chat, iteration, turns, crashes, historyVars>>

(* The next tool call is executed; an unknown tool, arguments that do not  *)
(* parse and a tool that fails have a result too.                          *)
ExecuteToolCall ==
    /\ pc = "tools"
    /\ AddMessage(ToolResult(turns, calls.done + 1))
    /\ messages' = Append(messages, ToolResult(turns, calls.done + 1))
    /\ IF calls.done + 1 < calls.all
       THEN calls' = [calls EXCEPT !.done = @ + 1] /\ UNCHANGED <<pc, iteration>>
       ELSE /\ calls' = NoCalls
            /\ iteration' = iteration + 1
            /\ pc' = IF iteration' < MaxIteration THEN "ask" ELSE "reply"
    /\ UNCHANGED <<files, chat, turns, crashes, historyVars>>

(* Mutant: only an answer of the model is published. *)
ReplyToAnswer ==
    /\ pc = "reply" /\ messages[Len(messages)].role = "assistant"
    /\ pc' = "save"
    /\ messages' = <<>> /\ iteration' = 0
    /\ UNCHANGED <<sessions, files, chat, calls, turns, crashes, historyVars>>

(* PublishOutbound of the answer; the session is saved after it. *)
Reply ==
    /\ pc = "reply"
    /\ pc' = "save"
    /\ messages' = <<>> /\ iteration' = 0
    /\ UNCHANGED <<sessions, files, chat, calls, turns, crashes, historyVars>>

(* Mutant: /new leaves the session's file alone. *)
NewCommandUnsaved(c) ==
    /\ pc = "idle" /\ turns < MaxTurns
    /\ turns' = turns + 1
    /\ pc' = "confirm" /\ chat' = c
    /\ sessions' = [sessions EXCEPT ![c] = <<>>]
    /\ UNCHANGED <<files, messages, iteration, calls, crashes, historyVars>>

(* /new: the session, however it was loaded, is cleared and saved, then    *)
(* the answer is published.                                                *)
NewCommand(c) ==
    /\ pc = "idle" /\ turns < MaxTurns
    /\ turns' = turns + 1
    /\ pc' = "clear" /\ chat' = c
    /\ sessions' = [sessions EXCEPT ![c] = <<>>]
    /\ damaged' = damaged \ {c}
    /\ UNCHANGED <<files, messages, iteration, calls, crashes, fresh, failed, torn>>

Confirm ==
    /\ pc = "confirm"
    /\ pc' = "idle" /\ chat' = NoChat
    /\ fresh' = [fresh EXCEPT ![chat] = turns]
    /\ UNCHANGED <<sessions, files, messages, iteration, calls, turns, crashes, failed,
                   torn, damaged>>

(* Save writes the file anew.  Its error is logged after a turn, ignored   *)
(* by /new: the agent goes on.                                             *)
SaveResult(f) ==
    /\ pc \in {"save", "clear"}
    /\ files' = [files EXCEPT ![chat] = f]
    /\ pc' = IF pc = "clear" THEN "confirm" ELSE "idle"
    /\ chat' = IF pc = "clear" THEN chat ELSE NoChat
    /\ UNCHANGED <<sessions, messages, iteration, calls, turns, crashes, fresh, damaged>>

(* A whole session goes to the file, which is as good as the session was.  *)
SavedTorn == IF chat \in damaged THEN torn \cup {chat} ELSE torn \ {chat}

(* Mutant: only the history window is saved. *)
SaveWindow ==
    /\ chat # NoChat
    /\ SaveResult(GetHistory(sessions[chat]))
    /\ failed' = failed \ {chat} /\ torn' = SavedTorn

Save ==
    /\ chat # NoChat
    /\ SaveResult(sessions[chat])
    /\ failed' = failed \ {chat} /\ torn' = SavedTorn

(* The file cannot be created, or a line cannot be written. *)
SaveFails ==
    /\ chat # NoChat
    /\ \/ "create" \in SaveFaults /\ SaveResult(files[chat]) /\ UNCHANGED torn
       \/ /\ "write" \in SaveFaults /\ pc \in {"save", "clear"}
          /\ \E f \in Beginnings(sessions[chat]) : SaveResult(f)
          /\ torn' = torn \cup {chat}
    /\ failed' = failed \cup {chat}

-----------------------------------------------------------------------------
(* The process *)

(* What Save may have left in the file when the process dies inside it. *)
Torn ==
    IF TornSaves /\ pc \in {"save", "clear"} THEN Beginnings(sessions[chat]) ELSE {}

(* A /new that could not be saved is undone. *)
Crash ==
    /\ pc # "down" /\ crashes < MaxCrashes
    /\ crashes' = crashes + 1
    /\ pc' = "down" /\ chat' = NoChat
    /\ sessions' = [c \in Chats |-> NotLoaded]
    /\ messages' = <<>> /\ iteration' = 0 /\ calls' = NoCalls
    /\ \/ UNCHANGED <<files, torn>>
       \/ \E f \in Torn : files' = [files EXCEPT ![chat] = f] /\ torn' = torn \cup {chat}
    /\ failed' = {} /\ damaged' = torn'
    /\ fresh' = [c \in Chats |-> IF c \in failed THEN 0 ELSE fresh[c]]
    /\ UNCHANGED turns

Restart ==
    /\ pc = "down"
    /\ pc' = "idle"
    /\ UNCHANGED <<sessions, files, chat, messages, iteration, calls, turns, crashes,
                   historyVars>>

-----------------------------------------------------------------------------
TurnStep ==
    \/ \E n \in 0..MaxCalls : \E stop \in {FALSE, StopWithCalls} : Complete(n, stop)
    \/ CompleteFails
    \/ ExecuteToolCall \/ Reply \/ Confirm \/ Save \/ SaveFails

Next ==
    \/ \E c \in Chats : BeginTurn(c) \/ NewCommand(c)
    \/ TurnStep
    \/ Crash \/ Restart

Spec == Init /\ [][Next]_vars

(* The agent's goroutine runs; the client of the model has a timeout, and  *)
(* the commands the model runs are assumed to end.                         *)
FairSpec == Spec /\ WF_vars(TurnStep)

-----------------------------------------------------------------------------
(* Properties *)

(* Type correctness. *)
TypeOK ==
    /\ sessions \in [Chats -> Seq(Message) \cup {NotLoaded}]
    /\ files \in [Chats -> Seq(Message) \cup {NoFile}]
    /\ pc \in {"idle", "ask", "tools", "reply", "save", "clear", "confirm", "down"}
    /\ chat \in Chats \cup {NoChat}
    /\ messages \in Seq(Message)
    /\ iteration \in 0..MaxIteration
    /\ calls \in [all : 0..MaxCalls, done : 0..MaxCalls]
    /\ turns \in 0..MaxTurns
    /\ crashes \in 0..MaxCrashes
    /\ fresh \in [Chats -> 0..MaxTurns]
    /\ failed \subseteq Chats /\ torn \subseteq Chats /\ damaged \subseteq Chats

(* The results that must follow message i, and the call before it that     *)
(* message i answers.                                                      *)
CallsAnswered(s, i) ==
    s[i].role = "assistant" =>
        \A k \in 1..s[i].n :
            i + k \in DOMAIN s /\ s[i + k] = ToolResult(s[i].turn, k)
ResultHasCall(s, i) ==
    s[i].role = "tool" =>
        /\ i - s[i].n \in DOMAIN s
        /\ s[i - s[i].n] \in {Assistant(s[i].turn, n) : n \in s[i].n..MaxCalls}

(* The earliest message of every request is from the user. *)
HistoryStartsWithUser == pc = "ask" => messages[1].role = "user"

(* The model only gets conversations it accepts: the request begins with a *)
(* message of the user, every tool call in it is followed by its result,   *)
(* and every result follows its call.  It must hold through the cut of the *)
(* history window, errors of the model, exhausted turns, saves that fail,  *)
(* sessions that cannot be opened and restarts, unless the chat lacks an   *)
(* end, because its Save broke off or it was read in part, and has not     *)
(* been started anew by /new.                                              *)
RequestWellFormed ==
    pc = "ask" /\ chat \notin damaged =>
        /\ HistoryStartsWithUser
        /\ \A i \in DOMAIN messages :
              CallsAnswered(messages, i) /\ ResultHasCall(messages, i)

(* What was said before a confirmed /new is in no later request of the     *)
(* chat, also when the process dies in between, unless its last Save       *)
(* before that had failed.                                                 *)
FreshStart ==
    pc = "ask" => \A i \in DOMAIN messages : messages[i].turn > fresh[chat]

(* When the agent is at rest, what it remembers of each chat is what its   *)
(* file holds, unless its last Save failed.                                *)
Remembered ==
    pc = "idle" =>
        \A c \in Chats \ failed : sessions[c] # NotLoaded => sessions[c] = Load(files[c])

(* The sessions implement SessionStore: a session is what its file says    *)
(* until it is loaded, and the chat of a turn or command has unsaved       *)
(* messages until Save.                                                    *)
Store == INSTANCE SessionStore WITH
    Chat <- Chats,
    Nobody <- NoChat,
    remembered <- [c \in Chats |-> Session(c)],
    used <- {c \in Chats : sessions[c] # NotLoaded},
    saved <- [c \in Chats |-> Load(files[c])],
    busy <- IF pc \in {"ask", "tools", "reply", "save", "clear"} THEN chat ELSE NoChat,
    failed <- failed

(* Loading on demand, tool loops, errors of the model, failing and torn    *)
(* saves, failing and partial loads and crashes show in no other way than  *)
(* this: a chat grows by what is said in it or starts anew, one chat at a  *)
(* time, falls back to what was saved of it when the process dies, and may *)
(* lose an end when it is first used after that.                           *)
ImplementsSessionStore == Store!Spec

(* The steps that a turn or a command may still take. *)
StepsLeft ==
    CASE pc = "ask" -> 2 + (MaxIteration - iteration) * (1 + MaxCalls)
      [] pc = "tools" -> 2 + (MaxIteration - iteration - 1) * (1 + MaxCalls)
                           + (calls.all - calls.done)
      [] pc \in {"reply", "clear"} -> 2
      [] pc \in {"save", "confirm"} -> 1
      [] OTHER -> 0

(* Every step of a turn or a command brings it nearer to its end, whatever *)
(* the model answers and whatever fails, and it never has more steps left  *)
(* than its requests and their calls can take.                             *)
TurnShrinks ==
    [][/\ pc \notin {"idle", "down"} => StepsLeft' < StepsLeft
       /\ StepsLeft' \in 0..(2 + MaxIteration * (1 + MaxCalls))]_vars

(* Every turn comes to its end, however the model answers. *)
TurnEnds == pc \notin {"idle", "down"} ~> pc \in {"idle", "down"}
=============================================================================
