------------------------------- MODULE Memory -------------------------------
(***************************************************************************)
(* The consolidation of a session (core/agent/agent.go) into the files of  *)
(* its memory (core/agent/memory.go): the oldest messages are summarised   *)
(* in an entry of HISTORY.md, what the model learnt from them is written   *)
(* to MEMORY.md, and they are dropped from the session.  MEMORY.md is the  *)
(* file of FileTools.  Turns add messages to the session and save it, /new *)
(* clears it.  Any step may fail, and the process may die.                 *)
(*                                                                         *)
(* Nothing in the repository calls the consolidation: here it runs in the  *)
(* agent's goroutine, between turns.                                       *)
(***************************************************************************)
EXTENDS FileTools

CONSTANTS
    KeepCount,    \* messages that stay in the session
    MaxMessages,  \* bound: messages said
    Blank,        \* messages without text
    MaxFailures,  \* bound: consolidations that return an error
    MaxCrashes    \* bound: times the process dies

ASSUME MemoryBoundsAssumption ==
    /\ KeepCount \in Nat /\ MaxMessages \in Nat
    /\ MaxFailures \in Nat /\ MaxCrashes \in Nat
ASSUME BlankAssumption == Blank \subseteq 1..MaxMessages

VARIABLES
    said,       \* the number of messages so far
    session,    \* the messages in the session
    saved,      \* those in the session's file
    history,    \* HISTORY.md: the entries, each the messages it summarises
    job,        \* the turn, the Save or the consolidation in progress
    failures,   \* consolidations that returned an error
    crashes,    \* times the process died
    broken,     \* history: whether a write of HISTORY.md broke off
    untold,     \* history: messages for which the model had no entry
    dropped,    \* history: messages a /new took from the session
    lost        \* history: messages a Save did not write or a load did not read

gone == <<untold, dropped, lost>>
memoryVars == <<said, session, saved, history, job, failures, crashes, broken, gone>>
vars == <<fileVars, memoryVars>>

NoJob == [pc |-> "idle", to |-> 0, lines |-> {}, current |-> <<>>, update |-> <<>>]

Init ==
    /\ FileInit
    /\ said = 0 /\ session = {} /\ saved = {}
    /\ history = <<>> /\ job = NoJob
    /\ failures = 0 /\ crashes = 0 /\ broken = FALSE
    /\ untold = {} /\ dropped = {} /\ lost = {}

AtRest == tool.pc = "idle" /\ job.pc = "idle"

-----------------------------------------------------------------------------
(* Turns *)

(* What is in the file, or was read from it, when the writing or the       *)
(* reading of the messages s ended early.                                  *)
Beginnings(s) == {{m \in s : m <= k} : k \in 0..MaxMessages}

(* A turn adds a message to the session, ...                               *)
Turn ==
    /\ AtRest /\ said < MaxMessages
    /\ said' = said + 1 /\ session' = session \cup {said'}
    /\ job' = [NoJob EXCEPT !.pc = "turn"]
    /\ UNCHANGED <<fileVars, saved, history, failures, crashes, broken, gone>>

(* ... calls the file tools, ...                                           *)
ToolStep ==
    /\ job.pc = "turn"
    /\ \/ \E c \in Text : Write(c) \/ AppendTo(c)
       \/ \E o, n \in Text : EditRead(o, n)
       \/ EditWrite
    /\ UNCHANGED memoryVars

(* ... and ends with Save, which truncates the file and writes it anew.    *)
Saving == job.pc \in {"turn", "save"} /\ tool.pc = "idle"

(* The file then holds s, whatever messages the session has. *)
SaveResult(s) ==
    /\ Saving
    /\ saved' = s /\ lost' = (lost \ session) \cup (session \ s)
    /\ job' = NoJob
    /\ UNCHANGED <<fileVars, said, session, history, failures, crashes, broken, untold, dropped>>

Save == SaveResult(session)

(* Nobody acts on an error of Save: the session stays as it is. *)
SaveFails ==
    /\ "write" \in Faults
    /\ \E s \in {saved} \cup Beginnings(session) : SaveResult(s)

(* /new clears the session, summarised or not, and saves it. *)
NewCommand ==
    /\ AtRest
    /\ session' = {} /\ dropped' = dropped \cup session
    /\ job' = [NoJob EXCEPT !.pc = "save"]
    /\ UNCHANGED <<fileVars, said, saved, history, failures, crashes, broken, untold, lost>>

Somebody ==
    /\ \E c \in Text : SomebodyWrites(c)
    /\ UNCHANGED memoryVars

-----------------------------------------------------------------------------
(* The consolidation *)

(* All messages but the last KeepCount: those of them that have a text are *)
(* put into a request, with what is in MEMORY.md; a file that cannot be    *)
(* read counts as empty.                                                   *)
BeginConsolidation ==
    /\ AtRest
    /\ \E to \in session :
          LET lines == {m \in session : m <= to} \ Blank IN
          /\ Cardinality({m \in session : m > to}) = KeepCount /\ lines # {}
          /\ \E c \in {Content} \cup (IF "read" \in Faults THEN {<<>>} ELSE {}) :
                job' = [pc |-> "ask", to |-> to, lines |-> lines, current |-> c,
                        update |-> <<>>]
    /\ UNCHANGED <<fileVars, said, session, saved, history, failures, crashes, broken, gone>>

(* The model fails, or its answer does not parse: an error is returned. *)
ConsolidationFails ==
    /\ failures < MaxFailures
    /\ failures' = failures + 1
    /\ job' = NoJob

CompleteFails ==
    /\ job.pc = "ask" /\ ConsolidationFails
    /\ UNCHANGED <<fileVars, said, session, saved, history, crashes, broken, gone>>

(* The model answers with an entry, or none, and with a new MEMORY.md. *)
Complete(entry, update) ==
    /\ job.pc = "ask"
    /\ job' = [job EXCEPT !.pc = IF entry THEN "history" ELSE "memory", !.update = update]
    /\ untold' = IF entry THEN untold ELSE untold \cup job.lines
    /\ UNCHANGED <<fileVars, said, session, saved, history, failures, crashes, broken,
                   dropped, lost>>

(* AppendHistory reads the whole file and writes it anew.  It fails before *)
(* it has opened the file for writing, or breaks off in the middle.        *)
AppendHistory ==
    /\ job.pc = "history"
    /\ history' = Append(history, job.lines)
    /\ job' = [job EXCEPT !.pc = "memory"]
    /\ UNCHANGED <<fileVars, said, session, saved, failures, crashes, broken, gone>>

AppendHistoryFails ==
    /\ job.pc = "history" /\ ConsolidationFails
    /\ \/ Faults # {} /\ UNCHANGED <<history, broken>>
       \/ "write" \in Faults /\ history' \in Prefixes(history) /\ broken' = TRUE
    /\ UNCHANGED <<fileVars, said, session, saved, crashes, gone>>

(* Mutant: one message more is dropped than was summarised. *)
TrimOneMore == session' = {m \in session : m > job.to + 1}

(* Mutant: one message that was summarised stays. *)
TrimOneLess == session' = {m \in session : m >= job.to}

(* SetMessages: only the last KeepCount messages stay. *)
Trim == session' = {m \in session : m > job.to}

(* The answer brings something new. *)
WritesMemory == job.pc = "memory" /\ job.update \notin {<<>>, job.current}

(* WriteLongTerm, and the trim, of the session in memory only. *)
WriteMemory ==
    /\ job.pc = "memory"
    /\ IF WritesMemory THEN WriteFile(job.update, TRUE) ELSE UNCHANGED file
    /\ Trim
    /\ job' = NoJob
    /\ UNCHANGED <<tool, report, others, said, saved, history, failures, crashes, broken, gone>>

WriteMemoryFails ==
    /\ WritesMemory /\ WriteFile(job.update, FALSE) /\ ConsolidationFails
    /\ UNCHANGED <<tool, report, others, said, session, saved, history, crashes, broken, gone>>

-----------------------------------------------------------------------------
(* The process dies, also in the middle of a turn or of a write, and       *)
(* starts again with the session's file, or with what can be read of it.   *)
Crash ==
    /\ crashes < MaxCrashes
    /\ crashes' = crashes + 1
    /\ tool' = NoEdit /\ job' = NoJob /\ report' = "none"
    /\ \/ file' = file
       \/ tool.pc = "edit" /\ file' \in Prefixes(Replace(tool.read, tool.old, tool.new))
       \/ WritesMemory /\ file' \in Prefixes(job.update)
    /\ \/ UNCHANGED <<history, broken>>
       \/ job.pc = "history" /\ history' \in Prefixes(history) /\ broken' = TRUE
    /\ saved' = saved \/ (Saving /\ saved' \in Beginnings(session))
    /\ session' = saved' \/ ("read" \in Faults /\ session' \in Beginnings(saved'))
    /\ lost' = lost \cup (saved' \ session')
                    \cup (IF job.pc \in {"turn", "save"} THEN session \ saved' ELSE {})
    /\ UNCHANGED <<others, said, failures, untold, dropped>>

Next ==
    \/ Turn \/ ToolStep \/ NewCommand \/ Save \/ SaveFails \/ Somebody
    \/ BeginConsolidation \/ CompleteFails
    \/ \E entry \in BOOLEAN, update \in Text : Complete(entry, update)
    \/ AppendHistory \/ AppendHistoryFails
    \/ WriteMemory \/ WriteMemoryFails
    \/ Crash

Spec == Init /\ [][Next]_vars

-----------------------------------------------------------------------------
(* Properties *)

(* Type correctness. *)
TypeOK ==
    /\ FileTypeOK
    /\ said \in 0..MaxMessages
    /\ session \subseteq 1..said /\ saved \subseteq 1..said
    /\ history \in Seq(SUBSET (1..MaxMessages))
    /\ job \in [pc : {"idle", "turn", "save", "ask", "history", "memory"},
                to : 0..MaxMessages, lines : SUBSET (1..MaxMessages),
                current : Text, update : Text]
    /\ failures \in 0..MaxFailures /\ crashes \in 0..MaxCrashes
    /\ broken \in BOOLEAN
    /\ untold \subseteq 1..said /\ dropped \subseteq 1..said /\ lost \subseteq 1..said

Summarised == UNION ToSet(history)

(* A message with a text that the session no longer holds is in an entry   *)
(* of HISTORY.md, or the model had nothing to say of it, or a /new dropped *)
(* it, or the last Save of it failed or was cut off by a crash, or it was  *)
(* not read back; as long as no write of HISTORY.md broke off: whatever    *)
(* step of whichever attempt failed, and wherever the process died.        *)
Accounted ==
    ~broken => 1..said \subseteq
                  session \cup Blank \cup Summarised \cup untold \cup dropped \cup lost

(* A message is summarised again only by an attempt that follows a failure *)
(* or a crash.                                                             *)
Entries(m) == {i \in DOMAIN history : m \in history[i]}
RepeatsBounded ==
    \A m \in 1..MaxMessages : Cardinality(Entries(m)) <= 1 + failures + crashes
=============================================================================
