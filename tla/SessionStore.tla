---------------------------- MODULE SessionStore ----------------------------
(***************************************************************************)
(* What the users of the sessions may rely on: a chat remembers what was   *)
(* said in it, in its order, whatever is said in other chats and whether   *)
(* or not its session is in memory; it is saved before the agent turns to  *)
(* another chat; and a process that dies falls back to what was saved, so  *)
(* that it forgets the turn in progress and what could not be saved.  When *)
(* a chat is first used after a start its end, or all of it, may be        *)
(* overlooked, and is lost for good when the turn is saved.                *)
(***************************************************************************)
EXTENDS Naturals, Sequences

CONSTANTS
    Chat,
    Nobody      \* not a chat

VARIABLES
    remembered, \* what the agent knows of each chat
    saved,      \* what it would know after a crash
    used,       \* the chats used since the process started
    busy,       \* the chat whose turn is in progress
    failed      \* chats whose last save failed

vars == <<remembered, saved, used, busy, failed>>

Init ==
    /\ remembered = [c \in Chat |-> <<>>] /\ saved = [c \in Chat |-> <<>>]
    /\ used = {} /\ busy = Nobody /\ failed = {}

Beginnings(s) == {SubSeq(s, 1, i) : i \in 0..Len(s)}

(* One more message is said in chat c: the last one of what is known then. *)
Say(c) ==
    /\ busy \in {Nobody, c} /\ busy' = c /\ used' = used \cup {c}
    /\ LET log == remembered'[c] IN
       /\ log # <<>>
       /\ \E s \in IF c \in used THEN {remembered[c]} ELSE Beginnings(remembered[c]) :
             remembered' = [remembered EXCEPT ![c] = Append(s, log[Len(log)])]
    /\ UNCHANGED <<saved, failed>>

Forget(c) ==
    /\ busy = Nobody /\ busy' = c /\ used' = used \cup {c}
    /\ remembered' = [remembered EXCEPT ![c] = <<>>]
    /\ UNCHANGED <<saved, failed>>

Save ==
    /\ busy # Nobody /\ busy' = Nobody
    /\ saved' = [saved EXCEPT ![busy] = remembered[busy]]
    /\ failed' = failed \ {busy}
    /\ UNCHANGED <<remembered, used>>

SaveFails ==
    /\ busy # Nobody /\ busy' = Nobody
    /\ \E s \in {saved[busy]} \cup Beginnings(remembered[busy]) :
          saved' = [saved EXCEPT ![busy] = s]
    /\ failed' = failed \cup {busy}
    /\ UNCHANGED <<remembered, used>>

(* The process may die in the middle of a save. *)
Die ==
    /\ \/ UNCHANGED saved
       \/ /\ busy # Nobody
          /\ \E s \in Beginnings(remembered[busy]) : saved' = [saved EXCEPT ![busy] = s]
    /\ remembered' = saved' /\ used' = {} /\ busy' = Nobody /\ failed' = {}

Next ==
    \/ \E c \in Chat : Forget(c) \/ Say(c)
    \/ Save \/ SaveFails \/ Die

Spec == Init /\ [][Next]_vars

(* Only the turn in progress, and chats that could not be saved, have      *)
(* something to lose.                                                      *)
LittleToLose == \A c \in Chat \ failed : c # busy => remembered[c] = saved[c]
=============================================================================
