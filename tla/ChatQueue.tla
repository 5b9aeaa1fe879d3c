----------------------------- MODULE ChatQueue -----------------------------
(***************************************************************************)
(* What the users of the gateway may rely on: the messages of one source   *)
(* wait in a queue for each channel they are to be answered on, and are    *)
(* taken up there, each once, those of an ordered source in their order;   *)
(* taking one up sends an answer to it, or nothing.                        *)
(***************************************************************************)
EXTENDS Naturals, Sequences

CONSTANTS
    Source,     \* who asks
    Channel,    \* where answers are sent
    Ordered,    \* the sources whose messages keep their order
    To          \* To[s]: the channels on which source s is answered

VARIABLES
    asked,      \* the messages each source has had
    waiting,    \* the messages that wait for an answer on each channel
    answered    \* the messages answered on each channel, in their order

vars == <<asked, waiting, answered>>

Init ==
    /\ asked = [s \in Source |-> 0]
    /\ waiting = [c \in Channel |-> {}]
    /\ answered = [c \in Channel |-> <<>>]

(* The source's next message is ignored, or waits on all its channels. *)
Ask(s) ==
    LET m == [from |-> s, n |-> asked[s] + 1]
    IN  /\ asked' = [asked EXCEPT ![s] = @ + 1]
        /\ \/ UNCHANGED waiting
           \/ waiting' = [c \in Channel |-> waiting[c] \cup (IF c \in To[s] THEN {m} ELSE {})]
        /\ UNCHANGED answered

(* A message of a source is taken up on a channel, the oldest one if the   *)
(* source is ordered.                                                      *)
Answer(c, m) ==
    /\ m \in waiting[c]
    /\ \A k \in waiting[c] : k.from = m.from /\ m.from \in Ordered => m.n <= k.n
    /\ waiting' = [waiting EXCEPT ![c] = @ \ {m}]
    /\ answered' \in {answered, [answered EXCEPT ![c] = Append(@, m)]}
    /\ UNCHANGED asked

Next ==
    \/ \E s \in Source : Ask(s)
    \/ \E c \in Channel : \E m \in waiting[c] : Answer(c, m)

Spec == Init /\ [][Next]_vars
=============================================================================
