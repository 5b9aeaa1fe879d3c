----------------------------- MODULE Reminders -----------------------------
(***************************************************************************)
(* What the users of the cron service may rely on, whatever the service    *)
(* does with timers, locks, files and restarts: a reminder is accepted,    *)
(* its message is published by runs that begin while it is accepted and    *)
(* not yet gone, a one-time reminder is published at most once unless the  *)
(* user schedules it again, and a reminder that is gone never begins a run *)
(* again, or not before storage that may fail loses the removal.           *)
(***************************************************************************)
EXTENDS Naturals

CONSTANTS
    Reminder,
    Runs,
    None,       \* not a reminder: the run is not about to publish
    StorageMayFail

VARIABLES
    accepted,   \* reminders the service has taken over
    oneTime,    \* those of them with a single date, scheduled once
    gone,       \* reminders removed
    running,    \* the reminder each run in progress is about to publish
    count       \* publications of each reminder, saturating at 2

vars == <<accepted, oneTime, gone, running, count>>

Init ==
    /\ accepted = {} /\ oneTime = {} /\ gone = {}
    /\ running = [t \in Runs |-> None]
    /\ count = [r \in Reminder |-> 0]

Accept(r) ==
    /\ r \notin accepted
    /\ accepted' = accepted \cup {r}
    /\ oneTime' \in {oneTime, oneTime \cup {r}}
    /\ UNCHANGED <<gone, running, count>>

(* The user schedules a one-time reminder that is scheduled. *)
Repeat(r) ==
    /\ r \in oneTime \ gone
    /\ oneTime' = oneTime \ {r}
    /\ UNCHANGED <<accepted, gone, running, count>>

Begin(t, r) ==
    /\ running[t] = None
    /\ r \in accepted \ gone
    /\ running' = [running EXCEPT ![t] = r]
    /\ UNCHANGED <<accepted, oneTime, gone, count>>

Publish(t) ==
    /\ running[t] # None
    /\ running[t] \in oneTime => count[running[t]] = 0
    /\ count' = [count EXCEPT ![running[t]] = IF @ < 2 THEN @ + 1 ELSE 2]
    /\ running' = [running EXCEPT ![t] = None]
    /\ UNCHANGED <<accepted, oneTime, gone>>

Forget(r) ==
    /\ r \in accepted \ gone
    /\ gone' = gone \cup {r}
    /\ UNCHANGED <<accepted, oneTime, running, count>>

(* The process dies: runs in progress publish nothing, and storage that    *)
(* failed brings back what was removed.                                    *)
Interrupt ==
    /\ running' = [t \in Runs |-> None]
    /\ gone' \in IF StorageMayFail THEN SUBSET gone ELSE {gone}
    /\ UNCHANGED <<accepted, oneTime, count>>

Next ==
    \/ \E r \in Reminder : Accept(r) \/ Repeat(r) \/ Forget(r)
    \/ \E t \in Runs, r \in Reminder : Begin(t, r)
    \/ \E t \in Runs : Publish(t)
    \/ Interrupt

Spec == Init /\ [][Next]_vars
=============================================================================
