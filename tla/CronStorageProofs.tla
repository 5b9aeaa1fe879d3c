------------------------- MODULE CronStorageProofs -------------------------
(***************************************************************************)
(* What cron.json promises: an accepted job is in the file until a removal *)
(* of it begins, and a job that is gone never comes back, but for what the *)
(* faults of the file cost, which lost, back and stale say.                *)
(*                                                                         *)
(* The argument only looks at which jobs are present.  Every step of the   *)
(* service is of one of six forms (StepForms); the invariants are then     *)
(* preserved by each form.                                                 *)
(***************************************************************************)
EXTENDS CronServiceProofs

SamePresence(s, t) == \A j \in JobIds : s[j] = NoJob <=> t[j] = NoJob

(* Start: memory is read back from the file, or begins with no job because *)
(* the file cannot be read.                                                *)
ReloadForm ==
    /\ phase = "down" /\ phase' # "down"
    /\ \/ store' = disk /\ UNCHANGED <<stale, lost>>
       \/ store' = EmptyStore /\ stale' = TRUE /\ lost' = lost \cup Present(disk)
    /\ UNCHANGED <<disk, lock, nextId, promises, back>>

(* The process dies. *)
DieForm ==
    /\ phase' = "down" /\ store' = EmptyStore /\ lock' = Free /\ stale' = FALSE
    /\ disk' = disk \/ disk' = EmptyStore
    /\ IF stale \/ disk' # disk
       THEN /\ lost' = {j \in accepted \ dropping : disk'[j] = NoJob}
            /\ back' = back \cup {j \in gone : disk'[j] # NoJob}
       ELSE UNCHANGED <<lost, back>>
    /\ UNCHANGED <<nextId, promises>>

(* A locked operation changes the store and marshals the result: it adds   *)
(* the jobs A, which are new, and takes the jobs R away.                   *)
SaveForm(A, R) ==
    /\ phase # "down" /\ phase' # "down" /\ lock = Free
    /\ lock' # Free /\ ~lock'.written /\ lock'.snap = store'
    /\ lock'.adds = A /\ lock'.removes = R
    /\ \A j \in JobIds : store'[j] = NoJob <=> (store[j] = NoJob /\ j \notin A) \/ j \in R
    /\ dropping' = dropping \cup R
    /\ \/ A = {} /\ nextId' = nextId
       \/ A = {nextId} /\ R = {} /\ nextId' = nextId + 1
    /\ \A j \in R : store[j] # NoJob /\ R = {j}
    /\ UNCHANGED <<disk, accepted, gone, damage>>

(* Everything else: no job appears, disappears or is saved. *)
QuietForm ==
    /\ phase = "down" <=> phase' = "down"
    /\ SamePresence(store', store)
    /\ UNCHANGED <<disk, lock, nextId, promises, damage>>

(* The lock of a save that begins is not free. *)
LEMMA SaveHolds ==
    ASSUME NEW who \in {Agent} \cup Workers, NEW s, NEW adds, NEW removes,
           SaveStoreLocked(who, s, adds, removes)
    PROVE  /\ lock' # Free /\ ~lock'.written /\ lock'.snap = s
           /\ lock'.adds = adds /\ lock'.removes = removes
<1>1. who # Nobody
  BY NamesAssumption DEF Agent, Nobody
<1> QED BY <1>1 DEF SaveStoreLocked, Free

(* Writing a field of a present job leaves it present. *)
LEMMA WritePresent ==
    ASSUME NEW s \in Store, NEW j \in JobIds, s[j] # NoJob,
           NEW x \in Job, NEW t, t = [s EXCEPT ![j] = x]
    PROVE  SamePresence(t, s)
BY NoJobNotEnabled DEF SamePresence, Store

(* Every step has one of the six forms. *)
LEMMA StepForms ==
    ASSUME TypeOK, TypeOK', Pointers, DownQuiet, [Next]_vars
    PROVE  \/ ReloadForm \/ DieForm \/ WriteStore \/ Return \/ QuietForm
           \/ \E A, R \in SUBSET JobIds : SaveForm(A, R)
<1> USE DEF TypeOK
<1>1. CASE Start \/ StartUnread
  <2>1. ReloadForm
    BY <1>1 DEF Start, StartUnread, ScheduleAll, ReloadForm, history, promises, damage
  <2> QED BY <2>1
<1>2. CASE StopShutdown \/ StopNil \/ StopDone
  <2>1. QuietForm
    BY <1>2 DEF StopShutdown, StopNil, StopDone, memory, history, QuietForm, SamePresence
  <2> QED BY <2>1
<1>3. CASE Crash \/ SchedulePanics \/ \E r \in Runners : RunJobPanics(r)
  <2>1. DieForm
    BY <1>3 DEF Crash, SchedulePanics, RunJobPanics, Die, DieForm
  <2> QED BY <2>1
<1>4. ASSUME NEW k \in Kinds, AddJob(k)
      PROVE  \E A, R \in SUBSET JobIds : SaveForm(A, R)
  <2>1. nextId \in JobIds
    BY <1>4, MaxJobsAssumption DEF AddJob, JobIds
  <2>2. \A j \in JobIds : store'[j] = NoJob <=> store[j] = NoJob /\ j # nextId
    BY <1>4, <2>1 DEF AddJob, Store, NewJob, NoJob
  <2>3. /\ lock' # Free /\ ~lock'.written /\ lock'.snap = store'
        /\ lock'.adds = {nextId} /\ lock'.removes = {}
    BY <1>4, SaveHolds DEF AddJob
  <2>4. SaveForm({nextId}, {})
    BY <1>4, <2>2, <2>3 DEF AddJob, SaveForm, Up, history, promises
  <2> QED BY <2>1, <2>4
<1>5. ASSUME NEW j \in JobIds, RemoveJob(j)
      PROVE  \E A, R \in SUBSET JobIds : SaveForm(A, R)
  <2>1. \A i \in JobIds : store'[i] = NoJob <=> store[i] = NoJob \/ i = j
    BY <1>5 DEF RemoveJob, Store
  <2>2. /\ lock' # Free /\ ~lock'.written /\ lock'.snap = store'
        /\ lock'.adds = {} /\ lock'.removes = {j}
    BY <1>5, SaveHolds DEF RemoveJob
  <2>3. SaveForm({}, {j})
    BY <1>5, <2>1, <2>2 DEF RemoveJob, SaveForm, Up
  <2> QED BY <2>3
<1>6. ASSUME NEW j \in JobIds, EnableJob(j) \/ DisableJob(j)
      PROVE  \E A, R \in SUBSET JobIds : SaveForm(A, R)
  <2>1. SamePresence(store', store)
    <3>1. store[j] \in Job
      BY <1>6, PresentIsJob DEF EnableJob, DisableJob
    <3>2. PICK b \in BOOLEAN : store' = [store EXCEPT ![j] = [@ EXCEPT !.enabled = b]]
      BY <1>6 DEF EnableJob, DisableJob
    <3>3. [store[j] EXCEPT !.enabled = b] \in Job
      BY <3>1 DEF Job
    <3> QED BY <1>6, <3>2, <3>3, WritePresent DEF EnableJob, DisableJob
  <2>2. /\ lock' # Free /\ ~lock'.written /\ lock'.snap = store'
        /\ lock'.adds = {} /\ lock'.removes = {}
    BY <1>6, SaveHolds DEF EnableJob, DisableJob
  <2>3. SaveForm({}, {})
    BY <1>6, <2>1, <2>2
       DEF EnableJob, DisableJob, SaveForm, Up, history, promises, SamePresence
  <2> QED BY <2>3
<1>7. ASSUME NEW j \in JobIds, TimePasses(j) PROVE QuietForm
  BY <1>7 DEF TimePasses, memory, history, QuietForm, SamePresence
<1>8. ASSUME NEW t \in Tasks, NEW j \in JobIds, Fire(t, j) \/ FireOrphan(t, j)
      PROVE  QuietForm
  BY <1>8 DEF Fire, FireOrphan, history, QuietForm, SamePresence
<1>9. ASSUME NEW t \in Tasks, Lookup(t) PROVE QuietForm
  BY <1>9 DEF Lookup, history, QuietForm, SamePresence
<1>10. ASSUME NEW w \in Workers, Publish(w) PROVE QuietForm
  BY <1>10 DEF Publish, QuietForm, SamePresence
<1>11. ASSUME NEW w \in Workers, Update(w) PROVE QuietForm
  <2> DEFINE p == workers[w].ptr
             x == [store[p] EXCEPT !.ran = "ran", !.enabled = @ /\ kind[p] # "keep"]
  <2>1. CASE workers[w].live
    <3>1. p \in JobIds /\ store[p] # NoJob
      BY <2>1 DEF Pointers, PointerOK
    <3>2. x \in Job
      <4>1. store[p] \in Job
        BY <3>1, PresentIsJob
      <4> QED BY <4>1 DEF Job
    <3>3. store' = [store EXCEPT ![p] = x]
      BY <1>11, <2>1 DEF Update
    <3>4. SamePresence(store', store)
      BY <3>1, <3>2, <3>3, WritePresent
    <3> QED BY <1>11, <3>4 DEF Update, QuietForm, history
  <2>2. CASE ~workers[w].live
    BY <1>11, <2>2 DEF Update, QuietForm, SamePresence, history
  <2> QED BY <2>1, <2>2
<1>12. ASSUME NEW w \in Workers, RemoveAfterRun(w)
       PROVE  QuietForm \/ \E A, R \in SUBSET JobIds : SaveForm(A, R)
  <2> DEFINE p == workers[w].ptr
  <2>1. p \in JobIds /\ workers[w].pc # "idle"
    BY <1>12 DEF RemoveAfterRun, At, Pointers, PointerOK
  <2>2. CASE store[p] # NoJob
    <3>1. \A i \in JobIds : store'[i] = NoJob <=> store[i] = NoJob \/ i = p
      BY <1>12, <2>1, <2>2 DEF RemoveAfterRun, Store
    <3>2. phase # "down"
      BY <2>1, WorkingIsUp
    <3>3. /\ lock' # Free /\ ~lock'.written /\ lock'.snap = store'
          /\ lock'.adds = {} /\ lock'.removes = {p}
      BY <1>12, <2>2, SaveHolds DEF RemoveAfterRun
    <3>4. SaveForm({}, {p})
      BY <1>12, <2>2, <3>1, <3>2, <3>3 DEF RemoveAfterRun, SaveForm
    <3> QED BY <2>1, <3>4
  <2>3. CASE store[p] = NoJob
    BY <1>12, <2>3 DEF RemoveAfterRun, QuietForm, SamePresence, promises
  <2> QED BY <2>2, <2>3
<1>13. ASSUME NEW t \in Tasks, OnJobSuccess(t)
       PROVE  QuietForm \/ \E A, R \in SUBSET JobIds : SaveForm(A, R)
  <2>1. t \in Workers /\ workers[t].pc # "idle"
    BY <1>13 DEF OnJobSuccess, At, Workers
  <2>2. CASE store[workers[t].job] # NoJob
    <3>1. phase # "down"
      BY <2>1, WorkingIsUp
    <3>2. /\ lock' # Free /\ ~lock'.written /\ lock'.snap = store
          /\ lock'.adds = {} /\ lock'.removes = {}
      BY <1>13, <2>1, <2>2, SaveHolds DEF OnJobSuccess
    <3>3. SaveForm({}, {})
      BY <1>13, <3>1, <3>2 DEF OnJobSuccess, SaveForm, history, promises
    <3> QED BY <3>3
  <2>3. CASE store[workers[t].job] = NoJob
    BY <1>13, <2>3 DEF OnJobSuccess, QuietForm, SamePresence, history
  <2> QED BY <2>2, <2>3
<1>14. ASSUME NEW r \in Runners, (\E j \in JobIds : RunJob(r, j)) \/ RunJobDeref(r)
       PROVE  QuietForm
  BY <1>14 DEF RunJob, RunJobDeref, QuietForm, SamePresence, history
<1>15. ASSUME NEW r \in Runners, RunJobSave(r)
       PROVE  \E A, R \in SUBSET JobIds : SaveForm(A, R)
  <2>1. phase # "down"
    BY <1>15, WorkingIsUp DEF RunJobSave, At, Workers
  <2>2. /\ lock' # Free /\ ~lock'.written /\ lock'.snap = store
        /\ lock'.adds = {} /\ lock'.removes = {}
    BY <1>15, SaveHolds DEF RunJobSave, Workers
  <2>3. SaveForm({}, {})
    BY <1>15, <2>1, <2>2 DEF RunJobSave, SaveForm, history, promises
  <2> QED BY <2>3
<1>16. CASE UNCHANGED vars
  BY <1>16 DEF vars, memory, history, QuietForm, SamePresence
<1>17. CASE RemoveUnknown
  BY <1>17 DEF RemoveUnknown, history, QuietForm, SamePresence, Up
<1> QED
  BY <1>1, <1>2, <1>3, <1>4, <1>5, <1>6, <1>7, <1>8, <1>9, <1>10, <1>11, <1>12,
     <1>13, <1>14, <1>15, <1>16, <1>17
     DEF Next, AgentNext, TaskNext, WorkerNext, RunnerNext, Workers

-----------------------------------------------------------------------------
TypeInv == TypeOK /\ Pointers /\ DownQuiet

(* In a process that is not there nobody holds s.mu, and what the file     *)
(* holds is the truth.                                                     *)
DownSettled == phase = "down" => lock = Free /\ ~stale

(* The bytes of the lock are about to be written. *)
Pending == lock # Free /\ ~lock.written

(* A job that is gone is neither in memory, nor in the file, nor in the    *)
(* bytes about to be written; a job that the write in progress removes is  *)
(* in neither memory nor bytes; and no job is anywhere before newID        *)
(* returned its id.                                                        *)
GoneInv ==
    /\ DownSettled
    /\ \A j \in gone \ back :
          /\ store[j] = NoJob
          /\ stale \/ disk[j] = NoJob
          /\ Pending => lock.snap[j] = NoJob
    /\ \A j \in lock.removes : store[j] = NoJob /\ lock.snap[j] = NoJob
    /\ \A j \in JobIds : j >= nextId =>
          /\ store[j] = NoJob /\ disk[j] = NoJob /\ lock.snap[j] = NoJob
          /\ j \notin gone /\ j \notin lock.removes

(* No job is in the empty store, nor in the bytes of a lock nobody holds. *)
LEMMA EmptyAbsent ==
    /\ \A j \in JobIds : EmptyStore[j] = NoJob /\ Free.snap[j] = NoJob
    /\ Free.adds = {} /\ Free.removes = {} /\ Free.written = FALSE
BY DEF EmptyStore, Free

(* The write of the bytes keeps what the lock says of the operation. *)
LEMMA WriteKeepsLock ==
    ASSUME TypeOK, WriteStore
    PROVE  /\ lock'.snap = lock.snap /\ lock'.adds = lock.adds
           /\ lock'.removes = lock.removes /\ lock'.written
BY DEF TypeOK, WriteStore, Lock

(* Every form of step keeps the jobs that are gone gone. *)
LEMMA GoneStep ==
    ASSUME TypeOK, TypeOK', GoneInv,
           \/ ReloadForm \/ DieForm \/ WriteStore \/ Return \/ QuietForm
           \/ \E A, R \in SUBSET JobIds : SaveForm(A, R)
    PROVE  GoneInv'
<1> USE DEF TypeOK
<1>1. CASE ReloadForm
  <2>1. /\ lock' = Free /\ ~stale /\ phase' # "down"
        /\ UNCHANGED <<disk, lock, nextId, gone, back>>
    BY <1>1 DEF ReloadForm, GoneInv, DownSettled, promises
  <2>2. \A j \in JobIds : disk[j] = NoJob => store'[j] = NoJob
    BY <1>1, EmptyAbsent DEF ReloadForm
  <2> QED BY <2>1, <2>2, EmptyAbsent DEF GoneInv, DownSettled, Pending
<1>2. CASE DieForm
  <2>1. /\ store' = EmptyStore /\ lock' = Free /\ ~stale' /\ gone' = gone /\ nextId' = nextId
        /\ disk' = disk \/ disk' = EmptyStore
    BY <1>2 DEF DieForm, promises
  <2>2. ASSUME NEW j \in gone \ back' PROVE disk'[j] = NoJob
    <3>1. CASE stale \/ disk' # disk
      BY <1>2, <2>2, <3>1 DEF DieForm
    <3>2. CASE ~stale /\ disk' = disk
      BY <1>2, <2>2, <3>2 DEF DieForm, GoneInv
    <3> QED BY <3>1, <3>2
  <2> QED BY <2>1, <2>2, EmptyAbsent DEF GoneInv, DownSettled, Pending
<1>3. CASE WriteStore
  <2>1. /\ lock'.snap = lock.snap /\ lock'.removes = lock.removes /\ lock'.written
        /\ UNCHANGED <<store, nextId, phase>> /\ gone' = gone \cup lock.removes /\ Pending
    BY <1>3, WriteKeepsLock DEF WriteStore, Pending
  <2>2. phase' # "down"
    BY <2>1 DEF GoneInv, DownSettled, Pending
  <2>3. CASE disk' = lock.snap /\ stale' = FALSE /\ back' = back \ lock.removes
    BY <2>1, <2>2, <2>3 DEF GoneInv, DownSettled, Pending
  <2>4. CASE disk' \in {disk, EmptyStore} /\ stale' = TRUE /\ back' = back
    BY <2>1, <2>2, <2>4, EmptyAbsent DEF GoneInv, DownSettled, Pending
  <2> QED BY <1>3, <2>3, <2>4 DEF WriteStore
<1>4. CASE QuietForm
  <2>1. \A j \in JobIds : store'[j] = NoJob <=> store[j] = NoJob
    BY <1>4 DEF QuietForm, SamePresence
  <2>2. /\ phase = "down" <=> phase' = "down"
        /\ UNCHANGED <<disk, lock, nextId, gone, stale, back>>
    BY <1>4 DEF QuietForm, promises, damage
  <2>3. gone \subseteq JobIds /\ lock.removes \subseteq JobIds
    BY DEF Lock
  <2> QED BY <2>1, <2>2, <2>3 DEF GoneInv, DownSettled, Pending
<1>5. ASSUME NEW A \in SUBSET JobIds, NEW R \in SUBSET JobIds, SaveForm(A, R)
      PROVE  GoneInv'
  <2>1. \A j \in gone : j \notin A
    BY <1>5 DEF SaveForm, GoneInv, JobIds
  <2>2. UNCHANGED <<disk, gone, stale, back>> /\ lock'.snap = store' /\ lock'.removes = R
    BY <1>5 DEF SaveForm, damage
  <2>3. \A j \in gone \ back : store'[j] = NoJob
    BY <1>5, <2>1 DEF SaveForm, GoneInv
  <2>4. \A j \in R : store'[j] = NoJob
    BY <1>5 DEF SaveForm
  <2>5. ASSUME NEW j \in JobIds, j >= nextId'
        PROVE  store'[j] = NoJob /\ disk[j] = NoJob /\ j \notin gone /\ j \notin R
    <3>1. j >= nextId /\ j \notin A
      BY <1>5, <2>5, MaxJobsAssumption DEF SaveForm, JobIds
    <3> QED BY <1>5, <3>1 DEF SaveForm, GoneInv
  <2>6. DownSettled'
    BY <1>5 DEF SaveForm, DownSettled
  <2> QED BY <2>2, <2>3, <2>4, <2>5, <2>6 DEF GoneInv
<1>6. CASE Return
  <2>1. lock' = Free /\ UNCHANGED <<phase, nextId, store, disk, gone, stale, back>>
    BY <1>6 DEF Return, history, promises, damage
  <2> QED BY <2>1, EmptyAbsent DEF GoneInv, DownSettled, Pending
<1> QED BY <1>1, <1>2, <1>3, <1>4, <1>5, <1>6

(* A job that is gone stays out of memory and file through any crash and   *)
(* any fault, but for the one fault that RemovedStaysGone excepts: a write *)
(* that failed, and a death before the next write.                         *)
THEOREM RemovalIsFinal == Spec => []RemovedStaysGone
<1>1. Init => GoneInv
  BY EmptyAbsent DEF Init, GoneInv, DownSettled, Pending
<1>2. TypeInv /\ TypeInv' /\ GoneInv /\ [Next]_vars => GoneInv'
  BY StepForms, GoneStep DEF TypeInv
<1>3. GoneInv => RemovedStaysGone
  BY DEF GoneInv, RemovedStaysGone
<1>4. Spec => []TypeInv
  BY TypeCorrect DEF TypeInv
<1> QED BY <1>1, <1>2, <1>3, <1>4, PTL DEF Spec

-----------------------------------------------------------------------------
(* An accepted job that nobody removes and no fault cost is in the file,   *)
(* in the memory of a process that is up, and in the bytes about to be     *)
(* written; and so is, in memory and bytes, the job being accepted.        *)
KeptInv ==
    /\ DownSettled
    /\ \A j \in accepted \ (dropping \cup lost) :
          /\ stale \/ disk[j] # NoJob
          /\ phase # "down" => store[j] # NoJob
          /\ Pending => lock.snap[j] # NoJob
    /\ \A j \in lock.adds : j \notin dropping =>
          phase # "down" /\ store[j] # NoJob /\ lock.snap[j] # NoJob

(* Every form of step keeps accepted jobs. *)
LEMMA KeptStep ==
    ASSUME TypeOK, TypeOK', KeptInv,
           \/ ReloadForm \/ DieForm \/ WriteStore \/ Return \/ QuietForm
           \/ \E A, R \in SUBSET JobIds : SaveForm(A, R)
    PROVE  KeptInv'
<1> USE DEF TypeOK
<1>1. CASE ReloadForm
  <2>1. /\ lock = Free /\ ~stale /\ phase' # "down"
        /\ UNCHANGED <<disk, lock, accepted, dropping>>
    BY <1>1 DEF ReloadForm, KeptInv, DownSettled, promises
  <2>2. CASE store' = disk /\ UNCHANGED <<stale, lost>>
    BY <2>1, <2>2, EmptyAbsent DEF KeptInv, DownSettled, Pending
  <2>3. CASE store' = EmptyStore /\ stale' = TRUE /\ lost' = lost \cup Present(disk)
    <3>1. \A j \in accepted : j \in dropping \cup lost'
      BY <2>1, <2>3 DEF KeptInv, Present
    <3> QED BY <2>1, <3>1, EmptyAbsent DEF KeptInv, DownSettled
  <2> QED BY <1>1, <2>2, <2>3 DEF ReloadForm
<1>2. CASE DieForm
  <2>1. /\ phase' = "down" /\ lock' = Free /\ ~stale'
        /\ accepted' = accepted /\ dropping' = dropping
    BY <1>2 DEF DieForm, promises
  <2>2. ASSUME NEW j \in accepted \ (dropping \cup lost') PROVE disk'[j] # NoJob
    <3>1. CASE stale \/ disk' # disk
      BY <1>2, <2>2, <3>1 DEF DieForm
    <3>2. CASE ~stale /\ disk' = disk
      BY <1>2, <2>2, <3>2 DEF DieForm, KeptInv
    <3> QED BY <3>1, <3>2
  <2> QED BY <2>1, <2>2, EmptyAbsent DEF KeptInv, DownSettled, Pending
<1>3. CASE WriteStore
  <2>1. /\ lock'.snap = lock.snap /\ lock'.adds = lock.adds /\ lock'.written
        /\ UNCHANGED <<store, dropping, phase, lost>>
        /\ accepted' = accepted \cup lock.adds /\ Pending
    BY <1>3, WriteKeepsLock DEF WriteStore, Pending
  <2>2. phase' # "down"
    BY <2>1 DEF KeptInv, DownSettled, Pending
  <2>3. disk' = lock.snap \/ stale' = TRUE
    BY <1>3 DEF WriteStore
  <2> QED BY <2>1, <2>2, <2>3 DEF KeptInv, DownSettled, Pending
<1>4. CASE QuietForm
  <2>1. \A j \in JobIds : store'[j] = NoJob <=> store[j] = NoJob
    BY <1>4 DEF QuietForm, SamePresence
  <2>2. /\ phase = "down" <=> phase' = "down"
        /\ UNCHANGED <<disk, lock, accepted, dropping, stale, lost>>
    BY <1>4 DEF QuietForm, promises, damage
  <2>3. accepted \subseteq JobIds /\ lock.adds \subseteq JobIds
    BY DEF Lock
  <2> QED BY <2>1, <2>2, <2>3 DEF KeptInv, DownSettled, Pending
<1>5. ASSUME NEW A \in SUBSET JobIds, NEW R \in SUBSET JobIds, SaveForm(A, R)
      PROVE  KeptInv'
  <2>1. /\ UNCHANGED <<disk, accepted, stale, lost>> /\ dropping' = dropping \cup R
        /\ lock'.snap = store' /\ lock'.adds = A /\ phase # "down" /\ phase' # "down"
    BY <1>5 DEF SaveForm, damage
  <2>2. \A j \in accepted \ (dropping' \cup lost) : store'[j] # NoJob
    BY <1>5, <2>1 DEF SaveForm, KeptInv
  <2>3. \A j \in A : j \notin dropping' => store'[j] # NoJob
    BY <1>5, <2>1 DEF SaveForm
  <2> QED BY <2>1, <2>2, <2>3 DEF KeptInv, DownSettled
<1>6. CASE Return
  <2>1. lock' = Free /\ UNCHANGED <<phase, store, disk, accepted, dropping, stale, lost>>
    BY <1>6 DEF Return, history, promises, damage
  <2> QED BY <2>1, EmptyAbsent DEF KeptInv, DownSettled, Pending
<1> QED BY <1>1, <1>2, <1>3, <1>4, <1>5, <1>6

(* A job whose save ended is in memory and in cron.json until its removal  *)
(* begins, through any crash and any fault, but for what AcceptedDurable   *)
(* says that faults cost.                                                  *)
THEOREM AcceptedIsDurable == Spec => []AcceptedDurable
<1>1. Init => KeptInv
  BY EmptyAbsent DEF Init, KeptInv, DownSettled, Pending
<1>2. TypeInv /\ TypeInv' /\ KeptInv /\ [Next]_vars => KeptInv'
  BY StepForms, KeptStep DEF TypeInv
<1>3. KeptInv => AcceptedDurable
  BY DEF KeptInv, AcceptedDurable, Up
<1>4. Spec => []TypeInv
  BY TypeCorrect DEF TypeInv
<1> QED BY <1>1, <1>2, <1>3, <1>4, PTL DEF Spec
=============================================================================
