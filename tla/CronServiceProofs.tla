------------------------- MODULE CronServiceProofs -------------------------
(***************************************************************************)
(* Theorems about CronService, for every number of jobs, goroutines and    *)
(* callers of RunJob.                                                      *)
(***************************************************************************)
EXTENDS CronService, FiniteSetTheorems, TLAPS

(* A job of the store is a Job: it is not the absent job. *)
LEMMA PresentIsJob ==
    ASSUME NEW s \in Store, NEW j \in JobIds, s[j] # NoJob
    PROVE  s[j] \in Job
BY DEF Store

(* The absent job is neither enabled nor a Job. *)
LEMMA NoJobNotEnabled == NoJob \notin Job /\ NoJob.enabled = FALSE
BY DEF NoJob, Job

(* The empty store and the lock nobody holds are well typed. *)
LEMMA EmptyTyped == EmptyStore \in Store /\ Free \in Lock
BY DEF EmptyStore, Store, Free, Lock, NoJob, Nobody

(* The lock of a save that begins is well typed. *)
LEMMA SaveTyped ==
    ASSUME NEW who \in {Agent} \cup Workers, NEW s \in Store,
           NEW adds \in SUBSET JobIds, NEW removes \in SUBSET JobIds,
           SaveStoreLocked(who, s, adds, removes)
    PROVE  lock' \in Lock
BY DEF SaveStoreLocked, Lock

(* Moving the slice keeps the goroutines well typed. *)
LEMMA MovedTyped ==
    ASSUME NEW ws \in [Workers -> Worker]
    PROVE  Moved(ws) \in [Workers -> Worker]
<1>1. SUFFICES ASSUME NEW w \in Workers
               PROVE  [ws[w] EXCEPT !.live = FALSE] \in Worker
  BY DEF Moved
<1>2. ws[w] \in Worker
  OBVIOUS
<1> QED BY <1>2 DEF Worker

(* An idle goroutine is well typed. *)
LEMMA IdleTyped == Idle \in Worker
BY MaxJobsAssumption DEF Idle, Beginning, Worker

(* Moving a goroutine to another step keeps the goroutines well typed. *)
LEMMA StepTyped ==
    ASSUME NEW ws \in [Workers -> Worker], NEW w \in Workers,
           NEW pc \in {"idle", "lookup", "deref", "publish", "update", "remove",
                       "success", "save"}
    PROVE  [ws EXCEPT ![w].pc = pc] \in [Workers -> Worker]
<1>1. ws[w] \in Worker
  OBVIOUS
<1>2. [ws[w] EXCEPT !.pc = pc] \in Worker
  BY <1>1 DEF Worker
<1> QED BY <1>2

(* A dying process leaves well typed memory. *)
LEMMA DieTyped ==
    ASSUME TypeOK, Die, disk' \in Store
    PROVE  TypeOK'
<1>1. workers' \in [Workers -> Worker]
  BY IdleTyped DEF Die
<1>2. orphans' \in [JobIds -> 0..MaxOrphans]
  BY MaxOrphansAssumption DEF Die
<1>3. store' \in Store /\ lock' \in Lock
  BY EmptyTyped DEF Die
<1>4. lost' \subseteq JobIds /\ back' \subseteq JobIds /\ stale' \in BOOLEAN
  BY DEF TypeOK, Die
<1> QED BY <1>1, <1>2, <1>3, <1>4 DEF TypeOK, Die, promises

(* The index RunJob computes is a position in the slice. *)
LEMMA RankTyped ==
    ASSUME NEW s, NEW j
    PROVE  Rank(s, j) \in 0..MaxJobs
<1> DEFINE upto == {i \in Present(s) : i <= j}
<1>1. IsFiniteSet(JobIds) /\ Cardinality(JobIds) = MaxJobs
  BY MaxJobsAssumption, FS_Interval DEF JobIds
<1>2. upto \subseteq JobIds
  BY DEF Present
<1>3. IsFiniteSet(upto) /\ Cardinality(upto) <= Cardinality(JobIds)
  BY <1>1, <1>2, FS_Subset
<1>4. Cardinality(upto) \in Nat
  BY <1>3, FS_CardinalityType
<1> QED BY <1>1, <1>3, <1>4, MaxJobsAssumption DEF Rank

(* A goroutine at work has a job and a pointer, and a pointer into the     *)
(* slice designates a job that is there.                                   *)
PointerOK(g, s) ==
    /\ g.pc # "idle" => g.job \in JobIds
    /\ g.pc \in {"publish", "update", "remove"} => g.ptr \in JobIds
    /\ g.live => g.ptr \in JobIds /\ s[g.ptr] # NoJob
Pointers == \A w \in Workers : PointerOK(workers[w], store)

(* Nothing runs while the process is down. *)
DownQuiet == phase = "down" => \A w \in Workers : workers[w] = Idle

(* A step of the service from a well typed state reaches one. *)
LEMMA TypeStep ==
    ASSUME TypeOK, Pointers, [Next]_vars
    PROVE  TypeOK'
<1> USE DEF TypeOK
<1>1. CASE Start \/ StartUnread
  BY <1>1, EmptyTyped DEF Start, StartUnread, ScheduleAll, Present, history, promises, damage
<1>2. CASE StopShutdown
  BY <1>2, MaxOrphansAssumption DEF StopShutdown, history, promises, damage
<1>3. CASE StopNil \/ StopDone
  BY <1>3 DEF StopNil, StopDone, memory, history, promises, damage
<1>4. CASE Crash
  BY <1>4, DieTyped, EmptyTyped DEF Crash
<1>5. CASE SchedulePanics
  BY <1>5, DieTyped DEF SchedulePanics
<1>6. ASSUME NEW k \in Kinds, AddJob(k) PROVE TypeOK'
  <2>1. nextId \in JobIds /\ nextId' \in 1..(MaxJobs + 1)
    BY <1>6, MaxJobsAssumption DEF AddJob, JobIds
  <2>2. kind' \in [JobIds -> {"at", "keep", "every", "bad"}]
    BY <1>6, <2>1, KindsAssumption DEF AddJob
  <2>3. store' \in Store
    BY <1>6, <2>1 DEF AddJob, NewJob, Store, Job
  <2>4. workers' \in [Workers -> Worker]
    BY <1>6, MovedTyped DEF AddJob, AppendMoves
  <2>5. lock' \in Lock
    BY <1>6, <2>1, <2>3 DEF AddJob, SaveStoreLocked, Lock
  <2> QED BY <1>6, <2>1, <2>2, <2>3, <2>4, <2>5 DEF AddJob, history, promises, damage
<1>7. ASSUME NEW j \in JobIds, RemoveJob(j) PROVE TypeOK'
  <2>1. store' \in Store
    BY <1>7 DEF RemoveJob, Store
  <2>2. lock' \in Lock
    BY <1>7, <2>1 DEF RemoveJob, SaveStoreLocked, Lock
  <2>3. workers' \in [Workers -> Worker]
    BY <1>7, MovedTyped DEF RemoveJob
  <2> QED BY <1>7, <2>1, <2>2, <2>3 DEF RemoveJob, Disarm, damage
<1>8. ASSUME NEW j \in JobIds, EnableJob(j) PROVE TypeOK'
  <2>1. store' \in Store
    <3>1. [store[j] EXCEPT !.enabled = TRUE] \in Job
      BY <1>8, PresentIsJob DEF EnableJob, Job
    <3> QED BY <1>8, <3>1 DEF EnableJob, Store
  <2>2. lock' \in Lock
    BY <1>8, <2>1 DEF EnableJob, SaveStoreLocked, Lock
  <2>3. orphans' \in [JobIds -> 0..MaxOrphans]
    BY <1>8, MaxOrphansAssumption DEF EnableJob, Reschedule
  <2>4. armed' \subseteq JobIds /\ rearmed' \subseteq JobIds
    BY <1>8 DEF EnableJob, Reschedule
  <2> QED BY <1>8, <2>1, <2>2, <2>3, <2>4 DEF EnableJob, promises, damage
<1>9. ASSUME NEW j \in JobIds, DisableJob(j) PROVE TypeOK'
  <2>1. store' \in Store
    <3>1. [store[j] EXCEPT !.enabled = FALSE] \in Job
      BY <1>9, PresentIsJob DEF DisableJob, Job
    <3> QED BY <1>9, <3>1 DEF DisableJob, Store
  <2>2. lock' \in Lock
    BY <1>9, <2>1 DEF DisableJob, SaveStoreLocked, Lock
  <2> QED BY <1>9, <2>1, <2>2 DEF DisableJob, Disarm, history, promises, damage
<1>10. CASE WriteStore
  <2>1. disk' \in Store
    BY <1>10, EmptyTyped DEF WriteStore, Lock
  <2>2. accepted' \subseteq JobIds /\ gone' \subseteq JobIds
    BY <1>10 DEF WriteStore, Lock
  <2>3. lock' \in Lock
    BY <1>10 DEF WriteStore, Lock
  <2>4. stale' \in BOOLEAN /\ back' \subseteq JobIds
    BY <1>10 DEF WriteStore
  <2> QED BY <1>10, <2>1, <2>2, <2>3, <2>4 DEF WriteStore
<1>21. CASE Return
  BY <1>21, EmptyTyped DEF Return, history, promises, damage
<1>22. CASE RemoveUnknown
  BY <1>22, MovedTyped DEF RemoveUnknown, history, promises, damage
<1>11. ASSUME NEW j \in JobIds, TimePasses(j) PROVE TypeOK'
  BY <1>11 DEF TimePasses, memory, history, promises, damage
<1>12. ASSUME NEW t \in Tasks, NEW j \in JobIds, Fire(t, j) \/ FireOrphan(t, j)
       PROVE  TypeOK'
  <2>1. workers' \in [Workers -> Worker]
    <3>1. Beginning("lookup", j, 0) \in Worker
      BY MaxJobsAssumption DEF Beginning, Worker, JobIds
    <3> QED BY <1>12, <3>1 DEF Fire, FireOrphan, StartTask, Workers
  <2>2. orphans' \in [JobIds -> 0..MaxOrphans]
    BY <1>12, MaxOrphansAssumption DEF Fire, FireOrphan
  <2> QED BY <1>12, <2>1, <2>2 DEF Fire, FireOrphan, history, promises, damage
<1>13. ASSUME NEW t \in Tasks, Lookup(t) PROVE TypeOK'
  <2>1. workers[t] \in Worker
    BY DEF Workers
  <2>2. /\ [workers[t] EXCEPT !.pc = "success"] \in Worker
        /\ [workers[t] EXCEPT !.pc = "publish", !.ptr = workers[t].job, !.live = TRUE]
              \in Worker
    BY <2>1 DEF Worker
  <2>3. workers' \in [Workers -> Worker]
    BY <1>13, <2>2 DEF Lookup, Workers
  <2> QED BY <1>13, <2>3 DEF Lookup, history, promises, damage
<1>14. ASSUME NEW w \in Workers, Publish(w) PROVE TypeOK'
  <2>1. workers' \in [Workers -> Worker]
    BY <1>14, StepTyped DEF Publish
  <2>2. runs' \in [JobIds -> 0..2]
    <3> DEFINE n == runs[workers[w].ptr]
    <3>1. workers[w].ptr \in JobIds
      BY <1>14 DEF Publish, At, Pointers, PointerOK
    <3>2. (IF n < 2 THEN n + 1 ELSE 2) \in 0..2
      BY <3>1
    <3> QED BY <1>14, <3>1, <3>2 DEF Publish
  <2> QED BY <1>14, <2>1, <2>2 DEF Publish, promises, damage
<1>15. ASSUME NEW w \in Workers, Update(w) PROVE TypeOK'
  <2>1. workers' \in [Workers -> Worker]
    <3>1. AfterUpdate(w) \in {"remove", "success", "save"}
      BY DEF AfterUpdate
    <3> QED BY <1>15, <3>1, StepTyped DEF Update
  <2>2. store' \in Store
    <3> DEFINE j == workers[w].ptr
               written == [store[j] EXCEPT !.ran = "ran",
                                           !.enabled = @ /\ kind[j] # "keep"]
    <3>1. CASE workers[w].live
      <4>1. store[j] \in Job
        BY <3>1, PresentIsJob DEF Pointers, PointerOK
      <4>2. written \in Job
        BY <4>1 DEF Job
      <4>3. store' = [store EXCEPT ![j] = written]
        BY <1>15, <3>1 DEF Update
      <4> QED BY <4>2, <4>3 DEF Store
    <3>2. CASE ~workers[w].live
      <4>1. store' = store
        BY <1>15, <3>2 DEF Update, Store
      <4> QED BY <4>1
    <3> QED BY <3>1, <3>2
  <2> QED BY <1>15, <2>1, <2>2 DEF Update, history, promises, damage
<1>16. ASSUME NEW w \in Workers, RemoveAfterRun(w) PROVE TypeOK'
  <2> DEFINE after == [workers EXCEPT ![w].pc =
                          IF w \in Tasks THEN "success" ELSE "save"]
  <2>1. after \in [Workers -> Worker]
    BY StepTyped
  <2>2. workers' \in [Workers -> Worker]
    BY <1>16, <2>1, MovedTyped DEF RemoveAfterRun
  <2>3. CASE store[workers[w].ptr] = NoJob
    BY <1>16, <2>2, <2>3 DEF RemoveAfterRun, damage
  <2>4. CASE store[workers[w].ptr] # NoJob
    <3>1. store' \in Store
      BY <1>16, <2>4 DEF RemoveAfterRun, Store
    <3>2. workers[w].ptr \in JobIds
      BY <1>16 DEF RemoveAfterRun, At, Pointers, PointerOK
    <3>3. lock' \in Lock
      <4>1. SaveStoreLocked(w, store', {}, {workers[w].ptr})
        BY <1>16, <2>4 DEF RemoveAfterRun
      <4> QED BY <3>1, <3>2, <4>1, SaveTyped
    <3> QED BY <1>16, <2>2, <2>4, <3>1, <3>2, <3>3 DEF RemoveAfterRun, Disarm, damage
  <2> QED BY <2>3, <2>4
<1>17. ASSUME NEW t \in Tasks, OnJobSuccess(t) PROVE TypeOK'
  <2>1. workers' \in [Workers -> Worker]
    BY <1>17, IdleTyped DEF OnJobSuccess
  <2>2. lock' \in Lock
    <3>1. SaveStoreLocked(t, store, {}, {}) \/ lock' = lock
      BY <1>17 DEF OnJobSuccess
    <3>2. t \in {Agent} \cup Workers
      BY DEF Workers
    <3>3. CASE SaveStoreLocked(t, store, {}, {})
      BY <3>2, <3>3, SaveTyped
    <3> QED BY <3>1, <3>3
  <2> QED BY <1>17, <2>1, <2>2 DEF OnJobSuccess, history, promises, damage
<1>18. ASSUME NEW r \in Runners,
              (\E j \in JobIds : RunJob(r, j)) \/ RunJobDeref(r) \/ RunJobSave(r)
       PROVE  TypeOK'
  <2>1. workers' \in [Workers -> Worker]
    <3>1. ASSUME NEW j \in JobIds, RunJob(r, j) PROVE workers' \in [Workers -> Worker]
      <4>1. Beginning("deref", j, Rank(store, j)) \in Worker
        BY RankTyped, MaxJobsAssumption DEF Beginning, Worker, JobIds
      <4> QED BY <3>1, <4>1 DEF RunJob, Workers
    <3>2. ASSUME RunJobDeref(r) PROVE workers' \in [Workers -> Worker]
      <4>1. PICK j \in Present(store) :
              \/ workers' = [workers EXCEPT ![r] =
                     [@ EXCEPT !.pc = "publish", !.ptr = j, !.live = TRUE]]
              \/ workers' = [workers EXCEPT ![r] = Idle]
        BY <3>2 DEF RunJobDeref
      <4>2. workers[r] \in Worker /\ j \in 0..MaxJobs
        BY MaxJobsAssumption DEF Workers, Present, JobIds
      <4>3. [workers[r] EXCEPT !.pc = "publish", !.ptr = j, !.live = TRUE] \in Worker
        BY <4>2 DEF Worker
      <4> QED BY <4>1, <4>3, IdleTyped DEF Workers
    <3>3. ASSUME RunJobSave(r) PROVE workers' \in [Workers -> Worker]
      BY <3>3, IdleTyped DEF RunJobSave
    <3> QED BY <1>18, <3>1, <3>2, <3>3
  <2>2. lock' \in Lock
    <3>1. CASE RunJobSave(r)
      BY <3>1 DEF RunJobSave, SaveStoreLocked, Lock, Workers
    <3>2. CASE ~RunJobSave(r)
      BY <1>18, <3>2 DEF RunJob, RunJobDeref
    <3> QED BY <3>1, <3>2
  <2> QED BY <1>18, <2>1, <2>2 DEF RunJob, RunJobDeref, RunJobSave, history, promises, damage
<1>19. ASSUME NEW r \in Runners, RunJobPanics(r) PROVE TypeOK'
  BY <1>19, DieTyped DEF RunJobPanics
<1>20. CASE UNCHANGED vars
  BY <1>20 DEF vars, memory, history, promises, damage
<1> QED
  BY <1>1, <1>2, <1>3, <1>4, <1>5, <1>6, <1>7, <1>8, <1>9, <1>10, <1>11, <1>12,
     <1>13, <1>14, <1>15, <1>16, <1>17, <1>18, <1>19, <1>20, <1>21, <1>22
     DEF Next, AgentNext, TaskNext, WorkerNext, RunnerNext, Workers

-----------------------------------------------------------------------------
(* Idle goroutines satisfy it whatever the store. *)
LEMMA IdlePointerOK == ASSUME NEW s PROVE PointerOK(Idle, s)
BY DEF Idle, Beginning, PointerOK

(* A goroutine whose pointer became stale satisfies it in every store. *)
LEMMA MovedPointers ==
    ASSUME NEW ws \in [Workers -> Worker], NEW s, NEW s2,
           \A w \in Workers : PointerOK(ws[w], s)
    PROVE  \A w \in Workers : PointerOK(Moved(ws)[w], s2)
<1> SUFFICES ASSUME NEW w \in Workers PROVE PointerOK(Moved(ws)[w], s2)
  OBVIOUS
<1>1. ws[w] \in Worker /\ Moved(ws)[w] = [ws[w] EXCEPT !.live = FALSE]
  BY DEF Moved
<1>2. /\ Moved(ws)[w].pc = ws[w].pc /\ Moved(ws)[w].job = ws[w].job
      /\ Moved(ws)[w].ptr = ws[w].ptr /\ Moved(ws)[w].live = FALSE
  BY <1>1 DEF Worker
<1> QED BY <1>2 DEF PointerOK

(* A store that keeps every job keeps the pointers. *)
LEMMA KeptPointers ==
    ASSUME Pointers, workers' = workers,
           \A j \in JobIds : store[j] # NoJob => store'[j] # NoJob
    PROVE  Pointers'
BY DEF Pointers, PointerOK

(* A step of one goroutine over a store that keeps every job. *)
LEMMA StepPointers ==
    ASSUME TypeOK, Pointers, NEW w \in Workers, NEW g,
           workers' = [workers EXCEPT ![w] = g], PointerOK(g, store'),
           \A j \in JobIds : store[j] # NoJob => store'[j] # NoJob
    PROVE  Pointers'
BY DEF TypeOK, Pointers, PointerOK

(* A goroutine at work shows that the process is up. *)
LEMMA WorkingIsUp ==
    ASSUME DownQuiet, NEW w \in Workers, workers[w].pc # "idle"
    PROVE  phase # "down"
BY DEF DownQuiet, Idle, Beginning

(* The pointers survive every step. *)
LEMMA PointersStep ==
    ASSUME TypeOK, TypeOK', Pointers, DownQuiet, [Next]_vars
    PROVE  Pointers' /\ DownQuiet'
<1> USE DEF TypeOK
<1>1. CASE Start \/ StartUnread
  <2>1. \A w \in Workers : workers'[w] = Idle
    BY <1>1 DEF Start, StartUnread, DownQuiet
  <2> QED BY <1>1, <2>1, IdlePointerOK DEF Start, StartUnread, Pointers, DownQuiet
<1>2. CASE StopShutdown \/ StopNil \/ StopDone
  BY <1>2, KeptPointers DEF StopShutdown, StopNil, StopDone, memory, DownQuiet
<1>3. CASE Die
  <2>1. \A w \in Workers : workers'[w] = Idle
    BY <1>3 DEF Die
  <2> QED BY <2>1, IdlePointerOK DEF Pointers, DownQuiet
<1>4. ASSUME NEW k \in Kinds, AddJob(k) PROVE Pointers' /\ DownQuiet'
  <2>1. phase' # "down"
    BY <1>4 DEF AddJob, Up
  <2>2. \A j \in JobIds : store[j] # NoJob => store'[j] # NoJob
    BY <1>4 DEF AddJob, Store, NewJob, NoJob
  <2>3. CASE workers' = workers
    BY <2>1, <2>2, <2>3, KeptPointers DEF DownQuiet
  <2>4. CASE workers' = Moved(workers)
    BY <2>1, <2>4, MovedPointers DEF Pointers, DownQuiet
  <2> QED BY <1>4, <2>3, <2>4 DEF AddJob, AppendMoves
<1>5. ASSUME NEW j \in JobIds, RemoveJob(j) PROVE Pointers' /\ DownQuiet'
  BY <1>5, MovedPointers DEF RemoveJob, Up, Pointers, DownQuiet
<1>6. ASSUME NEW j \in JobIds, EnableJob(j) \/ DisableJob(j) PROVE Pointers' /\ DownQuiet'
  <2>1. store'[j] # NoJob
    <3>1. store[j] \in Job
      BY <1>6, PresentIsJob DEF EnableJob, DisableJob
    <3> QED BY <1>6, <3>1 DEF EnableJob, DisableJob, Store, Job, NoJob
  <2>2. \A i \in JobIds : store[i] # NoJob => store'[i] # NoJob
    BY <1>6, <2>1 DEF EnableJob, DisableJob, Store
  <2> QED BY <1>6, <2>2, KeptPointers DEF EnableJob, DisableJob, Up, DownQuiet
<1>7. CASE WriteStore
  BY <1>7, KeptPointers DEF WriteStore, DownQuiet
<1>8. ASSUME NEW j \in JobIds, TimePasses(j) PROVE Pointers' /\ DownQuiet'
  BY <1>8, KeptPointers DEF TimePasses, memory, DownQuiet
<1>9. ASSUME NEW t \in Tasks, NEW j \in JobIds, Fire(t, j) \/ FireOrphan(t, j)
      PROVE  Pointers' /\ DownQuiet'
  <2>1. PointerOK(Beginning("lookup", j, 0), store')
    BY DEF Beginning, PointerOK
  <2> QED BY <1>9, <2>1, StepPointers DEF Fire, FireOrphan, StartTask, Due, Workers, DownQuiet
<1>10. ASSUME NEW t \in Tasks, Lookup(t) PROVE Pointers' /\ DownQuiet'
  <2> DEFINE j == workers[t].job
             found == [workers[t] EXCEPT !.pc = "publish", !.ptr = j, !.live = TRUE]
             missing == [workers[t] EXCEPT !.pc = "success"]
  <2>1. t \in Workers /\ workers[t] \in Worker /\ workers[t].pc = "lookup"
    BY <1>10 DEF Lookup, At, Workers
  <2>2. phase' # "down" /\ store' = store /\ j \in JobIds
    BY <1>10, <2>1, WorkingIsUp DEF Lookup, Pointers, PointerOK
  <2>3. CASE store[j] = NoJob
    <3>1. PointerOK(missing, store')
      <4>1. PointerOK(workers[t], store)
        BY <2>1 DEF Pointers
      <4> QED BY <2>1, <2>2, <4>1 DEF PointerOK, Worker
    <3>2. workers' = [workers EXCEPT ![t] = missing]
      BY <1>10, <2>3 DEF Lookup
    <3> QED BY <2>1, <2>2, <3>1, <3>2, StepPointers DEF DownQuiet
  <2>4. CASE store[j] # NoJob
    <3>1. PointerOK(found, store')
      BY <2>1, <2>2, <2>4 DEF PointerOK, Worker
    <3>2. workers' = [workers EXCEPT ![t] = found]
      BY <1>10, <2>4 DEF Lookup
    <3> QED BY <2>1, <2>2, <3>1, <3>2, StepPointers DEF DownQuiet
  <2> QED BY <2>3, <2>4
<1>11. ASSUME NEW w \in Workers, Publish(w) PROVE Pointers' /\ DownQuiet'
  <2> DEFINE g == [workers[w] EXCEPT !.pc = "update"]
  <2>1. workers[w] \in Worker /\ workers[w].pc = "publish" /\ PointerOK(workers[w], store)
    BY <1>11 DEF Publish, At, Pointers
  <2>2. phase' # "down" /\ store' = store
    BY <1>11, <2>1, WorkingIsUp DEF Publish
  <2>3. PointerOK(g, store')
    BY <2>1, <2>2 DEF PointerOK, Worker
  <2>4. workers' = [workers EXCEPT ![w] = g]
    BY <1>11 DEF Publish
  <2> QED BY <2>2, <2>3, <2>4, StepPointers DEF DownQuiet
<1>12. ASSUME NEW w \in Workers, Update(w) PROVE Pointers' /\ DownQuiet'
  <2> DEFINE g == [workers[w] EXCEPT !.pc = AfterUpdate(w)]
  <2>1. workers[w] \in Worker /\ workers[w].pc = "update" /\ PointerOK(workers[w], store)
    BY <1>12 DEF Update, At, Pointers
  <2>2. phase' # "down"
    BY <1>12, <2>1, WorkingIsUp DEF Update
  <2>3. \A j \in JobIds : store[j] # NoJob => store'[j] # NoJob
    <3>1. CASE workers[w].live
      <4> DEFINE p == workers[w].ptr
      <4>1. p \in JobIds /\ store[p] # NoJob
        BY <2>1, <3>1 DEF PointerOK
      <4>2. store[p] \in Job
        BY <4>1, PresentIsJob
      <4>3. store'[p].ran = "ran" /\ \A j \in JobIds \ {p} : store'[j] = store[j]
        BY <1>12, <3>1, <4>1, <4>2 DEF Update, Store, Job
      <4> QED BY <4>2, <4>3 DEF Job, NoJob
    <3>2. CASE ~workers[w].live
      BY <1>12, <3>2 DEF Update
    <3> QED BY <3>1, <3>2
  <2>4. PointerOK(g, store')
    <3>1. /\ g.job = workers[w].job /\ g.ptr = workers[w].ptr
          /\ g.live = workers[w].live
      BY <2>1 DEF Worker
    <3> QED BY <2>1, <2>3, <3>1 DEF PointerOK
  <2>5. workers' = [workers EXCEPT ![w] = g]
    BY <1>12 DEF Update
  <2> QED BY <2>2, <2>3, <2>4, <2>5, StepPointers DEF DownQuiet
<1>13. ASSUME NEW w \in Workers, RemoveAfterRun(w) PROVE Pointers' /\ DownQuiet'
  <2> DEFINE pc == IF w \in Tasks THEN "success" ELSE "save"
             g == [workers[w] EXCEPT !.pc = pc]
             after == [workers EXCEPT ![w].pc = pc]
  <2>1. workers[w] \in Worker /\ workers[w].pc = "remove" /\ PointerOK(workers[w], store)
    BY <1>13 DEF RemoveAfterRun, At, Pointers
  <2>2. phase' # "down"
    BY <1>13, <2>1, WorkingIsUp DEF RemoveAfterRun
  <2>3. PointerOK(g, store)
    BY <2>1 DEF PointerOK, Worker
  <2>4. after = [workers EXCEPT ![w] = g] /\ after \in [Workers -> Worker]
    BY StepTyped
  <2>5. \A v \in Workers : PointerOK(after[v], store)
    BY <2>3, <2>4 DEF Pointers
  <2>6. workers' = Moved(after)
    BY <1>13 DEF RemoveAfterRun
  <2> QED BY <2>2, <2>4, <2>5, <2>6, MovedPointers DEF Pointers, DownQuiet
<1>14. ASSUME NEW t \in Tasks, OnJobSuccess(t) PROVE Pointers' /\ DownQuiet'
  <2>1. t \in Workers /\ workers[t].pc = "success"
    BY <1>14 DEF OnJobSuccess, At, Workers
  <2>2. phase' # "down" /\ store' = store
    BY <1>14, <2>1, WorkingIsUp DEF OnJobSuccess
  <2>3. workers' = [workers EXCEPT ![t] = Idle]
    BY <1>14 DEF OnJobSuccess
  <2> QED BY <2>1, <2>2, <2>3, IdlePointerOK, StepPointers DEF DownQuiet
<1>15. ASSUME NEW r \in Runners,
              (\E j \in JobIds : RunJob(r, j)) \/ RunJobDeref(r) \/ RunJobSave(r)
       PROVE  Pointers' /\ DownQuiet'
  <2>1. r \in Workers /\ workers[r] \in Worker /\ store' = store
    BY <1>15 DEF RunJob, RunJobDeref, RunJobSave, Workers
  <2>2. phase' # "down"
    BY <1>15, <2>1, WorkingIsUp DEF RunJob, RunJobDeref, RunJobSave, At, Up
  <2>3. \A i \in JobIds : store[i] # NoJob => store'[i] # NoJob
    BY <2>1
  <2>4. PointerOK(Idle, store')
    BY IdlePointerOK
  <2> HIDE DEF TypeOK
  <2>5. ASSUME NEW j \in JobIds, RunJob(r, j) PROVE Pointers'
    <3>1. PointerOK(Beginning("deref", j, Rank(store, j)), store')
      BY DEF Beginning, PointerOK
    <3> QED BY <2>1, <2>5, <3>1, StepPointers DEF RunJob
  <2>6. CASE RunJobDeref(r)
    <3>1. PICK j \in Present(store) :
            \/ workers' = [workers EXCEPT ![r] =
                   [@ EXCEPT !.pc = "publish", !.ptr = j, !.live = TRUE]]
            \/ workers' = [workers EXCEPT ![r] = Idle]
      BY <2>6 DEF RunJobDeref
    <3> DEFINE g == [workers[r] EXCEPT !.pc = "publish", !.ptr = j, !.live = TRUE]
    <3>2. workers[r].job \in JobIds
      BY <2>1, <2>6 DEF RunJobDeref, At, Pointers, PointerOK
    <3>3. PointerOK(g, store')
      BY <2>1, <3>2 DEF PointerOK, Worker, Present
    <3>4. CASE workers' = [workers EXCEPT ![r] = g]
      BY <2>1, <2>2, <2>3, <3>3, <3>4, StepPointers DEF DownQuiet
    <3>5. CASE workers' = [workers EXCEPT ![r] = Idle]
      BY <2>1, <2>2, <2>3, <2>4, <3>5, StepPointers DEF DownQuiet
    <3> QED BY <3>1, <3>4, <3>5
  <2>7. CASE RunJobSave(r)
    <3>1. workers' = [workers EXCEPT ![r] = Idle]
      BY <2>7 DEF RunJobSave
    <3> QED BY <2>1, <2>2, <2>3, <2>4, <3>1, StepPointers DEF DownQuiet
  <2> QED BY <1>15, <2>2, <2>5, <2>6, <2>7 DEF DownQuiet
<1>16. CASE UNCHANGED vars
  BY <1>16 DEF vars, memory, Pointers, PointerOK, DownQuiet
<1>17. CASE Return
  BY <1>17, KeptPointers DEF Return, DownQuiet
<1>18. CASE RemoveUnknown
  BY <1>18, MovedPointers DEF RemoveUnknown, Up, Pointers, DownQuiet
<1> QED
  BY <1>1, <1>2, <1>3, <1>4, <1>5, <1>6, <1>7, <1>8, <1>9, <1>10, <1>11, <1>12,
     <1>13, <1>14, <1>15, <1>16, <1>17, <1>18
     DEF Next, AgentNext, TaskNext, WorkerNext, RunnerNext, Workers, Crash,
         SchedulePanics, RunJobPanics

(* Every reachable state of the service is well typed, whatever the number *)
(* of jobs, the kinds of job, the goroutines and the faults of the disk.   *)
THEOREM TypeCorrect == Spec => [](TypeOK /\ Pointers /\ DownQuiet)
<1>1. Init => TypeOK /\ Pointers /\ DownQuiet
  <2> SUFFICES ASSUME Init PROVE TypeOK /\ Pointers /\ DownQuiet
    OBVIOUS
  <2>1. TypeOK
    <3>1. nextId \in 1..(MaxJobs + 1) /\ orphans \in [JobIds -> 0..MaxOrphans]
      BY MaxJobsAssumption, MaxOrphansAssumption DEF Init
    <3>2. store \in Store /\ disk \in Store /\ lock \in Lock
      BY EmptyTyped DEF Init
    <3>3. workers \in [Workers -> Worker] /\ runs \in [JobIds -> 0..2]
      BY IdleTyped DEF Init
    <3> QED BY <3>1, <3>2, <3>3 DEF Init, TypeOK
  <2> QED BY <2>1, IdlePointerOK DEF Init, Pointers, DownQuiet
<1>2. TypeOK /\ Pointers /\ DownQuiet /\ [Next]_vars
        => (TypeOK /\ Pointers /\ DownQuiet)'
  BY TypeStep, PointersStep
<1> QED BY <1>1, <1>2, PTL DEF Spec
=============================================================================
