------------------------- MODULE CronTimersProofs -------------------------
(***************************************************************************)
(* What the timers and their tasks promise, for every number of jobs and   *)
(* goroutines and every fault of the file: an enabled job that gocron      *)
(* accepts has a timer; a one-time job publishes at most once, and a job   *)
(* that is not enabled has no timer, unless it was enabled while it had    *)
(* one (the finding DisableStopsTheJob); the service implements Reminders; *)
(* and file and memory agree while no fault is to be made good.            *)
(***************************************************************************)
EXTENDS CronStorageProofs

(* What the store says of a job after one of its fields was written.       *)
LEMMA FieldWrites ==
    ASSUME NEW s \in Store, NEW j \in JobIds, s[j] # NoJob, NEW b \in BOOLEAN
    PROVE  /\ [s[j] EXCEPT !.enabled = b].enabled = b
           /\ [s[j] EXCEPT !.ran = "ran", !.enabled = b].enabled = b
BY PresentIsJob DEF Job

(* A write through a pointer can only take the mark Enabled away, and only *)
(* from a job the pointer designates.                                      *)
LEMMA UpdateDisables ==
    ASSUME TypeOK, Pointers, NEW w \in Workers, Update(w)
    PROVE  \A j \in JobIds :
              \/ store'[j].enabled = store[j].enabled
              \/ workers[w].live /\ workers[w].ptr = j /\ kind[j] = "keep"
                 /\ store'[j].enabled = FALSE
<1> SUFFICES ASSUME NEW j \in JobIds
             PROVE  \/ store'[j].enabled = store[j].enabled
                    \/ workers[w].live /\ workers[w].ptr = j /\ kind[j] = "keep"
                       /\ store'[j].enabled = FALSE
  OBVIOUS
<1> DEFINE p == workers[w].ptr
           b == store[p].enabled /\ kind[p] # "keep"
           x == [store[p] EXCEPT !.ran = "ran", !.enabled = b]
<1>1. CASE workers[w].live
  <2>1. p \in JobIds /\ store[p] # NoJob
    BY <1>1 DEF Pointers, PointerOK
  <2>2. store[p] \in Job
    BY <2>1, PresentIsJob DEF TypeOK
  <2>3. b \in BOOLEAN
    BY <2>2 DEF Job
  <2>4. x.enabled = b
    BY <2>2, <2>3 DEF Job
  <2>5. store' = [store EXCEPT ![p] = x]
    BY <1>1 DEF Update
  <2>6. CASE p = j
    <3>1. store'[j].enabled = b
      BY <2>1, <2>4, <2>5, <2>6 DEF TypeOK, Store
    <3>2. CASE kind[p] = "keep"
      BY <1>1, <2>6, <3>1, <3>2
    <3>3. CASE kind[p] # "keep"
      BY <2>2, <2>6, <3>1, <3>3 DEF Job
    <3> QED BY <3>2, <3>3
  <2>7. CASE p # j
    BY <2>5, <2>7 DEF TypeOK, Store
  <2> QED BY <2>6, <2>7
<1>2. CASE ~workers[w].live
  BY <1>2 DEF Update
<1> QED BY <1>1, <1>2

(* EnableJob(id, b) writes Enabled of that job and of no other. *)
LEMMA EnableWrites ==
    ASSUME TypeOK, NEW j \in JobIds, store[j] # NoJob, NEW b \in BOOLEAN,
           store' = [store EXCEPT ![j].enabled = b]
    PROVE  /\ store'[j].enabled = b
           /\ \A i \in JobIds \ {j} : store'[i] = store[i]
<1>1. [store[j] EXCEPT !.enabled = b].enabled = b
  BY FieldWrites DEF TypeOK
<1> QED BY <1>1 DEF TypeOK, Store

-----------------------------------------------------------------------------
(* An enabled job has its timer *)

ScheduledJob(j) == store[j].enabled /\ Schedulable(j) => j \in armed

(* The property, said of every id: the absent job is not enabled. *)
LEMMA EveryJobScheduled ==
    EnabledIsScheduled <=> (phase = "running" => \A j \in JobIds : ScheduledJob(j))
BY NoJobNotEnabled DEF EnabledIsScheduled, ScheduledJob, Present

(* Start arms every enabled job gocron accepts. *)
LEMMA StartSchedules ==
    ASSUME TypeOK, Start \/ StartUnread
    PROVE  \A j \in JobIds : ScheduledJob(j)'
<1> SUFFICES ASSUME NEW j \in JobIds PROVE ScheduledJob(j)'
  OBVIOUS
<1>1. PICK s \in {disk, EmptyStore} : ScheduleAll(s) /\ UNCHANGED <<kind, past>>
  BY DEF Start, StartUnread
<1>2. Schedulable(j)' <=> Schedulable(j)
  BY <1>1 DEF Schedulable
<1> QED BY <1>1, <1>2 DEF ScheduleAll, ScheduledJob

(* No step takes the timer of an enabled job away. *)
LEMMA ScheduledStep ==
    ASSUME TypeOK, Pointers, EnabledIsScheduled, [Next]_vars
    PROVE  EnabledIsScheduled'
<1> SUFFICES ASSUME phase' = "running", NEW j \in JobIds PROVE ScheduledJob(j)'
  BY DEF EnabledIsScheduled, ScheduledJob, Present
<1> USE DEF TypeOK
<1>0. ASSUME phase = "running" PROVE ScheduledJob(j)
  BY <1>0, EveryJobScheduled
<1>1. CASE Start \/ StartUnread
  BY <1>1, StartSchedules
<1>2. CASE StopShutdown \/ StopNil \/ StopDone
  BY <1>2 DEF StopShutdown, StopNil, StopDone
<1>3. CASE Die
  BY <1>3 DEF Die
<1>4. ASSUME NEW k \in Kinds, AddJob(k) PROVE ScheduledJob(j)'
  <2>1. phase = "running"
    BY <1>4 DEF AddJob
  <2>2. CASE j = nextId
    BY <1>4, <2>1, <2>2 DEF AddJob, ScheduledJob
  <2>3. CASE j # nextId
    <3>1. store'[j] = store[j] /\ kind'[j] = kind[j] /\ past' = past /\ armed \subseteq armed'
      BY <1>4, <2>3 DEF AddJob, Store
    <3> QED BY <1>0, <2>1, <3>1 DEF ScheduledJob, Schedulable
  <2> QED BY <2>2, <2>3
<1>5. ASSUME NEW i \in JobIds, RemoveJob(i) PROVE ScheduledJob(j)'
  BY <1>0, <1>5, NoJobNotEnabled DEF RemoveJob, Disarm, ScheduledJob, Schedulable, Store
<1>6. ASSUME NEW i \in JobIds, EnableJob(i) PROVE ScheduledJob(j)'
  <2>1. phase = "running" /\ kind' = kind /\ past' = past /\ armed \subseteq armed'
    BY <1>6 DEF EnableJob, Reschedule
  <2>2. CASE i = j
    BY <1>6, <2>1, <2>2 DEF EnableJob, Reschedule, ScheduledJob, Schedulable
  <2>3. CASE i # j
    <3>1. store'[j] = store[j]
      BY <1>6, <2>3 DEF EnableJob, Store
    <3> QED BY <1>0, <2>1, <3>1 DEF ScheduledJob, Schedulable
  <2> QED BY <2>2, <2>3
<1>7. ASSUME NEW i \in JobIds, DisableJob(i) PROVE ScheduledJob(j)'
  <2>1. ~store'[i].enabled /\ \A n \in JobIds \ {i} : store'[n] = store[n]
    BY <1>7, EnableWrites DEF DisableJob
  <2> QED BY <1>0, <1>7, <2>1 DEF DisableJob, Disarm, ScheduledJob, Schedulable
<1>8. CASE WriteStore \/ Return \/ RemoveUnknown
  BY <1>0, <1>8 DEF WriteStore, Return, RemoveUnknown, ScheduledJob, Schedulable
<1>9. ASSUME NEW i \in JobIds, TimePasses(i) PROVE ScheduledJob(j)'
  BY <1>0, <1>9 DEF TimePasses, memory, ScheduledJob, Schedulable
<1>10. ASSUME NEW t \in Tasks, NEW i \in JobIds, Fire(t, i) \/ FireOrphan(t, i)
       PROVE  ScheduledJob(j)'
  <2>1. store' = store /\ kind' = kind /\ past' = past /\ phase = "running"
    BY <1>10 DEF Fire, FireOrphan
  <2>2. j \in armed /\ j \notin armed' => kind[j] \in AtKinds /\ j \in past
    BY <1>10 DEF Fire, FireOrphan, Due
  <2> QED BY <1>0, <2>1, <2>2 DEF ScheduledJob, Schedulable
<1>11. ASSUME NEW w \in Workers, Update(w) PROVE ScheduledJob(j)'
  <2>1. store'[j].enabled = store[j].enabled \/ store'[j].enabled = FALSE
    BY <1>11, UpdateDisables
  <2> QED BY <1>0, <1>11, <2>1 DEF Update, ScheduledJob, Schedulable
<1>12. ASSUME NEW w \in Workers, RemoveAfterRun(w) PROVE ScheduledJob(j)'
  <2>1. workers[w].ptr \in JobIds
    BY <1>12 DEF RemoveAfterRun, At, Pointers, PointerOK
  <2> QED BY <1>0, <1>12, <2>1, NoJobNotEnabled
          DEF RemoveAfterRun, Disarm, ScheduledJob, Schedulable, Store
<1>13. ASSUME NEW t \in Tasks, OnJobSuccess(t) PROVE ScheduledJob(j)'
  BY <1>0, <1>13 DEF OnJobSuccess, ScheduledJob, Schedulable
<1>14. ASSUME NEW w \in Workers,
              \/ Lookup(w) \/ Publish(w) \/ RunJobDeref(w) \/ RunJobSave(w)
              \/ \E i \in JobIds : RunJob(w, i)
       PROVE  ScheduledJob(j)'
  BY <1>0, <1>14
     DEF Lookup, Publish, RunJobDeref, RunJobSave, RunJob, ScheduledJob, Schedulable
<1>15. CASE UNCHANGED vars
  BY <1>0, <1>15 DEF vars, memory, ScheduledJob, Schedulable
<1> QED
  BY <1>1, <1>2, <1>3, <1>4, <1>5, <1>6, <1>7, <1>8, <1>9, <1>10, <1>11, <1>12,
     <1>13, <1>14, <1>15
     DEF Next, AgentNext, TaskNext, WorkerNext, RunnerNext, Workers, Crash,
         SchedulePanics, RunJobPanics

(* While the service runs, every enabled job that gocron accepts has a     *)
(* timer, whatever operations, runs, failed writes, deaths and restarts    *)
(* came before.                                                            *)
THEOREM EnabledHasATimer == Spec => []EnabledIsScheduled
<1>1. Init => EnabledIsScheduled
  BY DEF Init, EnabledIsScheduled
<1>2. TypeOK /\ Pointers /\ EnabledIsScheduled /\ [Next]_vars => EnabledIsScheduled'
  BY ScheduledStep
<1> QED BY <1>1, <1>2, TypeCorrect, PTL DEF Spec

-----------------------------------------------------------------------------
(* A one-time job publishes at most once *)

InFlight(t, j) == workers[t].pc # "idle" /\ workers[t].job = j

(* A one-time job that was not fired yet: its timer is there, or its time  *)
(* has not come and it may still get one.                                  *)
Unfired(j) == kind[j] \in AtKinds /\ (j \notin past \/ j \in armed)

(* An id that was not handed out is nowhere. *)
Absent == \A j \in JobIds : j >= nextId =>
    store[j] = NoJob /\ disk[j] = NoJob /\ lock.snap[j] = NoJob
Untimed == \A j \in JobIds : j >= nextId =>
    /\ j \notin armed /\ j \notin past /\ j \notin rearmed /\ runs[j] = 0
    /\ \A t \in Tasks : ~InFlight(t, j)

(* A one-time job has one task in its life, which runs after its timer is  *)
(* gone, and publishes while none was published.                           *)
Publishing(t) == workers[t].pc \in {"lookup", "publish"}
Once(j) ==
    /\ Unfired(j) => runs[j] = 0 /\ \A t \in Tasks : ~InFlight(t, j)
    /\ kind[j] \in AtKinds =>
          /\ runs[j] <= 1
          /\ \A t \in Tasks : InFlight(t, j) =>
                /\ Publishing(t) => runs[j] = 0
                /\ \A u \in Tasks : InFlight(u, j) => u = t

(* A task works on the job it was started for. *)
OwnPointer == \A t \in Tasks :
    /\ workers[t].pc # "deref" /\ workers[t].ptr \in {0, workers[t].job}
    /\ workers[t].pc \in {"publish", "update"} => workers[t].ptr = workers[t].job

(* Only a job that was enabled while it had a timer has a second one.      *)
OneTimer == \A j \in JobIds \ rearmed : orphans[j] = 0

OnceInv ==
    Absent /\ Untimed /\ OneTimer /\ OwnPointer /\ \A j \in JobIds \ rearmed : Once(j)

(* No step but AddJob makes a job of a new id. *)
LEMMA AbsentStep ==
    ASSUME TypeOK, TypeOK', Absent,
           \/ ReloadForm \/ DieForm \/ WriteStore \/ Return \/ QuietForm
           \/ \E A, R \in SUBSET JobIds : SaveForm(A, R)
    PROVE  Absent'
<1> USE DEF TypeOK
<1>1. CASE ReloadForm
  BY <1>1, EmptyAbsent DEF ReloadForm, Absent
<1>2. CASE DieForm
  BY <1>2, EmptyAbsent DEF DieForm, Absent
<1>3. CASE WriteStore
  <2>1. UNCHANGED <<store, nextId>> /\ lock'.snap = lock.snap
        /\ disk' \in {lock.snap, disk, EmptyStore}
    BY <1>3, WriteKeepsLock DEF WriteStore
  <2> QED BY <2>1, EmptyAbsent DEF Absent
<1>6. CASE Return
  BY <1>6, EmptyAbsent DEF Return, Absent
<1>4. CASE QuietForm
  BY <1>4 DEF QuietForm, SamePresence, Absent
<1>5. ASSUME NEW A \in SUBSET JobIds, NEW R \in SUBSET JobIds, SaveForm(A, R)
      PROVE  Absent'
  <2> SUFFICES ASSUME NEW j \in JobIds, j >= nextId'
               PROVE  store'[j] = NoJob /\ disk'[j] = NoJob /\ lock'.snap[j] = NoJob
    BY DEF Absent
  <2>1. j >= nextId /\ j \notin A
    BY <1>5, MaxJobsAssumption DEF SaveForm, JobIds
  <2> QED BY <1>5, <2>1 DEF SaveForm, Absent
<1> QED BY <1>1, <1>2, <1>3, <1>4, <1>5, <1>6

(* What a step may do to the timers and their tasks.  Nothing begins ...   *)
QuietTimers ==
    /\ \A t \in Tasks :
          \/ workers'[t].pc = "idle"
          \/ /\ workers[t].pc # "idle" /\ workers'[t].job = workers[t].job
             /\ Publishing(t)' => Publishing(t)
    /\ armed' \subseteq armed /\ past \subseteq past'
    /\ \A j \in past' \ past : j < nextId
    /\ \A j \in JobIds : orphans[j] = 0 => orphans'[j] = 0
    /\ UNCHANGED <<kind, nextId, rearmed, runs>>

(* ... or jobs that gocron accepts get a timer, a second one only if they  *)
(* are enabled while they have one ...                                     *)
ArmTimers ==
    /\ \A t \in Tasks : workers'[t].pc = workers[t].pc /\ workers'[t].job = workers[t].job
    /\ \A j \in armed' \ armed :
          j < nextId' /\ (kind'[j] \in AtKinds => j \notin past)
    /\ nextId <= nextId'
    /\ \A j \in JobIds \ {nextId} : kind'[j] = kind[j]
    /\ rearmed \subseteq rearmed' /\ \A j \in rearmed' \ rearmed : j < nextId
    /\ \A j \in JobIds \ rearmed' : orphans'[j] = orphans[j]
    /\ UNCHANGED <<past, runs>>

(* ... or a timer fires ...                                                *)
FireTimer(t, j) ==
    /\ j \in armed /\ (kind[j] \in AtKinds => j \in past /\ j \notin armed')
    /\ armed' \subseteq armed
    /\ workers' = [workers EXCEPT ![t] = Beginning("lookup", j, 0)]
    /\ UNCHANGED <<kind, nextId, past, orphans, rearmed, runs>>

(* ... or one that s.jobs forgot does ...                                  *)
FireForgotten(t, j) ==
    /\ j \in rearmed
    /\ \A i \in JobIds : orphans[i] = 0 => orphans'[i] = 0
    /\ workers' = [workers EXCEPT ![t] = Beginning("lookup", j, 0)]
    /\ UNCHANGED <<kind, nextId, past, armed, rearmed, runs>>

(* ... or a task publishes.                                                *)
PublishOnce(t) ==
    /\ workers[t].pc = "publish"
    /\ workers' = [workers EXCEPT ![t].pc = "update"]
    /\ runs' = [runs EXCEPT ![workers[t].ptr] = IF @ < 2 THEN @ + 1 ELSE 2]
    /\ UNCHANGED <<kind, nextId, past, armed, orphans, rearmed>>

TimerForm ==
    \/ QuietTimers \/ ArmTimers
    \/ \E t \in Tasks : \/ PublishOnce(t)
                      \/ \E j \in JobIds : FireTimer(t, j) \/ FireForgotten(t, j)

(* Moving the slice disturbs no task. *)
LEMMA MovedWork ==
    ASSUME NEW ws \in [Workers -> Worker], NEW w \in Workers
    PROVE  /\ Moved(ws)[w].pc = ws[w].pc /\ Moved(ws)[w].job = ws[w].job
           /\ Moved(ws)[w].ptr = ws[w].ptr
BY DEF Moved, Worker

(* A goroutine's own step, seen by the tasks. *)
LEMMA OneWorks ==
    ASSUME TypeOK, NEW w \in Workers, NEW g, workers' = [workers EXCEPT ![w] = g],
           \/ g.pc = "idle"
           \/ w \notin Tasks
           \/ /\ workers[w].pc # "idle" /\ g.job = workers[w].job
              /\ g.pc \in {"lookup", "publish"} => Publishing(w),
           armed' \subseteq armed, UNCHANGED <<kind, nextId, past, orphans, rearmed, runs>>
    PROVE  QuietTimers
BY DEF TypeOK, QuietTimers, Publishing, Workers

(* Every step has one of these forms. *)
LEMMA TimerForms ==
    ASSUME TypeOK, TypeOK', Pointers, Absent, Untimed, OneTimer, [Next]_vars
    PROVE  TimerForm
<1> USE DEF TypeOK
<1>1. CASE Start \/ StartUnread
  <2>1. \A j \in armed' : j < nextId /\ (kind[j] \in AtKinds => j \notin past)
    <3>1. PICK s \in {disk, EmptyStore} :
            armed' = {j \in JobIds : s[j].enabled /\ Schedulable(j)}
      BY <1>1 DEF Start, StartUnread, ScheduleAll
    <3>2. SUFFICES ASSUME NEW j \in JobIds, s[j].enabled, Schedulable(j)
                   PROVE  j < nextId /\ (kind[j] \in AtKinds => j \notin past)
      BY <3>1
    <3>3. s[j] # NoJob
      BY <3>2, NoJobNotEnabled
    <3>4. j \in Nat /\ nextId \in Nat
      BY MaxJobsAssumption DEF JobIds
    <3>5. j < nextId
      BY <3>3, <3>4, EmptyAbsent DEF Absent
    <3> QED BY <3>2, <3>5 DEF Schedulable
  <2>2. UNCHANGED <<nextId, kind, past, orphans, workers, rearmed, runs>>
    BY <1>1 DEF Start, StartUnread, history
  <2> QED BY <2>1, <2>2 DEF ArmTimers, TimerForm
<1>2. CASE StopShutdown \/ StopNil \/ StopDone
  BY <1>2 DEF StopShutdown, StopNil, StopDone, memory, history, QuietTimers, Publishing,
              TimerForm
<1>3. CASE Die
  <2>1. \A t \in Tasks : workers'[t].pc = "idle"
    BY <1>3 DEF Die, Idle, Beginning, Workers
  <2> QED BY <1>3, <2>1 DEF Die, QuietTimers, TimerForm
<1>4. ASSUME NEW k \in Kinds, AddJob(k) PROVE TimerForm
  <2>1. \A t \in Tasks : workers'[t].pc = workers[t].pc /\ workers'[t].job = workers[t].job
    <3>1. workers' = workers \/ workers' = Moved(workers)
      BY <1>4 DEF AddJob, AppendMoves
    <3>2. \A t \in Tasks : t \in Workers
      BY DEF Workers
    <3> QED BY <3>1, <3>2, MovedWork
  <2>2. nextId \in JobIds /\ nextId' = nextId + 1 /\ armed' \subseteq armed \cup {nextId}
    BY <1>4, MaxJobsAssumption DEF AddJob, JobIds
  <2>3. /\ UNCHANGED <<past, orphans, rearmed, runs>>
        /\ \A j \in JobIds \ {nextId} : kind'[j] = kind[j]
    BY <1>4 DEF AddJob, history
  <2>4. nextId \notin past
    BY <2>2 DEF Untimed
  <2> QED BY <2>1, <2>2, <2>3, <2>4, MaxJobsAssumption DEF ArmTimers, TimerForm, JobIds
<1>5. ASSUME NEW j \in JobIds, RemoveJob(j) PROVE TimerForm
  <2>1. \A t \in Tasks : workers'[t].pc = workers[t].pc /\ workers'[t].job = workers[t].job
    BY <1>5, MovedWork DEF RemoveJob, Workers
  <2> QED BY <1>5, <2>1 DEF RemoveJob, Disarm, QuietTimers, Publishing, TimerForm
<1>6. ASSUME NEW j \in JobIds, EnableJob(j) PROVE TimerForm
  <2>1. j < nextId
    BY <1>6, MaxJobsAssumption DEF EnableJob, Absent, JobIds
  <2>2. /\ rearmed' = rearmed \/ rearmed' = rearmed \cup {j}
        /\ \A i \in JobIds \ rearmed' : orphans'[i] = orphans[i]
    BY <1>6 DEF EnableJob, Reschedule
  <2>3. /\ armed' = armed \/ (armed' = armed \cup {j} /\ Schedulable(j))
        /\ UNCHANGED <<nextId, kind, past, workers, runs>>
    BY <1>6 DEF EnableJob, Reschedule
  <2> QED BY <2>1, <2>2, <2>3 DEF Schedulable, ArmTimers, TimerForm
<1>7. CASE WriteStore \/ Return \/ \E j \in JobIds : DisableJob(j) \/ TimePasses(j)
  BY <1>7 DEF WriteStore, Return, DisableJob, TimePasses, Disarm, memory, history,
              QuietTimers, Publishing, TimerForm
<1>17. CASE RemoveUnknown
  <2>1. \A t \in Tasks : workers'[t].pc = workers[t].pc /\ workers'[t].job = workers[t].job
    BY <1>17, MovedWork DEF RemoveUnknown, Workers
  <2> QED BY <1>17, <2>1 DEF RemoveUnknown, history, QuietTimers, Publishing, TimerForm
<1>8. ASSUME NEW t \in Tasks, NEW j \in JobIds, Fire(t, j) PROVE TimerForm
  BY <1>8 DEF Fire, StartTask, Due, FireTimer, TimerForm, history
<1>9. ASSUME NEW t \in Tasks, NEW j \in JobIds, FireOrphan(t, j) PROVE TimerForm
  <2>1. j \in rearmed
    BY <1>9 DEF FireOrphan, OneTimer
  <2>2. \A i \in JobIds : orphans[i] = 0 => orphans'[i] = 0
    BY <1>9 DEF FireOrphan
  <2> QED BY <1>9, <2>1, <2>2 DEF FireOrphan, StartTask, FireForgotten, TimerForm, history
<1>10. ASSUME NEW t \in Tasks, Lookup(t) PROVE QuietTimers
  <2> DEFINE missing == [workers[t] EXCEPT !.pc = "success"]
             found == [workers[t] EXCEPT !.pc = "publish", !.ptr = workers[t].job,
                                         !.live = TRUE]
  <2>1. t \in Workers /\ workers[t] \in Worker /\ workers[t].pc = "lookup"
    BY <1>10 DEF Lookup, At, Workers
  <2>2. missing.pc = "success" /\ missing.job = workers[t].job /\ found.job = workers[t].job
    BY <2>1 DEF Worker
  <2>3. PICK g \in {missing, found} : workers' = [workers EXCEPT ![t] = g]
    BY <1>10 DEF Lookup
  <2> QED BY <1>10, <2>1, <2>2, <2>3, OneWorks DEF Lookup, Publishing, history
<1>11. ASSUME NEW w \in Workers, Publish(w) PROVE TimerForm
  <2>1. CASE w \in Tasks
    BY <1>11, <2>1 DEF Publish, At, PublishOnce, TimerForm
  <2>2. CASE w \notin Tasks
    BY <1>11, <2>2, OneWorks DEF Publish, TimerForm
  <2> QED BY <2>1, <2>2
<1>12. ASSUME NEW w \in Workers, Update(w) PROVE QuietTimers
  <2> DEFINE g == [workers[w] EXCEPT !.pc = AfterUpdate(w)]
  <2>1. workers[w] \in Worker /\ workers[w].pc = "update"
    BY <1>12 DEF Update, At
  <2>2. g.job = workers[w].job /\ g.pc \notin {"lookup", "publish"}
    BY <2>1 DEF Worker, AfterUpdate
  <2> QED BY <1>12, <2>1, <2>2, OneWorks DEF Update, history
<1>13. ASSUME NEW w \in Workers, RemoveAfterRun(w) PROVE QuietTimers
  <2> DEFINE pc == IF w \in Tasks THEN "success" ELSE "save"
             after == [workers EXCEPT ![w].pc = pc]
  <2>1. workers[w].pc = "remove" /\ after \in [Workers -> Worker]
    BY <1>13, StepTyped DEF RemoveAfterRun, At
  <2>2. \A v \in Workers : after[v].job = workers[v].job
                           /\ after[v].pc = IF v = w THEN pc ELSE workers[v].pc
    BY DEF Worker
  <2>3. workers' = Moved(after)
    BY <1>13 DEF RemoveAfterRun
  <2>4. \A v \in Workers : workers'[v].job = workers[v].job
                           /\ workers'[v].pc = IF v = w THEN pc ELSE workers[v].pc
    <3>1. ASSUME NEW v \in Workers
          PROVE  workers'[v].job = after[v].job /\ workers'[v].pc = after[v].pc
      <4> HIDE DEF after
      <4> QED BY <2>1, <2>3, MovedWork
    <3> HIDE DEF after, pc
    <3> QED BY <2>2, <3>1
  <2>5. armed' \subseteq armed /\ UNCHANGED <<kind, nextId, past, orphans, rearmed, runs>>
    BY <1>13 DEF RemoveAfterRun, Disarm
  <2> QED BY <2>1, <2>4, <2>5 DEF QuietTimers, Publishing, Workers
<1>14. ASSUME NEW t \in Tasks, OnJobSuccess(t) PROVE QuietTimers
  BY <1>14, OneWorks DEF OnJobSuccess, Idle, Beginning, Workers, history
<1>15. ASSUME NEW r \in Runners,
              (\E j \in JobIds : RunJob(r, j)) \/ RunJobDeref(r) \/ RunJobSave(r)
       PROVE  QuietTimers
  <2>1. r \in Workers /\ r \notin Tasks
    BY WorkersAssumption DEF Workers
  <2>2. PICK g : workers' = [workers EXCEPT ![r] = g]
    BY <1>15 DEF RunJob, RunJobDeref, RunJobSave
  <2> QED BY <1>15, <2>1, <2>2, OneWorks DEF RunJob, RunJobDeref, RunJobSave, history
<1>16. CASE UNCHANGED vars
  BY <1>16 DEF vars, memory, history, QuietTimers, Publishing, TimerForm
<1> QED
  BY <1>1, <1>2, <1>3, <1>4, <1>5, <1>6, <1>7, <1>8, <1>9, <1>10, <1>11, <1>12,
     <1>13, <1>14, <1>15, <1>16, <1>17
     DEF Next, AgentNext, TaskNext, WorkerNext, RunnerNext, Workers, Crash,
         SchedulePanics, RunJobPanics, TimerForm

(* Firing, publishing and arming keep what is known of one-time jobs. *)
LEMMA OnceStep ==
    ASSUME TypeOK, TypeOK', OnceInv, TimerForm
    PROVE  Untimed' /\ OneTimer' /\ \A j \in JobIds \ rearmed' : Once(j)'
<1> USE DEF TypeOK
<1>0. \A j \in JobIds : j \in Nat
  BY MaxJobsAssumption DEF JobIds
<1>1. CASE QuietTimers
  <2>1. \A t \in Tasks, j \in JobIds : InFlight(t, j)' =>
           InFlight(t, j) /\ (Publishing(t)' => Publishing(t))
    BY <1>1 DEF QuietTimers, InFlight
  <2>2. \A j \in JobIds : Unfired(j)' => Unfired(j)
    BY <1>1 DEF QuietTimers, Unfired
  <2>3. UNCHANGED <<kind, nextId, rearmed, runs>> /\ armed' \subseteq armed
    BY <1>1 DEF QuietTimers
  <2>4. \A j \in JobIds : j >= nextId' => j \notin past'
    BY <1>0, <1>1 DEF QuietTimers, OnceInv, Untimed
  <2>5. Untimed'
    BY <2>1, <2>3, <2>4 DEF OnceInv, Untimed
  <2>6. \A j \in JobIds \ rearmed' : Once(j)'
    BY <2>1, <2>2, <2>3 DEF OnceInv, Once
  <2>7. OneTimer'
    BY <1>1, <2>3 DEF QuietTimers, OnceInv, OneTimer
  <2> QED BY <2>5, <2>6, <2>7
<1>2. CASE ArmTimers
  <2>1. \A t \in Tasks, j \in JobIds : /\ InFlight(t, j)' <=> InFlight(t, j)
                                       /\ Publishing(t)' <=> Publishing(t)
    BY <1>2 DEF ArmTimers, InFlight, Publishing
  <2>2. UNCHANGED <<past, runs>> /\ nextId <= nextId'
    BY <1>2 DEF ArmTimers
  <2>3. ASSUME NEW j \in JobIds, j >= nextId' PROVE j \notin armed' /\ j \notin rearmed'
    <3>1. j >= nextId
      BY <1>0, <2>2, <2>3
    <3> QED BY <1>0, <1>2, <2>3, <3>1 DEF ArmTimers, OnceInv, Untimed
  <2>4. Untimed'
    BY <1>0, <2>1, <2>2, <2>3 DEF OnceInv, Untimed
  <2>5. ASSUME NEW j \in JobIds \ rearmed' PROVE Once(j)'
    <3>0. j \in JobIds \ rearmed
      BY <1>2 DEF ArmTimers
    <3>1. CASE j = nextId
      <4>1. runs[j] = 0 /\ \A t \in Tasks : ~InFlight(t, j)
        BY <1>0, <3>0, <3>1 DEF OnceInv, Untimed
      <4> QED BY <2>1, <2>2, <4>1 DEF Once
    <3>2. CASE j # nextId
      <4>1. kind'[j] = kind[j]
        BY <1>2, <3>0, <3>2 DEF ArmTimers
      <4>2. Unfired(j)' => Unfired(j)
        BY <1>2, <2>2, <4>1 DEF ArmTimers, Unfired
      <4> QED BY <2>1, <2>2, <3>0, <4>1, <4>2 DEF OnceInv, Once
    <3> QED BY <3>1, <3>2
  <2>6. OneTimer'
    BY <1>2 DEF ArmTimers, OnceInv, OneTimer
  <2> QED BY <2>4, <2>5, <2>6
<1>3. ASSUME NEW t \in Tasks, NEW i \in JobIds, FireTimer(t, i)
      PROVE  Untimed' /\ OneTimer' /\ \A j \in JobIds \ rearmed' : Once(j)'
  <2>1. UNCHANGED <<kind, nextId, past, orphans, rearmed, runs>> /\ armed' \subseteq armed
    BY <1>3 DEF FireTimer
  <2>2. workers'[t].pc = "lookup" /\ workers'[t].job = i
    BY <1>3 DEF FireTimer, Beginning, Workers
  <2>3. \A u \in Tasks \ {t} : workers'[u] = workers[u]
    BY <1>3 DEF FireTimer, Workers
  <2>4. \A u \in Tasks, j \in JobIds : InFlight(u, j)' <=> IF u = t THEN j = i ELSE InFlight(u, j)
    BY <2>2, <2>3 DEF InFlight
  <2>5. i < nextId
    BY <1>0, <1>3 DEF FireTimer, OnceInv, Untimed
  <2>6. Untimed'
    BY <1>0, <2>1, <2>4, <2>5 DEF OnceInv, Untimed
  <2>7. ASSUME NEW j \in JobIds \ rearmed' PROVE Once(j)'
    <3>1. CASE j = i /\ kind[j] \in AtKinds
      <4>1. Unfired(j)
        BY <1>3, <3>1 DEF FireTimer, Unfired
      <4>2. runs[j] = 0 /\ \A u \in Tasks : ~InFlight(u, j)
        BY <2>1, <4>1 DEF OnceInv, Once
      <4>3. ~Unfired(j)'
        BY <1>3, <2>1, <3>1 DEF FireTimer, Unfired
      <4> QED BY <2>1, <2>4, <4>2, <4>3 DEF Once
    <3>2. CASE j # i
      <4>1. Unfired(j)' => Unfired(j)
        BY <2>1 DEF Unfired
      <4>2. \A u \in Tasks : InFlight(u, j)' =>
               InFlight(u, j) /\ (Publishing(u)' <=> Publishing(u))
        BY <2>3, <2>4, <3>2 DEF Publishing
      <4> QED BY <2>1, <4>1, <4>2 DEF OnceInv, Once
    <3>3. CASE kind[j] \notin AtKinds
      BY <2>1, <3>3 DEF Once, Unfired
    <3> QED BY <3>1, <3>2, <3>3
  <2>8. OneTimer'
    BY <2>1 DEF OnceInv, OneTimer
  <2> QED BY <2>6, <2>7, <2>8
<1>4. ASSUME NEW t \in Tasks, PublishOnce(t)
      PROVE  Untimed' /\ OneTimer' /\ \A j \in JobIds \ rearmed' : Once(j)'
  <2> DEFINE p == workers[t].ptr
  <2>1. UNCHANGED <<kind, nextId, past, armed, orphans, rearmed>>
    BY <1>4 DEF PublishOnce
  <2>2. t \in Workers /\ workers[t] \in Worker /\ workers[t].pc = "publish"
    BY <1>4 DEF PublishOnce, Workers
  <2>3. p = workers[t].job
    BY <2>2 DEF OnceInv, OwnPointer
  <2>4. /\ workers'[t].pc = "update" /\ workers'[t].job = p
        /\ \A u \in Tasks \ {t} : workers'[u] = workers[u]
    BY <1>4, <2>2, <2>3 DEF PublishOnce, Worker, Workers
  <2>5. \A u \in Tasks, j \in JobIds : /\ InFlight(u, j)' <=> InFlight(u, j)
                                       /\ Publishing(u)' => Publishing(u) /\ u # t
    BY <2>2, <2>3, <2>4 DEF InFlight, Publishing
  <2>6. \A j \in JobIds : InFlight(t, j) <=> j = p
    BY <2>2, <2>3 DEF InFlight
  <2>7. \A j \in JobIds : j # p => runs'[j] = runs[j]
    BY <1>4 DEF PublishOnce
  <2>8. Untimed'
    BY <2>1, <2>5, <2>6, <2>7 DEF OnceInv, Untimed
  <2>9. ASSUME NEW j \in JobIds \ rearmed' PROVE Once(j)'
    <3>1. Unfired(j)' <=> Unfired(j)
      BY <2>1 DEF Unfired
    <3>2. CASE j # p
      BY <2>1, <2>5, <2>7, <3>1, <3>2 DEF OnceInv, Once
    <3>3. CASE j = p /\ kind[j] \in AtKinds
      <4>1. InFlight(t, j)
        BY <2>6, <3>3
      <4>2. runs[j] = 0
        BY <2>1, <2>2, <3>3, <4>1 DEF OnceInv, Once, Publishing
      <4>3. runs'[j] = 1
        BY <1>4, <3>3, <4>2 DEF PublishOnce
      <4>4. ~Unfired(j)
        BY <2>1, <3>3, <4>1 DEF OnceInv, Once
      <4>5. \A u \in Tasks : InFlight(u, j) => u = t
        BY <2>1, <3>3, <4>1 DEF OnceInv, Once
      <4> QED BY <2>1, <2>5, <3>1, <4>3, <4>4, <4>5 DEF OnceInv, Once
    <3>4. CASE kind[j] \notin AtKinds
      BY <2>1, <3>4 DEF Once, Unfired
    <3> QED BY <3>2, <3>3, <3>4
  <2>10. OneTimer'
    BY <2>1 DEF OnceInv, OneTimer
  <2> QED BY <2>8, <2>9, <2>10
<1>5. ASSUME NEW t \in Tasks, NEW i \in JobIds, FireForgotten(t, i)
      PROVE  Untimed' /\ OneTimer' /\ \A j \in JobIds \ rearmed' : Once(j)'
  <2>1. UNCHANGED <<kind, nextId, past, armed, rearmed, runs>> /\ i \in rearmed
    BY <1>5 DEF FireForgotten
  <2>2. workers'[t].pc = "lookup" /\ workers'[t].job = i
    BY <1>5 DEF FireForgotten, Beginning, Workers
  <2>3. \A u \in Tasks \ {t} : workers'[u] = workers[u]
    BY <1>5 DEF FireForgotten, Workers
  <2>4. \A u \in Tasks, j \in JobIds : InFlight(u, j)' <=> IF u = t THEN j = i ELSE InFlight(u, j)
    BY <2>2, <2>3 DEF InFlight
  <2>5. i < nextId
    BY <1>0, <2>1 DEF OnceInv, Untimed
  <2>6. Untimed'
    BY <1>0, <2>1, <2>4, <2>5 DEF OnceInv, Untimed
  <2>7. ASSUME NEW j \in JobIds \ rearmed' PROVE Once(j)'
    <3>1. j # i /\ j \in JobIds \ rearmed
      BY <2>1
    <3>2. Unfired(j)' => Unfired(j)
      BY <2>1 DEF Unfired
    <3>3. \A u \in Tasks : InFlight(u, j)' =>
             InFlight(u, j) /\ (Publishing(u)' <=> Publishing(u))
      BY <2>3, <2>4, <3>1 DEF Publishing
    <3> QED BY <2>1, <3>1, <3>2, <3>3 DEF OnceInv, Once
  <2>8. OneTimer'
    BY <1>5 DEF FireForgotten, OnceInv, OneTimer
  <2> QED BY <2>6, <2>7, <2>8
<1> QED BY <1>1, <1>2, <1>3, <1>4, <1>5 DEF TimerForm

(* One goroutine's step keeps the tasks on their own jobs. *)
LEMMA OneOwns ==
    ASSUME TypeOK, OwnPointer, NEW w \in Workers, NEW g,
           workers' = [workers EXCEPT ![w] = g],
           w \in Tasks => /\ g.pc # "deref" /\ g.ptr \in {0, g.job}
                          /\ g.pc \in {"publish", "update"} => g.ptr = g.job
    PROVE  OwnPointer'
BY DEF TypeOK, OwnPointer, Workers

(* Moving the slice keeps the tasks on their own jobs. *)
LEMMA MovedOwns ==
    ASSUME TypeOK, OwnPointer, workers' = workers \/ workers' = Moved(workers)
    PROVE  OwnPointer'
<1>1. \A t \in Tasks : t \in Workers
  BY DEF Workers
<1>2. \A t \in Tasks : /\ workers'[t].pc = workers[t].pc /\ workers'[t].job = workers[t].job
                       /\ workers'[t].ptr = workers[t].ptr
  BY <1>1, MovedWork DEF TypeOK
<1> QED BY <1>2 DEF OwnPointer

(* Tasks stay on their own jobs. *)
LEMMA OwnPointerStep ==
    ASSUME TypeOK, OwnPointer, [Next]_vars
    PROVE  OwnPointer'
<1>1. CASE \/ Start \/ StartUnread \/ StopShutdown \/ StopNil \/ StopDone
           \/ WriteStore \/ Return \/ RemoveUnknown \/ UNCHANGED vars
  BY <1>1, MovedOwns
     DEF Start, StartUnread, StopShutdown, StopNil, StopDone, WriteStore, Return,
         RemoveUnknown, memory, vars
<1>2. CASE Die
  BY <1>2 DEF Die, OwnPointer, Idle, Beginning, Workers
<1>3. ASSUME \/ \E k \in Kinds : AddJob(k)
             \/ \E j \in JobIds : \/ RemoveJob(j) \/ EnableJob(j) \/ DisableJob(j)
                                  \/ TimePasses(j)
      PROVE  OwnPointer'
  BY <1>3, MovedOwns
     DEF AddJob, AppendMoves, RemoveJob, EnableJob, DisableJob, TimePasses, memory
<1>4. ASSUME NEW t \in Tasks, NEW j \in JobIds, Fire(t, j) \/ FireOrphan(t, j)
      PROVE  OwnPointer'
  BY <1>4, OneOwns DEF Fire, FireOrphan, StartTask, Beginning, Workers
<1>5. ASSUME NEW t \in Tasks, Lookup(t) PROVE OwnPointer'
  <2> DEFINE missing == [workers[t] EXCEPT !.pc = "success"]
             found == [workers[t] EXCEPT !.pc = "publish", !.ptr = workers[t].job,
                                         !.live = TRUE]
  <2>1. t \in Workers /\ workers[t] \in Worker
    BY DEF Workers, TypeOK
  <2>2. /\ missing.pc = "success" /\ missing.ptr \in {0, missing.job}
        /\ found.pc = "publish" /\ found.ptr = found.job
    BY <1>5, <2>1 DEF Worker, OwnPointer
  <2>3. PICK g \in {missing, found} : workers' = [workers EXCEPT ![t] = g]
    BY <1>5 DEF Lookup
  <2> QED BY <2>1, <2>2, <2>3, OneOwns
<1>6. ASSUME NEW w \in Workers, Publish(w) \/ Update(w) PROVE OwnPointer'
  <2>1. workers[w] \in Worker
    BY DEF TypeOK
  <2>2. PICK pc \in {"update", "remove", "success", "save"} :
          workers' = [workers EXCEPT ![w] = [workers[w] EXCEPT !.pc = pc]]
    BY <1>6 DEF Publish, Update, AfterUpdate
  <2> DEFINE g == [workers[w] EXCEPT !.pc = pc]
  <2>3. g.pc = pc /\ g.ptr = workers[w].ptr /\ g.job = workers[w].job
    BY <2>1 DEF Worker
  <2>4. w \in Tasks => workers[w].ptr = workers[w].job
    BY <1>6 DEF Publish, Update, At, OwnPointer
  <2> QED BY <2>2, <2>3, <2>4, OneOwns
<1>7. ASSUME NEW w \in Workers, RemoveAfterRun(w) PROVE OwnPointer'
  <2> DEFINE pc == IF w \in Tasks THEN "success" ELSE "save"
             after == [workers EXCEPT ![w].pc = pc]
  <2>1. after \in [Workers -> Worker]
    BY StepTyped DEF TypeOK
  <2>2. \A v \in Workers : /\ after[v].job = workers[v].job /\ after[v].ptr = workers[v].ptr
                           /\ after[v].pc = IF v = w THEN pc ELSE workers[v].pc
    BY DEF TypeOK, Worker
  <2>3. workers' = Moved(after)
    BY <1>7 DEF RemoveAfterRun
  <2>4. ASSUME NEW v \in Workers
        PROVE  workers'[v].pc = after[v].pc /\ workers'[v].job = after[v].job
               /\ workers'[v].ptr = after[v].ptr
    <3> HIDE DEF after
    <3> QED BY <2>1, <2>3, MovedWork
  <2>5. \A t \in Tasks : t \in Workers
    BY DEF Workers
  <2> HIDE DEF after
  <2> QED BY <2>2, <2>4, <2>5 DEF OwnPointer
<1>8. ASSUME NEW t \in Tasks, OnJobSuccess(t) PROVE OwnPointer'
  BY <1>8, OneOwns DEF OnJobSuccess, Idle, Beginning, Workers
<1>9. ASSUME NEW r \in Runners,
             (\E j \in JobIds : RunJob(r, j)) \/ RunJobDeref(r) \/ RunJobSave(r)
      PROVE  OwnPointer'
  <2>1. r \in Workers /\ r \notin Tasks
    BY WorkersAssumption DEF Workers
  <2>2. PICK g : workers' = [workers EXCEPT ![r] = g]
    BY <1>9 DEF RunJob, RunJobDeref, RunJobSave
  <2> QED BY <2>1, <2>2, OneOwns
<1> QED
  BY <1>1, <1>2, <1>3, <1>4, <1>5, <1>6, <1>7, <1>8, <1>9
     DEF Next, AgentNext, TaskNext, WorkerNext, RunnerNext, Workers, Crash,
         SchedulePanics, RunJobPanics

(* Nothing is known of any job in the beginning. *)
LEMMA OnceInit == Init => OnceInv
BY EmptyAbsent DEF Init, OnceInv, Absent, Untimed, OneTimer, OwnPointer, Once, InFlight,
                   Idle, Beginning, Workers

(* The inductive invariant is kept. *)
LEMMA OnceInvStep ==
    ASSUME TypeInv, TypeInv', OnceInv, [Next]_vars
    PROVE  OnceInv'
BY StepForms, AbsentStep, TimerForms, OnceStep, OwnPointerStep DEF TypeInv, OnceInv

(* The timers of a one-time job publish its message at most once, through  *)
(* deaths of the process between the publication and the removal of the    *)
(* job from the file, unless it was enabled while it had a timer.          *)
THEOREM OneTimePublishesOnce == Spec => []AtRunsOnce
<1>1. TypeInv /\ TypeInv' /\ OnceInv /\ [Next]_vars => OnceInv'
  BY OnceInvStep
<1>2. OnceInv => AtRunsOnce
  BY DEF OnceInv, Once, AtRunsOnce
<1>3. Spec => []TypeInv
  BY TypeCorrect DEF TypeInv
<1> QED BY <1>1, <1>2, <1>3, OnceInit, PTL DEF Spec

-----------------------------------------------------------------------------
(* A job that is not enabled has no timer *)

Quiet(j) == j \notin rearmed /\ ~store[j].enabled => j \notin armed

(* The write of a task that disables a kept one-time job comes after its   *)
(* timer fired, and gocron accepts no new one.                             *)
LEMMA QuietStep ==
    ASSUME Runners = {}, TypeOK, Pointers, OnceInv,
           \A i \in JobIds : Quiet(i), [Next]_vars, NEW j \in JobIds
    PROVE  Quiet(j)'
<1> USE DEF TypeOK
<1>1. CASE Start \/ StartUnread
  BY <1>1 DEF Start, StartUnread, ScheduleAll, Quiet
<1>2. CASE \/ StopShutdown \/ StopNil \/ StopDone \/ WriteStore \/ Return
           \/ RemoveUnknown \/ UNCHANGED vars
  BY <1>2 DEF StopShutdown, StopNil, StopDone, WriteStore, Return, RemoveUnknown, memory,
              history, vars, Quiet
<1>3. CASE Die
  BY <1>3 DEF Die, Quiet
<1>4. ASSUME NEW k \in Kinds, AddJob(k) PROVE Quiet(j)'
  <2>1. CASE j = nextId
    BY <1>4, <2>1 DEF AddJob, NewJob, Quiet, Store
  <2>2. CASE j # nextId
    BY <1>4, <2>2 DEF AddJob, history, Quiet, Store
  <2> QED BY <2>1, <2>2
<1>5. ASSUME NEW i \in JobIds, RemoveJob(i) PROVE Quiet(j)'
  BY <1>5 DEF RemoveJob, Disarm, Quiet, Store
<1>6. ASSUME NEW i \in JobIds, EnableJob(i) PROVE Quiet(j)'
  <2>1. store'[i].enabled /\ \A n \in JobIds \ {i} : store'[n] = store[n]
    BY <1>6, EnableWrites DEF EnableJob
  <2>2. armed' \subseteq armed \cup {i} /\ rearmed \subseteq rearmed'
    BY <1>6 DEF EnableJob, Reschedule
  <2> QED BY <2>1, <2>2 DEF Quiet
<1>7. ASSUME NEW i \in JobIds, DisableJob(i) PROVE Quiet(j)'
  <2>1. \A n \in JobIds \ {i} : store'[n] = store[n]
    BY <1>7, EnableWrites DEF DisableJob
  <2> QED BY <1>7, <2>1 DEF DisableJob, Disarm, history, Quiet
<1>8. ASSUME NEW i \in JobIds, TimePasses(i) PROVE Quiet(j)'
  BY <1>8 DEF TimePasses, memory, history, Quiet
<1>9. ASSUME NEW t \in Tasks,
             \/ Lookup(t) \/ Publish(t)
             \/ \E i \in JobIds : Fire(t, i) \/ FireOrphan(t, i)
      PROVE  Quiet(j)'
  BY <1>9 DEF Lookup, Publish, Fire, FireOrphan, history, Quiet
<1>10. ASSUME NEW t \in Tasks, Update(t) PROVE Quiet(j)'
  <2>1. UNCHANGED <<armed, rearmed>> /\ t \in Workers /\ workers[t].pc = "update"
    BY <1>10 DEF Update, At, Workers, history
  <2>2. CASE store'[j].enabled = store[j].enabled
    BY <2>1, <2>2 DEF Quiet
  <2>3. CASE workers[t].ptr = j /\ kind[j] = "keep"
    <3> SUFFICES ASSUME j \notin rearmed PROVE j \notin armed
      BY <2>1 DEF Quiet
    <3>1. InFlight(t, j)
      BY <2>1, <2>3 DEF OnceInv, OwnPointer, InFlight
    <3>2. ~Unfired(j)
      BY <3>1 DEF OnceInv, Once
    <3> QED BY <2>3, <3>2 DEF Unfired, AtKinds
  <2> QED BY <1>10, <2>1, <2>2, <2>3, UpdateDisables
<1>11. ASSUME NEW t \in Tasks, RemoveAfterRun(t) PROVE Quiet(j)'
  <2>1. workers[t].ptr \in JobIds
    BY <1>11 DEF RemoveAfterRun, At, Pointers, PointerOK, Workers
  <2> QED BY <1>11, <2>1 DEF RemoveAfterRun, Disarm, Quiet, Store
<1>12. ASSUME NEW t \in Tasks, OnJobSuccess(t) PROVE Quiet(j)'
  BY <1>12 DEF OnJobSuccess, history, Quiet
<1> QED
  BY <1>1, <1>2, <1>3, <1>4, <1>5, <1>6, <1>7, <1>8, <1>9, <1>10, <1>11, <1>12
     DEF Next, AgentNext, TaskNext, WorkerNext, RunnerNext, Crash, SchedulePanics,
         RunJobPanics

(* A job that is disabled or removed has no timer that could still fire,   *)
(* when nobody calls RunJob (nothing in the repository does); unless it was *)
(* enabled while it had one.                                               *)
THEOREM DisabledHasNoTimer ==
    ASSUME Runners = {}
    PROVE  Spec => []DisabledNotArmed
<1> DEFINE AllQuiet == \A j \in JobIds : Quiet(j)
<1>1. Init => AllQuiet
  BY DEF Init, Quiet
<1>2. TypeInv /\ TypeInv' /\ OnceInv /\ [Next]_vars => OnceInv'
  BY OnceInvStep
<1>3. TypeInv /\ OnceInv /\ AllQuiet /\ [Next]_vars => AllQuiet'
  BY QuietStep DEF TypeInv
<1>4. OnceInv /\ AllQuiet => DisabledNotArmed
  BY DEF OnceInv, OneTimer, Quiet, DisabledNotArmed
<1>5. Spec => []TypeInv
  BY TypeCorrect DEF TypeInv
<1> HIDE DEF AllQuiet
<1> QED BY <1>1, <1>2, <1>3, <1>4, <1>5, OnceInit, PTL DEF Spec

-----------------------------------------------------------------------------
(* The service implements Reminders *)

(* Removed for good: gone, and no failed write brought it back. *)
Removed == gone \ back

(* What the history says of jobs: only an accepted job, or the one about   *)
(* to be accepted, is in memory, in the file or in the bytes about to be   *)
(* written; a removal is of an accepted job that is not removed; and as    *)
(* long as no write fails, no removed job is in the file.                  *)
LedgerInv ==
    /\ \A j \in accepted \cup lock.adds : j < nextId
    /\ \A j \in JobIds :
          /\ store[j] # NoJob => j \in accepted \cup lock.adds
          /\ lock.snap[j] # NoJob => j \in accepted \cup lock.adds
          /\ disk[j] # NoJob => j \in accepted
    /\ Pending => lock.adds \cap accepted = {} /\ lock.removes \cap Removed = {}
    /\ lock.removes \subseteq accepted /\ gone \subseteq accepted
    /\ \/ lock.adds = {} /\ lock.removes = {}
       \/ \E r : lock.adds = {r} /\ lock.removes = {}
       \/ \E r : lock.adds = {} /\ lock.removes = {r}
    /\ lock # Free /\ lock.written => lock.adds \subseteq accepted
    /\ "error" \notin DiskFaults => \A j \in Removed : disk[j] = NoJob

LEMMA LedgerStep ==
    ASSUME TypeOK, TypeOK', GoneInv, LedgerInv,
           \/ ReloadForm \/ DieForm \/ WriteStore \/ Return \/ QuietForm
           \/ \E A, R \in SUBSET JobIds : SaveForm(A, R)
    PROVE  LedgerInv'
<1> USE DEF TypeOK
<1>1. CASE ReloadForm
  <2>1. lock = Free /\ lock' = Free
    BY <1>1 DEF ReloadForm, GoneInv, DownSettled
  <2>2. UNCHANGED <<disk, nextId, accepted, gone, back>>
    BY <1>1 DEF ReloadForm, promises
  <2>3. \A j \in JobIds : store'[j] # NoJob => disk[j] # NoJob
    BY <1>1, EmptyAbsent DEF ReloadForm
  <2> QED BY <2>1, <2>2, <2>3, EmptyAbsent DEF LedgerInv, Pending, Removed
<1>2. CASE DieForm
  <2>1. /\ store' = EmptyStore /\ lock' = Free /\ UNCHANGED <<nextId, accepted, gone>>
        /\ disk' = disk \/ disk' = EmptyStore
    BY <1>2 DEF DieForm, promises
  <2>2. Removed' \subseteq Removed
    BY <1>2 DEF DieForm, promises, Removed
  <2>3. \A j \in JobIds : disk'[j] # NoJob => disk[j] # NoJob
    BY <2>1, EmptyAbsent
  <2>4. "error" \notin DiskFaults => \A j \in Removed' : disk'[j] = NoJob
    BY <2>2, <2>3 DEF LedgerInv, Removed
  <2> QED BY <2>1, <2>3, <2>4, EmptyAbsent DEF LedgerInv, Pending
<1>3. CASE WriteStore
  <2>1. /\ accepted' = accepted \cup lock.adds /\ gone' = gone \cup lock.removes
        /\ UNCHANGED <<store, nextId>> /\ Pending
        /\ disk' \in {lock.snap, disk, EmptyStore}
    BY <1>3 DEF WriteStore, Pending
  <2>2. /\ lock'.snap = lock.snap /\ lock'.adds = lock.adds
        /\ lock'.removes = lock.removes /\ lock'.written
    BY <1>3, WriteKeepsLock
  <2>3. "error" \notin DiskFaults => \A j \in Removed' : disk'[j] = NoJob
    <3> SUFFICES ASSUME "error" \notin DiskFaults, NEW j \in Removed' PROVE disk'[j] = NoJob
      OBVIOUS
    <3>1. disk' = lock.snap /\ back' = back \ lock.removes
      BY <1>3 DEF WriteStore
    <3>2. j \in Removed \/ j \in lock.removes
      BY <2>1, <3>1 DEF Removed
    <3> QED BY <2>1, <3>1, <3>2 DEF GoneInv, Removed
  <2>4. \A j \in JobIds : disk'[j] # NoJob => j \in accepted'
    BY <2>1, EmptyAbsent DEF LedgerInv
  <2> QED BY <2>1, <2>2, <2>3, <2>4 DEF LedgerInv, Pending
<1>4. CASE QuietForm
  <2>1. UNCHANGED <<disk, lock, nextId, accepted, gone, back>>
    BY <1>4 DEF QuietForm, promises, damage
  <2>2. \A j \in JobIds : store'[j] = NoJob <=> store[j] = NoJob
    BY <1>4 DEF QuietForm, SamePresence
  <2> QED BY <2>1, <2>2 DEF LedgerInv, Pending, Removed
<1>5. ASSUME NEW A \in SUBSET JobIds, NEW R \in SUBSET JobIds, SaveForm(A, R)
      PROVE  LedgerInv'
  <2>1. /\ lock.adds = {} /\ lock.removes = {}
        /\ lock'.snap = store' /\ lock'.adds = A /\ lock'.removes = R
        /\ UNCHANGED <<disk, accepted, gone, back>>
    BY <1>5, EmptyAbsent DEF SaveForm, damage
  <2>2. \A j \in JobIds : store[j] # NoJob => j \in accepted \ Removed
    BY <2>1 DEF LedgerInv, GoneInv, Removed
  <2>3. \A j \in JobIds : store'[j] # NoJob => j \in accepted \cup A
    BY <1>5, <2>2 DEF SaveForm
  <2>4. R \subseteq accepted \ Removed
    BY <1>5, <2>2 DEF SaveForm
  <2>5. nextId' >= nextId /\ (\A j \in A : j = nextId /\ j < nextId') /\ A \cap accepted = {}
    BY <1>5, <2>1, MaxJobsAssumption DEF SaveForm, LedgerInv, JobIds
  <2>6. \A j \in accepted \cup A : j < nextId'
    BY <2>1, <2>5, MaxJobsAssumption DEF LedgerInv, JobIds
  <2>7. \/ A = {} /\ R = {}
        \/ \E r : A = {r} /\ R = {}
        \/ \E r : A = {} /\ R = {r}
    BY <1>5 DEF SaveForm
  <2>8. Removed' = Removed /\ ~lock'.written
    BY <1>5, <2>1 DEF Removed, SaveForm
  <2> QED BY <2>1, <2>3, <2>4, <2>5, <2>6, <2>7, <2>8 DEF LedgerInv, Pending
<1>6. CASE Return
  <2>1. lock' = Free /\ UNCHANGED <<store, disk, nextId, accepted, gone, back>>
    BY <1>6 DEF Return, history, promises, damage
  <2>2. lock # Free /\ lock.written
    BY <1>6, EmptyAbsent DEF Return
  <2>3. lock.adds \subseteq accepted
    BY <2>2 DEF LedgerInv
  <2> QED BY <2>1, <2>3, EmptyAbsent DEF LedgerInv, Pending, Removed
<1> QED BY <1>1, <1>2, <1>3, <1>4, <1>5, <1>6

(* A step that leaves the ledger and the runs about to publish alone is a  *)
(* stutter.                                                                *)
LEMMA Stutters ==
    ASSUME UNCHANGED <<accepted, gone, back, rearmed, runs>>,
           \A j \in accepted : kind'[j] = kind[j],
           \A t \in Tasks : PublishedNext(t)' = PublishedNext(t)
    PROVE  UNCHANGED Abstract!vars
BY DEF Abstract!vars

(* A goroutine that neither was about to publish nor is now.               *)
LEMMA OtherWork ==
    ASSUME TypeOK, NEW w \in Workers, NEW g, workers' = [workers EXCEPT ![w] = g],
           w \in Tasks => workers[w].pc # "publish" /\ g.pc # "publish"
    PROVE  \A t \in Tasks : PublishedNext(t)' = PublishedNext(t)
BY DEF TypeOK, PublishedNext, Workers

(* Every step of the service is one of Reminders, or a stutter.            *)
LEMMA ReminderStep ==
    ASSUME TypeOK, TypeOK', Pointers, GoneInv, LedgerInv, OwnPointer,
           \A j \in JobIds \ rearmed : Once(j), [Next]_vars
    PROVE  [Abstract!Next]_Abstract!vars
<1> USE DEF TypeOK
<1>k. accepted \subseteq JobIds /\ Tasks \subseteq Workers /\ 0 \notin JobIds
  BY MaxJobsAssumption DEF JobIds, Workers
<1>1. CASE Start \/ StartUnread \/ StopShutdown \/ StopNil \/ StopDone \/ Return \/ UNCHANGED vars
  BY <1>1, Stutters
     DEF Start, StartUnread, StopShutdown, StopNil, StopDone, Return, PublishedNext, memory,
         history, promises, damage, vars
<1>2. CASE Die /\ (disk' = disk \/ disk' = EmptyStore)
  <2>1. \A t \in Tasks : PublishedNext(t)' = 0
    BY <1>2, <1>k DEF Die, Idle, Beginning, PublishedNext
  <2>2. UNCHANGED <<kind, accepted, gone, rearmed, runs>>
    BY <1>2 DEF Die, promises
  <2>3. Removed' \in IF "error" \in DiskFaults THEN SUBSET Removed ELSE {Removed}
    <3>1. Removed' \subseteq Removed
      BY <1>2 DEF Die, promises, Removed
    <3>2. ASSUME "error" \notin DiskFaults, NEW j \in Removed PROVE j \in Removed'
      <4>1. DieForm
        BY <1>2 DEF DieForm, Die
      <4>2. disk'[j] = NoJob
        <5>1. j \in JobIds /\ disk[j] = NoJob
          BY <3>2 DEF LedgerInv, Removed
        <5> QED BY <1>2, <5>1, EmptyAbsent
      <4>3. j \in gone /\ j \notin back
        BY <3>2 DEF Removed
      <4>4. j \notin back'
        <5>1. back' = back \/ back' = back \cup {i \in gone : disk'[i] # NoJob}
          BY <4>1 DEF DieForm
        <5> QED BY <4>2, <4>3, <5>1
      <4> QED BY <2>2, <4>3, <4>4 DEF Removed
    <3>3. CASE "error" \in DiskFaults
      BY <3>1, <3>3
    <3>4. CASE "error" \notin DiskFaults
      <4>1. Removed' = Removed
        BY <3>1, <3>2, <3>4
      <4> QED BY <3>4, <4>1
    <3> QED BY <3>3, <3>4
  <2>4. Abstract!Interrupt
    BY <2>1, <2>2, <2>3 DEF Removed, Abstract!Interrupt
  <2> QED BY <2>4 DEF Abstract!Next
<1>3. ASSUME NEW k \in Kinds, AddJob(k) PROVE UNCHANGED Abstract!vars
  <2>1. workers' = workers \/ workers' = Moved(workers)
    BY <1>3 DEF AddJob, AppendMoves
  <2>2. \A t \in Tasks : PublishedNext(t)' = PublishedNext(t)
    BY <1>k, <2>1, MovedWork DEF PublishedNext
  <2>3. \A j \in accepted : j \in JobIds /\ j # nextId
    BY <1>k, MaxJobsAssumption DEF LedgerInv, JobIds
  <2>4. UNCHANGED <<accepted, gone, back, rearmed, runs>> /\ \A j \in accepted : kind'[j] = kind[j]
    BY <1>3, <2>3 DEF AddJob, history, promises, damage
  <2> QED BY <2>2, <2>4, Stutters
<1>4. ASSUME NEW j \in JobIds, RemoveJob(j) PROVE UNCHANGED Abstract!vars
  <2>1. \A t \in Tasks : PublishedNext(t)' = PublishedNext(t)
    BY <1>4, <1>k, MovedWork DEF RemoveJob, PublishedNext
  <2> QED BY <1>4, <2>1, Stutters DEF RemoveJob, damage
<1>5. ASSUME NEW j \in JobIds, DisableJob(j) \/ TimePasses(j)
      PROVE  UNCHANGED Abstract!vars
  BY <1>5, Stutters DEF DisableJob, TimePasses, PublishedNext, memory, history, promises, damage
<1>15. ASSUME NEW j \in JobIds, EnableJob(j)
       PROVE  UNCHANGED Abstract!vars \/ Abstract!Repeat(j)
  <2>1. UNCHANGED <<kind, workers, accepted, gone, back, runs>>
    BY <1>15 DEF EnableJob, promises, damage
  <2>2. CASE rearmed' = rearmed
    BY <2>1, <2>2, Stutters DEF PublishedNext
  <2>3. CASE rearmed' = rearmed \cup {j} /\ (j \in rearmed \/ kind[j] \notin AtKinds)
    BY <2>1, <2>3 DEF PublishedNext, Abstract!vars
  <2>4. CASE rearmed' = rearmed \cup {j} /\ j \notin rearmed /\ kind[j] \in AtKinds
    <3>1. j \in accepted \ Removed
      BY <1>15, EmptyAbsent DEF EnableJob, LedgerInv, GoneInv, Removed
    <3>2. UNCHANGED [t \in Tasks |-> PublishedNext(t)]
      BY <2>1 DEF PublishedNext
    <3>3. Abstract!Repeat(j)
      BY <2>1, <2>4, <3>1, <3>2 DEF Removed, Abstract!Repeat
    <3> QED BY <3>3
  <2> QED BY <1>15, <2>2, <2>3, <2>4 DEF EnableJob, Reschedule
<1>16. CASE RemoveUnknown
  <2>1. \A t \in Tasks : PublishedNext(t)' = PublishedNext(t)
    BY <1>16, <1>k, MovedWork DEF RemoveUnknown, PublishedNext
  <2> QED BY <1>16, <2>1, Stutters DEF RemoveUnknown, history, promises, damage
<1>6. CASE WriteStore
  <2>1. /\ accepted' = accepted \cup lock.adds /\ gone' = gone \cup lock.removes
        /\ UNCHANGED <<kind, workers, rearmed, runs>> /\ Pending
        /\ back' = back \ lock.removes \/ back' = back
    BY <1>6 DEF WriteStore, Pending
  <2>2. UNCHANGED [t \in Tasks |-> PublishedNext(t)]
    BY <2>1 DEF PublishedNext
  <2>3. CASE lock.adds = {} /\ lock.removes = {}
    BY <2>1, <2>2, <2>3 DEF Abstract!vars
  <2>4. ASSUME NEW r, lock.adds = {r}, lock.removes = {}
        PROVE  \E j \in JobIds : Abstract!Accept(j)
    <3>1. r \in JobIds /\ r \notin accepted
      BY <2>1, <2>4 DEF LedgerInv, Lock
    <3>2. Removed' = Removed
      BY <2>1, <2>4 DEF Removed
    <3>3. {j \in accepted' \ rearmed' : kind'[j] \in AtKinds}
             \in {{j \in accepted \ rearmed : kind[j] \in AtKinds},
                  {j \in accepted \ rearmed : kind[j] \in AtKinds} \cup {r}}
      BY <2>1, <2>4
    <3>4. Abstract!Accept(r)
      BY <2>1, <2>2, <2>4, <3>1, <3>2, <3>3 DEF Removed, Abstract!Accept
    <3> QED BY <3>1, <3>4
  <2>5. ASSUME NEW r, lock.adds = {}, lock.removes = {r}
        PROVE  UNCHANGED Abstract!vars \/ \E j \in JobIds : Abstract!Forget(j)
    <3>1. r \in JobIds /\ r \in accepted \ Removed
      BY <2>1, <2>5 DEF LedgerInv, Lock
    <3>2. Removed' = Removed \cup {r} \/ Removed' = Removed
      BY <2>1, <2>5 DEF Removed
    <3>3. CASE Removed' = Removed \cup {r}
      <4>1. Abstract!Forget(r)
        BY <2>1, <2>2, <2>5, <3>1, <3>3 DEF Removed, Abstract!Forget
      <4> QED BY <3>1, <4>1
    <3>4. CASE Removed' = Removed
      BY <2>1, <2>2, <2>5, <3>4 DEF Removed, Abstract!vars
    <3> QED BY <3>2, <3>3, <3>4
  <2> QED BY <2>3, <2>4, <2>5 DEF LedgerInv, Abstract!Next
<1>7. ASSUME NEW t \in Tasks, NEW j \in JobIds, Fire(t, j) \/ FireOrphan(t, j)
      PROVE  UNCHANGED Abstract!vars
  <2>1. \A u \in Tasks : PublishedNext(u)' = PublishedNext(u)
    BY <1>7, <1>k, OtherWork DEF Fire, FireOrphan, StartTask, Idle, Beginning
  <2> QED BY <1>7, <2>1, Stutters DEF Fire, FireOrphan, history, promises, damage
<1>8. ASSUME NEW t \in Tasks, Lookup(t)
      PROVE  UNCHANGED Abstract!vars \/ \E r \in JobIds : Abstract!Begin(t, r)
  <2> DEFINE j == workers[t].job
  <2>1. t \in Workers /\ workers[t] \in Worker /\ workers[t].pc = "lookup" /\ lock = Free
    BY <1>8, <1>k DEF Lookup, At
  <2>2. j \in JobIds /\ UNCHANGED <<kind, accepted, gone, back, rearmed, runs>>
    BY <1>8, <2>1 DEF Pointers, PointerOK, Lookup, history, promises, damage
  <2>3. CASE store[j] = NoJob
    <3>1. workers' = [workers EXCEPT ![t] = [workers[t] EXCEPT !.pc = "success"]]
      BY <1>8, <2>3 DEF Lookup
    <3>2. [workers[t] EXCEPT !.pc = "success"].pc # "publish"
      BY <2>1 DEF Worker
    <3> QED BY <2>1, <2>2, <3>1, <3>2, OtherWork, Stutters
  <2>4. CASE store[j] # NoJob
    <3> DEFINE g == [workers[t] EXCEPT !.pc = "publish", !.ptr = j, !.live = TRUE]
    <3>1. workers' = [workers EXCEPT ![t] = g]
      BY <1>8, <2>4 DEF Lookup
    <3>2. g.pc = "publish" /\ g.ptr = j
      BY <2>1 DEF Worker
    <3>3. j \in accepted \ Removed
      BY <2>1, <2>2, <2>4, EmptyAbsent DEF LedgerInv, GoneInv, Removed
    <3>4. PublishedNext(t) = 0
      BY <2>1 DEF PublishedNext
    <3>5. \A u \in Tasks : PublishedNext(u)' = IF u = t THEN j ELSE PublishedNext(u)
      <4> HIDE DEF g
      <4> QED BY <1>k, <3>1, <3>2 DEF PublishedNext
    <3>6. [u \in Tasks |-> PublishedNext(u)]'
             = [[u \in Tasks |-> PublishedNext(u)] EXCEPT ![t] = j]
      <4> HIDE DEF j
      <4> QED BY <3>5
    <3>7. Abstract!Begin(t, j)
      <4> HIDE DEF j, g
      <4> QED BY <2>2, <3>3, <3>4, <3>6 DEF Removed, Abstract!Begin
    <3> QED BY <2>2, <3>7
  <2> QED BY <2>3, <2>4
<1>9. ASSUME NEW t \in Tasks, Publish(t) PROVE Abstract!Publish(t)
  <2> DEFINE j == workers[t].ptr
             g == [workers[t] EXCEPT !.pc = "update"]
  <2>1. t \in Workers /\ workers[t] \in Worker /\ workers[t].pc = "publish" /\ j \in JobIds
    BY <1>9, <1>k DEF Publish, At, Pointers, PointerOK
  <2>2. /\ workers' = [workers EXCEPT ![t] = g] /\ g.pc = "update"
        /\ runs' = [runs EXCEPT ![j] = IF @ < 2 THEN @ + 1 ELSE 2]
        /\ UNCHANGED <<kind, accepted, gone, back, rearmed>>
    BY <1>9, <2>1 DEF Publish, Worker, promises, damage
  <2>3. kind[j] \in AtKinds /\ j \notin rearmed => runs[j] = 0
    BY <2>1 DEF OwnPointer, Once, InFlight, Publishing
  <2>4. PublishedNext(t) = j
    BY <2>1 DEF PublishedNext
  <2>5. \A u \in Tasks : PublishedNext(u)' = IF u = t THEN 0 ELSE PublishedNext(u)
    <3> HIDE DEF g
    <3> QED BY <1>k, <2>2 DEF PublishedNext
  <2>6. [u \in Tasks |-> PublishedNext(u)]'
           = [[u \in Tasks |-> PublishedNext(u)] EXCEPT ![t] = 0]
    BY <2>5
  <2> HIDE DEF j, g
  <2> QED BY <1>k, <2>1, <2>2, <2>3, <2>4, <2>6 DEF Abstract!Publish
<1>10. ASSUME NEW r \in Runners, Publish(r) PROVE UNCHANGED Abstract!vars
  <2>1. r \notin Tasks /\ r \in Workers
    BY WorkersAssumption DEF Workers
  <2> QED BY <1>10, <2>1, OtherWork, Stutters DEF Publish, promises, damage
<1>11. ASSUME NEW w \in Workers, Update(w) PROVE UNCHANGED Abstract!vars
  <2> DEFINE g == [workers[w] EXCEPT !.pc = AfterUpdate(w)]
  <2>1. workers[w] \in Worker /\ workers[w].pc = "update"
    BY <1>11 DEF Update, At
  <2>2. g.pc # "publish"
    BY <2>1 DEF Worker, AfterUpdate
  <2> QED BY <1>11, <2>1, <2>2, OtherWork, Stutters DEF Update, history, promises, damage
<1>12. ASSUME NEW w \in Workers, RemoveAfterRun(w) PROVE UNCHANGED Abstract!vars
  <2> DEFINE pc == IF w \in Tasks THEN "success" ELSE "save"
             after == [workers EXCEPT ![w].pc = pc]
  <2>1. workers[w].pc = "remove" /\ after \in [Workers -> Worker]
    BY <1>12, StepTyped DEF RemoveAfterRun, At
  <2>2. \A v \in Workers : after[v].ptr = workers[v].ptr
                           /\ after[v].pc = IF v = w THEN pc ELSE workers[v].pc
    BY DEF Worker
  <2>3. workers' = Moved(after)
    BY <1>12 DEF RemoveAfterRun
  <2>4. \A v \in Workers : workers'[v].ptr = after[v].ptr /\ workers'[v].pc = after[v].pc
    <3> HIDE DEF after
    <3> QED BY <2>1, <2>3, MovedWork
  <2>5. \A t \in Tasks : PublishedNext(t)' = PublishedNext(t)
    <3> HIDE DEF after
    <3> QED BY <1>k, <2>1, <2>2, <2>4 DEF PublishedNext
  <2> QED BY <1>12, <2>5, Stutters DEF RemoveAfterRun, damage
<1>13. ASSUME NEW t \in Tasks, OnJobSuccess(t) PROVE UNCHANGED Abstract!vars
  <2>1. workers' = [workers EXCEPT ![t] = Idle] /\ workers[t].pc = "success"
    BY <1>13 DEF OnJobSuccess, At
  <2> QED BY <1>13, <1>k, <2>1, OtherWork, Stutters
          DEF OnJobSuccess, Idle, Beginning, history, promises, damage
<1>14. ASSUME NEW r \in Runners,
              (\E j \in JobIds : RunJob(r, j)) \/ RunJobDeref(r) \/ RunJobSave(r)
       PROVE  UNCHANGED Abstract!vars
  <2>1. r \in Workers /\ r \notin Tasks
    BY WorkersAssumption DEF Workers
  <2>2. PICK g : workers' = [workers EXCEPT ![r] = g]
    BY <1>14 DEF RunJob, RunJobDeref, RunJobSave
  <2> QED BY <1>14, <2>1, <2>2, OtherWork, Stutters
             DEF RunJob, RunJobDeref, RunJobSave, history, promises, damage
<1> QED
  BY <1>1, <1>2, <1>3, <1>4, <1>5, <1>6, <1>7, <1>8, <1>9, <1>10, <1>11, <1>12,
     <1>13, <1>14, <1>15, <1>16
     DEF Next, AgentNext, TaskNext, WorkerNext, RunnerNext, Workers, Crash,
         SchedulePanics, RunJobPanics, Abstract!Next

(* For any number of jobs, tasks, callers of RunJob, deaths of the process *)
(* and faults of the file the service implements Reminders: only accepted  *)
(* reminders that are not gone begin to run, a one-time one is published   *)
(* once unless it is enabled while it is scheduled, nothing accepted or    *)
(* published is taken back, and a removal only by a write that failed.     *)
THEOREM ServiceKeepsPromises == Spec => ImplementsReminders
<1>1. Init => Abstract!Init /\ LedgerInv /\ GoneInv /\ OnceInv
  <2>1. Init => LedgerInv /\ GoneInv
    BY EmptyAbsent DEF Init, LedgerInv, GoneInv, DownSettled, Pending, Removed
  <2>2. Init => Abstract!Init
    BY DEF Init, Abstract!Init, PublishedNext, Idle, Beginning, Workers
  <2> QED BY <2>1, <2>2, OnceInit
<1>2. TypeInv /\ TypeInv' /\ GoneInv /\ LedgerInv /\ [Next]_vars => GoneInv' /\ LedgerInv'
  BY StepForms, GoneStep, LedgerStep DEF TypeInv
<1>3. TypeInv /\ TypeInv' /\ OnceInv /\ [Next]_vars => OnceInv'
  BY OnceInvStep
<1>4. TypeInv /\ TypeInv' /\ GoneInv /\ LedgerInv /\ OnceInv /\ [Next]_vars
         => [Abstract!Next]_Abstract!vars
  BY ReminderStep DEF TypeInv, OnceInv
<1>5. Spec => []TypeInv
  BY TypeCorrect DEF TypeInv
<1> QED BY <1>1, <1>2, <1>3, <1>4, <1>5, PTL DEF Spec, ImplementsReminders, Abstract!Spec

-----------------------------------------------------------------------------
(* Memory and file agree *)

(* What the file holds, or will hold after the write in progress. *)
Written == IF Pending THEN lock.snap ELSE disk

(* No fault is to be made good, or the write in progress makes it good. *)
Settled == Pending \/ ~stale

(* Every job is present in both or in neither, and the same in both unless *)
(* a goroutine has yet to save what it wrote.                              *)
AgreeInv ==
    /\ DownSettled
    /\ Up /\ Settled =>
          \A j \in JobIds :
              /\ store[j] = NoJob <=> Written[j] = NoJob
              /\ Unsaved(j) \/ store[j] = Written[j]

(* An operation that saves the whole store leaves nothing unsaved. *)
LEMMA SavedAgrees ==
    ASSUME NEW who \in {Agent} \cup Workers, NEW A, NEW R,
           SaveStoreLocked(who, store', A, R), phase' # "down"
    PROVE  AgreeInv'
<1>1. Pending' /\ lock'.snap = store'
  BY SaveHolds DEF SaveStoreLocked, Pending
<1>2. Written' = store'
  BY <1>1 DEF Written
<1> QED BY <1>2 DEF AgreeInv, DownSettled

(* A step that writes nothing keeps the agreement of each job, unless it   *)
(* forgets to save one that is there.                                      *)
LEMMA QuietAgrees ==
    ASSUME AgreeInv, UNCHANGED <<store, disk, lock, stale>>,
           phase = "down" <=> phase' = "down",
           \A j \in JobIds : Unsaved(j) => Unsaved(j)' \/ store[j] = NoJob
    PROVE  AgreeInv'
<1>1. Written' = Written /\ (Settled' <=> Settled) /\ (Up' <=> Up)
  BY DEF Written, Settled, Pending, Up
<1>2. \A j \in JobIds :
         Up /\ Settled /\ store[j] = NoJob => store[j] = Written[j]
  BY DEF AgreeInv
<1>3. DownSettled'
  BY DEF AgreeInv, DownSettled
<1> QED BY <1>1, <1>2, <1>3 DEF AgreeInv

(* A goroutine's own step, seen by the unsaved jobs. *)
Writing == {"remove", "success", "save"}
LEMMA OneUnsaved ==
    ASSUME TypeOK, NEW w \in Workers, NEW g, workers' = [workers EXCEPT ![w] = g],
           workers[w].pc \in Writing => g.pc \in Writing /\ g.ptr = workers[w].ptr
    PROVE  \A j \in JobIds : Unsaved(j) => Unsaved(j)'
BY DEF TypeOK, Unsaved, Writing

LEMMA AgreeStep ==
    ASSUME TypeInv, TypeInv', AgreeInv, OwnPointer, [Next]_vars
    PROVE  AgreeInv'
<1> USE DEF TypeInv, TypeOK
<1>1. CASE Start \/ StartUnread
  <2>1. lock = Free /\ lock' = Free /\ disk' = disk /\ phase' # "down"
    BY <1>1 DEF Start, StartUnread, AgreeInv, DownSettled
  <2>2. Written' = disk /\ ~Pending'
    BY <2>1 DEF Written, Pending
  <2>3. store' = disk \/ ~Settled'
    BY <1>1, <2>2 DEF Start, StartUnread, ScheduleAll, Settled
  <2> QED BY <2>1, <2>2, <2>3 DEF AgreeInv, DownSettled
<1>2. CASE Die
  BY <1>2 DEF Die, AgreeInv, DownSettled, Up
<1>3. CASE StopShutdown \/ StopNil \/ StopDone \/ UNCHANGED vars
           \/ (\E j \in JobIds : TimePasses(j))
  BY <1>3, QuietAgrees
     DEF StopShutdown, StopNil, StopDone, TimePasses, memory, history, damage, vars, Unsaved
<1>14. CASE RemoveUnknown
  <2>1. \A w \in Workers : /\ workers'[w].pc = workers[w].pc
                          /\ workers'[w].ptr = workers[w].ptr
    BY <1>14, MovedWork DEF RemoveUnknown
  <2>2. \A j \in JobIds : Unsaved(j) => Unsaved(j)'
    BY <2>1 DEF Unsaved
  <2> QED BY <1>14, <2>2, QuietAgrees DEF RemoveUnknown, history, damage
<1>4. ASSUME \/ \E k \in Kinds : AddJob(k)
             \/ \E j \in JobIds : RemoveJob(j) \/ EnableJob(j) \/ DisableJob(j)
      PROVE  AgreeInv'
  BY <1>4, SavedAgrees DEF AddJob, RemoveJob, EnableJob, DisableJob, Up
<1>5. CASE WriteStore
  <2>1. Pending /\ ~Pending' /\ UNCHANGED <<store, workers, phase>>
    BY <1>5, WriteKeepsLock DEF WriteStore, Pending
  <2>2. Written = lock.snap /\ Written' = disk' /\ phase # "down"
    BY <2>1 DEF Written, AgreeInv, DownSettled, Pending
  <2>3. disk' = lock.snap \/ ~Settled'
    BY <1>5, <2>1 DEF WriteStore, Settled
  <2> QED BY <2>1, <2>2, <2>3 DEF AgreeInv, DownSettled, Settled, Up, Unsaved
<1>15. CASE Return
  <2>1. ~Pending /\ lock' = Free /\ UNCHANGED <<store, disk, workers, phase, stale>>
    BY <1>15 DEF Return, Pending, history, damage
  <2>2. ~Pending' /\ Written' = Written
    BY <2>1 DEF Written, Pending
  <2> QED BY <2>1, <2>2 DEF AgreeInv, DownSettled, Settled, Up, Unsaved
<1>6. ASSUME NEW t \in Tasks, NEW j \in JobIds, Fire(t, j) \/ FireOrphan(t, j)
      PROVE  AgreeInv'
  <2>1. workers[t].pc = "idle" /\ \E g : workers' = [workers EXCEPT ![t] = g]
    BY <1>6 DEF Fire, FireOrphan, StartTask, Idle, Beginning
  <2>2. \A i \in JobIds : Unsaved(i) => Unsaved(i)'
    BY <2>1, OneUnsaved DEF Workers, Writing
  <2> QED BY <1>6, <2>2, QuietAgrees DEF Fire, FireOrphan, history, damage
<1>7. ASSUME NEW t \in Tasks, Lookup(t) PROVE AgreeInv'
  <2>1. workers[t].pc = "lookup" /\ \E g : workers' = [workers EXCEPT ![t] = g]
    BY <1>7 DEF Lookup, At
  <2>2. \A i \in JobIds : Unsaved(i) => Unsaved(i)'
    BY <2>1, OneUnsaved DEF Workers, Writing
  <2> QED BY <1>7, <2>2, QuietAgrees DEF Lookup, history, damage
<1>8. ASSUME NEW w \in Workers, Publish(w) PROVE AgreeInv'
  <2>1. workers[w].pc = "publish" /\ \E g : workers' = [workers EXCEPT ![w] = g]
    BY <1>8 DEF Publish, At
  <2>2. \A i \in JobIds : Unsaved(i) => Unsaved(i)'
    BY <2>1, OneUnsaved DEF Writing
  <2> QED BY <1>8, <2>2, QuietAgrees DEF Publish, damage
<1>9. ASSUME NEW w \in Workers, Update(w) PROVE AgreeInv'
  <2> DEFINE p == workers[w].ptr
             g == [workers[w] EXCEPT !.pc = AfterUpdate(w)]
  <2>1. workers[w] \in Worker /\ workers[w].pc = "update"
    BY <1>9 DEF Update, At
  <2>2. g.pc \in Writing /\ g.ptr = p /\ workers' = [workers EXCEPT ![w] = g]
    BY <1>9, <2>1 DEF Worker, AfterUpdate, Writing, Update
  <2>3. \A j \in JobIds : Unsaved(j) => Unsaved(j)'
    BY <2>1, <2>2, OneUnsaved DEF Writing
  <2>4. \A j \in JobIds : j = p => Unsaved(j)'
    <3> HIDE DEF g
    <3> QED BY <2>2 DEF Unsaved, Writing
  <2>5. /\ SamePresence(store', store) /\ UNCHANGED <<disk, lock, stale, phase>>
        /\ \A j \in JobIds : j = p \/ store'[j] = store[j]
    <3>1. CASE workers[w].live
      <4> DEFINE x == [store[p] EXCEPT !.ran = "ran", !.enabled = @ /\ kind[p] # "keep"]
      <4>1. p \in JobIds /\ store[p] # NoJob
        BY <3>1 DEF Pointers, PointerOK
      <4>2. store[p] \in Job
        BY <4>1, PresentIsJob
      <4>3. x \in Job
        BY <4>2 DEF Job
      <4>4. store' = [store EXCEPT ![p] = x]
        BY <1>9, <3>1 DEF Update
      <4>5. SamePresence(store', store)
        BY <4>1, <4>3, <4>4, WritePresent
      <4>6. \A j \in JobIds : j = p \/ store'[j] = store[j]
        BY <4>4 DEF Store
      <4> QED BY <1>9, <4>5, <4>6 DEF Update, history, damage
    <3>2. CASE ~workers[w].live
      BY <1>9, <3>2 DEF Update, SamePresence, history, damage
    <3> QED BY <3>1, <3>2
  <2>6. Written' = Written /\ (Settled' <=> Settled)
    BY <2>5 DEF Written, Settled, Pending
  <2> HIDE DEF p, g
  <2>7. ASSUME Up, Settled, NEW j \in JobIds
        PROVE  /\ store'[j] = NoJob <=> Written'[j] = NoJob
               /\ Unsaved(j)' \/ store'[j] = Written'[j]
    <3>1. store'[j] = NoJob <=> Written'[j] = NoJob
      BY <2>5, <2>6, <2>7 DEF AgreeInv, SamePresence
    <3>2. CASE j = p
      BY <2>4, <3>1, <3>2
    <3>3. CASE j # p
      BY <2>3, <2>5, <2>6, <2>7, <3>1, <3>3 DEF AgreeInv
    <3> QED BY <3>2, <3>3
  <2> QED BY <2>5, <2>6, <2>7 DEF AgreeInv, DownSettled, Up
<1>10. ASSUME NEW w \in Workers, RemoveAfterRun(w) PROVE AgreeInv'
  <2>1. workers[w].pc = "remove" /\ phase # "down" /\ phase' = phase
    BY <1>10, WorkingIsUp DEF RemoveAfterRun, At
  <2>2. CASE store[workers[w].ptr] # NoJob
    BY <1>10, <2>1, <2>2, SavedAgrees DEF RemoveAfterRun
  <2>3. CASE store[workers[w].ptr] = NoJob
    <3> DEFINE pc == IF w \in Tasks THEN "success" ELSE "save"
               after == [workers EXCEPT ![w].pc = pc]
    <3>1. workers' = Moved(after) /\ UNCHANGED <<store, disk, lock, stale>>
      BY <1>10, <2>3 DEF RemoveAfterRun, damage
    <3>2. after \in [Workers -> Worker] /\ pc \in Writing
      BY StepTyped DEF Writing
    <3>3. \A v \in Workers : after[v].ptr = workers[v].ptr
                             /\ after[v].pc = IF v = w THEN pc ELSE workers[v].pc
      BY DEF Worker
    <3>4. \A v \in Workers : workers'[v].ptr = after[v].ptr /\ workers'[v].pc = after[v].pc
      <4> HIDE DEF after
      <4> QED BY <3>1, <3>2, MovedWork
    <3>5. \A i \in JobIds : Unsaved(i) => Unsaved(i)'
      <4> HIDE DEF after, pc
      <4> QED BY <3>2, <3>3, <3>4 DEF Unsaved, Writing
    <3> QED BY <2>1, <3>1, <3>5, QuietAgrees
  <2> QED BY <2>2, <2>3
<1>11. ASSUME NEW t \in Tasks, OnJobSuccess(t) PROVE AgreeInv'
  <2>1. t \in Workers /\ workers[t].pc = "success"
    BY <1>11 DEF OnJobSuccess, At, Workers
  <2>2. phase # "down" /\ phase' = phase
    BY <1>11, <2>1, WorkingIsUp DEF OnJobSuccess
  <2>3. CASE store[workers[t].job] # NoJob
    BY <1>11, <2>1, <2>2, <2>3, SavedAgrees DEF OnJobSuccess
  <2>4. CASE store[workers[t].job] = NoJob
    <3>1. workers' = [workers EXCEPT ![t] = Idle] /\ UNCHANGED <<store, disk, lock, stale>>
      BY <1>11, <2>4 DEF OnJobSuccess, history, damage
    <3>2. workers[t].ptr \in {0, workers[t].job} /\ 0 \notin JobIds
      BY DEF OwnPointer, JobIds
    <3>3. \A i \in JobIds : Unsaved(i) => Unsaved(i)' \/ store[i] = NoJob
      BY <2>4, <3>1, <3>2 DEF Unsaved
    <3> QED BY <2>2, <3>1, <3>3, QuietAgrees
  <2> QED BY <2>3, <2>4
<1>12. ASSUME NEW r \in Runners, (\E j \in JobIds : RunJob(r, j)) \/ RunJobDeref(r)
       PROVE  AgreeInv'
  <2>1. /\ workers[r].pc \in {"idle", "deref"} /\ r \in Workers
        /\ \E g : workers' = [workers EXCEPT ![r] = g]
    <3>1. r \in Workers
      BY DEF Workers
    <3>2. CASE \E j \in JobIds : RunJob(r, j)
      <4>1. PICK g : workers[r] = Idle /\ workers' = [workers EXCEPT ![r] = g]
        BY <3>2 DEF RunJob
      <4>2. workers[r].pc = "idle"
        BY <4>1 DEF Idle, Beginning
      <4> QED BY <3>1, <4>1, <4>2
    <3>3. CASE RunJobDeref(r)
      BY <3>1, <3>3 DEF RunJobDeref, At
    <3> QED BY <1>12, <3>2, <3>3
  <2>2. \A i \in JobIds : Unsaved(i) => Unsaved(i)'
    BY <2>1, OneUnsaved DEF Writing
  <2> QED BY <1>12, <2>2, QuietAgrees DEF RunJob, RunJobDeref, history, damage
<1>13. ASSUME NEW r \in Runners, RunJobSave(r) PROVE AgreeInv'
  <2>1. r \in Workers /\ workers[r].pc = "save"
    BY <1>13 DEF RunJobSave, At, Workers
  <2>2. phase # "down" /\ phase' = phase
    BY <1>13, <2>1, WorkingIsUp DEF RunJobSave
  <2> QED BY <1>13, <2>1, <2>2, SavedAgrees DEF RunJobSave
<1> QED
  BY <1>1, <1>2, <1>3, <1>4, <1>5, <1>6, <1>7, <1>8, <1>9, <1>10, <1>11, <1>12, <1>13,
     <1>14, <1>15
     DEF Next, AgentNext, TaskNext, WorkerNext, RunnerNext, Workers, Crash,
         SchedulePanics, RunJobPanics

(* Whenever nobody writes it and no fault is to be made good, the file     *)
(* holds of every job what memory holds, unless a goroutine has yet to     *)
(* save what it wrote; whatever crashes and faults of the file happened.   *)
THEOREM FileAgreesWithMemory == Spec => []DiskAgrees
<1>1. Init => AgreeInv /\ OwnPointer
  BY DEF Init, AgreeInv, DownSettled, Up, OwnPointer, Idle, Beginning, Workers
<1>2. TypeInv /\ TypeInv' /\ AgreeInv /\ OwnPointer /\ [Next]_vars => AgreeInv' /\ OwnPointer'
  BY AgreeStep, OwnPointerStep DEF TypeInv
<1>3. AgreeInv => DiskAgrees
  BY DEF AgreeInv, Settled, Written, Pending, DiskAgrees
<1>4. Spec => []TypeInv
  BY TypeCorrect DEF TypeInv
<1> QED BY <1>1, <1>2, <1>3, <1>4, PTL DEF Spec
=============================================================================
