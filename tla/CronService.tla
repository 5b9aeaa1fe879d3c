---------------------------- MODULE CronService ----------------------------
(***************************************************************************)
(* The reminder service of service/cron/cron.go: a slice of jobs guarded   *)
(* by an RWMutex, mirrored in cron.json by a rewrite of the whole file,    *)
(* and scheduled as timers of the gocron library.                          *)
(*                                                                         *)
(* Three parties share the slice.  The agent goroutine calls AddJob,       *)
(* RemoveJob and EnableJob through the cron tool.  Each firing of a timer  *)
(* runs makeTask / executeJob / onJobSuccess in a goroutine of its own,    *)
(* and executeJob works through a pointer into the slice after the lock    *)
(* was released.  RunJob does the same through an index.  main stops the   *)
(* service, and the process may die at any time and be started again.      *)
(*                                                                         *)
(* A job id is a natural handed out in creation order, so the position of  *)
(* a job in the slice is its rank among the ids present.                   *)
(***************************************************************************)
EXTENDS Naturals, FiniteSets

CONSTANTS
    MaxJobs,     \* bound: number of calls of AddJob
    Kinds,       \* kinds of job AddJob is called with
    Tasks,       \* goroutines gocron runs fired timers in (bound)
    Runners,     \* callers of RunJob
    MaxOrphans,  \* bound: timers per job that s.jobs no longer points to
    DiskFaults   \* "crash" and "error" of os.WriteFile, "read" of os.ReadFile

ASSUME MaxJobsAssumption == MaxJobs \in Nat
ASSUME KindsAssumption == Kinds \subseteq {"at", "keep", "every", "bad"}
ASSUME WorkersAssumption == Tasks \cap Runners = {}
ASSUME MaxOrphansAssumption == MaxOrphans \in Nat
ASSUME DiskFaultsAssumption == DiskFaults \subseteq {"crash", "error", "read"}

JobIds == 1..MaxJobs
Workers == Tasks \cup Runners
Agent == "agent"
Nobody == "nobody"
ASSUME NamesAssumption == {Agent, Nobody} \cap Workers = {}

(* "at": one time, deleted after its run; "keep": one time, kept disabled; *)
(* "every": an interval or a cron expression; "bad": refused by gocron.    *)
(* The cron tool makes one-time jobs of the first sort only; the second    *)
(* comes from a cron.json written by hand or another caller of AddJob.     *)
AtKinds == {"at", "keep"}

(* The fields of a CronJob that are read again, Enabled and whether it has *)
(* a LastRunAtMs, and the absent job.  LastStatus and the time of the next *)
(* run are only shown.                                                     *)
Job == [enabled : BOOLEAN, ran : {"never", "ran"}]
NewJob == [enabled |-> TRUE, ran |-> "never"]
NoJob == [enabled |-> FALSE, ran |-> "absent"]
Store == [JobIds -> Job \cup {NoJob}]
EmptyStore == [j \in JobIds |-> NoJob]
Present(s) == {j \in JobIds : s[j] # NoJob}

(* s.mu and the write it covers: the bytes marshalled, whether os.WriteFile *)
(* ended, and the jobs the operation adds and removes.                     *)
Lock == [holder : {Nobody, Agent} \cup Workers, snap : Store, written : BOOLEAN,
         adds : SUBSET JobIds, removes : SUBSET JobIds]
Free == [holder |-> Nobody, snap |-> EmptyStore, written |-> FALSE,
         adds |-> {}, removes |-> {}]

(* A goroutine in makeTask's closure or in RunJob: the job it was started  *)
(* for, the job its pointer (or index) designates, and whether the pointer *)
(* still points into the array s.store.Jobs uses.                          *)
Worker == [pc : {"idle", "lookup", "deref", "publish", "update", "remove",
                 "success", "save"},
           job : 0..MaxJobs, ptr : 0..MaxJobs, live : BOOLEAN]
Beginning(pc, j, p) == [pc |-> pc, job |-> j, ptr |-> p, live |-> FALSE]
Idle == Beginning("idle", 0, 0)

VARIABLES
    phase,    \* "down", "running", "shutdown", "nil", "stopped"
    nextId,   \* the id newID returns next
    kind,     \* kind of each job created so far
    past,     \* one-time jobs whose time has passed
    store,    \* s.store.Jobs
    disk,     \* the jobs loadStore would find in cron.json
    lock,     \* s.mu, and the save in progress under it
    armed,    \* jobs whose entry in s.jobs is an armed gocron timer
    orphans,  \* armed timers of a job that s.jobs lost
    workers,  \* the goroutines of fired timers and of RunJob
    accepted, \* history: AddJob's save of the job ended
    dropping, \* history: a RemoveJob of the job began
    gone,     \* history: RemoveJob's save without the job ended
    stale,    \* history: a fault made cron.json differ from memory, since then
    lost,     \* history: accepted jobs that a fault of the file cost
    back,     \* history: jobs that were gone and a failed write brought back
    rearmed,  \* history: jobs that were enabled while they had a timer
    runs      \* history: publications by the job's timers, saturating at 2

memory == <<store, lock, armed, orphans, workers>>
promises == <<accepted, dropping, gone>>
damage == <<stale, lost, back>>
history == <<promises, damage, rearmed, runs>>
vars == <<phase, nextId, kind, past, disk, memory, history>>

Up == phase # "down"
Running == phase \in {"running", "shutdown", "nil"}     \* s.running

Init ==
    /\ phase = "down"
    /\ nextId = 1
    /\ kind = [j \in JobIds |-> "every"]
    /\ past = {}
    /\ store = EmptyStore
    /\ disk = EmptyStore
    /\ lock = Free
    /\ armed = {}
    /\ orphans = [j \in JobIds |-> 0]
    /\ workers = [w \in Workers |-> Idle]
    /\ accepted = {}
    /\ dropping = {}
    /\ gone = {}
    /\ stale = FALSE
    /\ lost = {}
    /\ back = {}
    /\ rearmed = {}
    /\ runs = [j \in JobIds |-> 0]

-----------------------------------------------------------------------------
(* Helpers *)

(* Mutant: dates in the past are accepted. *)
SchedulableAnyDate(j) == kind[j] # "bad"

(* gocron.NewJob refuses a one-time job whose time is not in the future    *)
(* and a cron expression it cannot parse.                                  *)
Schedulable(j) ==
    /\ kind[j] # "bad"
    /\ kind[j] \in AtKinds => j \notin past

(* saveStoreLocked marshals the slice as it is now; the file is written by *)
(* the later step WriteStore, under the same lock.                         *)
SaveStoreLocked(who, s, adds, removes) ==
    lock' = [holder |-> who, snap |-> s, written |-> FALSE,
             adds |-> adds, removes |-> removes]

(* filterJobs and a growing append move the jobs to a new array: pointers  *)
(* taken before keep designating the old one.                              *)
Moved(ws) == [w \in Workers |-> [ws[w] EXCEPT !.live = FALSE]]

(* The timer s.jobs designates is removed; without a scheduler none is     *)
(* armed.                                                                  *)
Disarm(j) == armed' = armed \ {j}

(* The process dies: memory is lost, and the file is all there is.         *)
Die ==
    /\ phase' = "down"
    /\ store' = EmptyStore
    /\ lock' = Free
    /\ armed' = {}
    /\ orphans' = [j \in JobIds |-> 0]
    /\ workers' = [w \in Workers |-> Idle]
    /\ IF stale \/ disk' # disk
       THEN /\ lost' = {j \in accepted \ dropping : disk'[j] = NoJob}
            /\ back' = back \cup {j \in gone : disk'[j] # NoJob}
       ELSE UNCHANGED <<lost, back>>
    /\ stale' = FALSE
    /\ UNCHANGED <<nextId, kind, past, promises, rearmed, runs>>

-----------------------------------------------------------------------------
(* Start and Stop *)

(* The enabled jobs of the store s are scheduled; one that gocron refuses  *)
(* stays in the store.                                                     *)
ScheduleAll(s) ==
    /\ store' = s
    /\ armed' = {j \in JobIds : s[j].enabled /\ Schedulable(j)}

(* loadStore reads the file back ... *)
Start ==
    /\ phase = "down"
    /\ phase' = "running"
    /\ ScheduleAll(disk)
    /\ UNCHANGED <<nextId, kind, past, disk, lock, orphans, workers, history>>

(* ... or cannot read it, warns, and begins with no job; the file keeps    *)
(* its jobs until the next save.                                           *)
StartUnread ==
    /\ phase = "down" /\ "read" \in DiskFaults
    /\ phase' = "running"
    /\ ScheduleAll(EmptyStore)
    /\ stale' = TRUE
    /\ lost' = lost \cup Present(disk)
    /\ UNCHANGED <<nextId, kind, past, disk, lock, orphans, workers, promises, back,
                   rearmed, runs>>

(* scheduler.Shutdown stops every timer, waits for the running tasks and   *)
(* gives up after its timeout.                                             *)
StopShutdown ==
    /\ phase = "running"
    /\ phase' = "shutdown"
    /\ armed' = {}
    /\ orphans' = [j \in JobIds |-> 0]
    /\ UNCHANGED <<nextId, kind, past, store, disk, lock, workers, history>>

StopNil ==      \* s.scheduler = nil, without s.mu
    /\ phase = "shutdown"
    /\ phase' = "nil"
    /\ UNCHANGED <<nextId, kind, past, disk, memory, history>>

StopDone ==     \* s.running = false, without s.mu
    /\ phase = "nil"
    /\ phase' = "stopped"
    /\ UNCHANGED <<nextId, kind, past, disk, memory, history>>

(* Death of the process, or its exit at the end of main.  It may hit a     *)
(* WriteFile between its truncation and its end; loadStore finds no job in *)
(* a file that is not whole.                                               *)
Crash ==
    /\ Up
    /\ \/ UNCHANGED disk
       \/ /\ lock # Free /\ ~lock.written /\ "crash" \in DiskFaults
          /\ disk' = EmptyStore
    /\ Die

-----------------------------------------------------------------------------
(* Operations of the agent, through the cron tool *)

(* Appending reallocates when the array is full. *)
AppendMoves(ws) == {ws, Moved(ws)}

(* Mutant: the store is saved before the job is appended. *)
AddJobSavesFirst(k) ==
    /\ Up /\ lock = Free /\ nextId <= MaxJobs
    /\ Running => k # "bad"
    /\ phase # "nil"
    /\ kind' = [kind EXCEPT ![nextId] = k]
    /\ store' = [store EXCEPT ![nextId] = NewJob]
    /\ armed' = IF phase = "running" THEN armed \cup {nextId} ELSE armed
    /\ workers' \in AppendMoves(workers)
    /\ nextId' = nextId + 1
    /\ SaveStoreLocked(Agent, store, {nextId}, {})
    /\ UNCHANGED <<phase, past, disk, orphans, history>>

AddJob(k) ==
    /\ Up /\ lock = Free /\ nextId <= MaxJobs
    /\ Running => k # "bad"             \* scheduleJob returns an error
    /\ phase # "nil"
    /\ kind' = [kind EXCEPT ![nextId] = k]
    /\ store' = [store EXCEPT ![nextId] = NewJob]
    /\ armed' = IF phase = "running" THEN armed \cup {nextId} ELSE armed
    /\ workers' \in AppendMoves(workers)
    /\ nextId' = nextId + 1
    /\ SaveStoreLocked(Agent, store', {nextId}, {})
    /\ UNCHANGED <<phase, past, disk, orphans, history>>

(* s.running is still set and s.scheduler is nil: scheduleJob calls a nil  *)
(* interface and the process panics.                                       *)
SchedulePanics ==
    /\ phase = "nil" /\ lock = Free
    /\ UNCHANGED disk
    /\ Die

(* Mutant: the store is saved before the job is filtered out. *)
RemoveJobSavesFirst(j) ==
    /\ Up /\ lock = Free
    /\ store[j] # NoJob
    /\ store' = [store EXCEPT ![j] = NoJob]
    /\ workers' = Moved(workers)
    /\ Disarm(j)
    /\ SaveStoreLocked(Agent, store, {}, {j})
    /\ dropping' = dropping \cup {j}
    /\ UNCHANGED <<phase, nextId, kind, past, disk, orphans, accepted, gone,
                   damage, rearmed, runs>>

RemoveJob(j) ==
    /\ Up /\ lock = Free
    /\ store[j] # NoJob
    /\ store' = [store EXCEPT ![j] = NoJob]
    /\ workers' = Moved(workers)
    /\ Disarm(j)
    /\ SaveStoreLocked(Agent, store', {}, {j})
    /\ dropping' = dropping \cup {j}
    /\ UNCHANGED <<phase, nextId, kind, past, disk, orphans, accepted, gone,
                   damage, rearmed, runs>>

(* filterJobs makes a new array also when no job has the id. *)
RemoveUnknown ==
    /\ Up /\ lock = Free
    /\ workers' = Moved(workers)
    /\ UNCHANGED <<phase, nextId, kind, past, disk, store, lock, armed, orphans, history>>

(* Mutant: the job is marked enabled and not scheduled. *)
EnableJobUnscheduled(j) ==
    /\ Up /\ lock = Free /\ phase # "nil"
    /\ store[j] # NoJob
    /\ store' = [store EXCEPT ![j].enabled = TRUE]
    /\ SaveStoreLocked(Agent, store', {}, {})
    /\ UNCHANGED <<phase, nextId, kind, past, disk, armed, orphans, workers, history>>

(* scheduleJob's new timer takes the entry of s.jobs; a timer the job has  *)
(* already is forgotten, not removed.                                      *)
Reschedule(j) ==
    /\ armed' = armed \cup {j}
    /\ IF j \in armed
       THEN /\ orphans[j] < MaxOrphans
            /\ orphans' = [orphans EXCEPT ![j] = @ + 1]
            /\ rearmed' = rearmed \cup {j}
       ELSE UNCHANGED <<orphans, rearmed>>

(* Mutant: whether a job has the id is not looked at. *)
EnableJobUnknown(j) ==
    /\ Up /\ lock = Free /\ phase # "nil"
    /\ store' = [store EXCEPT ![j].enabled = TRUE]
    /\ IF phase = "running" /\ Schedulable(j)
       THEN Reschedule(j)
       ELSE UNCHANGED <<armed, orphans, rearmed>>
    /\ SaveStoreLocked(Agent, store', {}, {})
    /\ UNCHANGED <<phase, nextId, kind, past, disk, workers, promises, damage, runs>>

EnableJob(j) ==     \* EnableJob(id, true)
    /\ Up /\ lock = Free /\ phase # "nil"
    /\ store[j] # NoJob
    /\ store' = [store EXCEPT ![j].enabled = TRUE]
    /\ IF phase = "running" /\ Schedulable(j)
       THEN Reschedule(j)
       ELSE UNCHANGED <<armed, orphans, rearmed>>
    /\ SaveStoreLocked(Agent, store', {}, {})
    /\ UNCHANGED <<phase, nextId, kind, past, disk, workers, promises, damage, runs>>

(* Mutant: the timer of the disabled job is left armed. *)
DisableJobArmed(j) ==
    /\ Up /\ lock = Free
    /\ store[j] # NoJob
    /\ store' = [store EXCEPT ![j].enabled = FALSE]
    /\ SaveStoreLocked(Agent, store', {}, {})
    /\ UNCHANGED <<phase, nextId, kind, past, disk, armed, orphans, workers, history>>

DisableJob(j) ==    \* EnableJob(id, false)
    /\ Up /\ lock = Free
    /\ store[j] # NoJob
    /\ store' = [store EXCEPT ![j].enabled = FALSE]
    /\ Disarm(j)
    /\ SaveStoreLocked(Agent, store', {}, {})
    /\ UNCHANGED <<phase, nextId, kind, past, disk, orphans, workers, history>>

(* os.WriteFile.  An error, as one of MkdirAll, is only logged; it leaves   *)
(* the old file or a truncated one.                                        *)
WriteStore ==
    /\ lock # Free /\ ~lock.written
    /\ \/ disk' = lock.snap /\ stale' = FALSE /\ back' = back \ lock.removes
       \/ /\ "error" \in DiskFaults
          /\ disk' \in {disk, EmptyStore} /\ stale' = TRUE /\ back' = back
    /\ lock' = [lock EXCEPT !.written = TRUE]
    /\ accepted' = accepted \cup lock.adds
    /\ gone' = gone \cup lock.removes
    /\ UNCHANGED <<phase, nextId, kind, past, store, armed, orphans, workers,
                   dropping, lost, rearmed, runs>>

(* The deferred Unlock; the caller hears of the job, or of its removal,    *)
(* after this.                                                             *)
Return ==
    /\ lock.written
    /\ lock' = Free
    /\ UNCHANGED <<phase, nextId, kind, past, store, disk, armed, orphans, workers,
                   history>>

-----------------------------------------------------------------------------
(* Timers and the goroutines they start *)

TimePasses(j) ==
    /\ j < nextId /\ kind[j] \in AtKinds
    /\ j \notin past
    /\ past' = past \cup {j}
    /\ UNCHANGED <<phase, nextId, kind, disk, memory, history>>

Due(j) == phase = "running" /\ (kind[j] \in AtKinds => j \in past)

StartTask(t, j) ==
    /\ workers[t] = Idle
    /\ workers' = [workers EXCEPT ![t] = Beginning("lookup", j, 0)]

(* gocron re-arms a recurring timer before it runs the task. *)
Fire(t, j) ==
    /\ j \in armed /\ Due(j)
    /\ armed' = IF kind[j] \in AtKinds THEN armed \ {j} ELSE armed
    /\ StartTask(t, j)
    /\ UNCHANGED <<phase, nextId, kind, past, store, disk, lock, orphans, history>>

FireOrphan(t, j) ==
    /\ orphans[j] > 0 /\ Due(j)
    /\ orphans' = IF kind[j] \in AtKinds THEN [orphans EXCEPT ![j] = @ - 1]
                                        ELSE orphans
    /\ StartTask(t, j)
    /\ UNCHANGED <<phase, nextId, kind, past, store, disk, lock, armed, history>>

(* A worker moves only when it does not hold the lock for a save. *)
At(w, pc) == workers[w].pc = pc /\ lock.holder # w

(* Mutant: the closure keeps the job it was made for, and does not look    *)
(* whether it is still in the store.                                       *)
LookupCaptured(t) ==
    /\ At(t, "lookup") /\ lock = Free
    /\ workers' = [workers EXCEPT ![t].pc = "publish", ![t].ptr = workers[t].job]
    /\ UNCHANGED <<phase, nextId, kind, past, store, disk, lock, armed, orphans, history>>

(* Mutant: a job without a next run, as a one-time job whose time has      *)
(* come, is skipped.                                                       *)
LookupSkipsPast(t) ==
    /\ At(t, "lookup") /\ lock = Free
    /\ LET j == workers[t].job IN
       workers' = [workers EXCEPT ![t] =
          IF store[j] = NoJob \/ j \in past
          THEN [@ EXCEPT !.pc = "success"]
          ELSE [@ EXCEPT !.pc = "publish", !.ptr = j, !.live = TRUE]]
    /\ UNCHANGED <<phase, nextId, kind, past, store, disk, lock, armed, orphans, history>>

(* makeTask's closure: the job is found by id under RLock; the pointer     *)
(* outlives the lock.  AfterJobRuns follows also when it is not found.     *)
Lookup(t) ==
    /\ At(t, "lookup") /\ lock = Free
    /\ LET j == workers[t].job IN
       workers' = [workers EXCEPT ![t] =
          IF store[j] = NoJob
          THEN [@ EXCEPT !.pc = "success"]
          ELSE [@ EXCEPT !.pc = "publish", !.ptr = j, !.live = TRUE]]
    /\ UNCHANGED <<phase, nextId, kind, past, store, disk, lock, armed, orphans, history>>

(* executeJob: PublishInbound, which may block; the bus is external here. *)
Publish(w) ==
    /\ At(w, "publish")
    /\ workers' = [workers EXCEPT ![w].pc = "update"]
    /\ runs' = IF w \in Tasks
               THEN [runs EXCEPT ![workers[w].ptr] = IF @ < 2 THEN @ + 1 ELSE 2]
               ELSE runs
    /\ UNCHANGED <<phase, nextId, kind, past, store, disk, lock, armed, orphans,
                   promises, damage, rearmed>>

(* Mutant: DeleteAfterRun is ignored. *)
AfterUpdateKeeps(w) == IF w \in Tasks THEN "success" ELSE "save"

(* executeJob writes LastRunAtMs, and Enabled of a one-time job it keeps,  *)
(* through its pointer and without the lock.                               *)
AfterUpdate(w) ==
    IF kind[workers[w].ptr] = "at" THEN "remove"
    ELSE IF w \in Tasks THEN "success" ELSE "save"

Update(w) ==
    /\ At(w, "update")
    /\ LET j == workers[w].ptr IN
       store' = IF workers[w].live
                THEN [store EXCEPT
                        ![j].ran = "ran",
                        ![j].enabled = @ /\ kind[j] # "keep"]
                ELSE store
    /\ workers' = [workers EXCEPT ![w].pc = AfterUpdate(w)]
    /\ UNCHANGED <<phase, nextId, kind, past, disk, lock, armed, orphans, history>>

(* Mutant: the job is filtered out and the store not saved. *)
RemoveAfterRunUnsaved(w) ==
    /\ At(w, "remove") /\ lock = Free
    /\ store' = [store EXCEPT ![workers[w].ptr] = NoJob]
    /\ Disarm(workers[w].ptr)
    /\ workers' = Moved([workers EXCEPT ![w].pc = IF w \in Tasks THEN "success" ELSE "save"])
    /\ UNCHANGED <<phase, nextId, kind, past, disk, lock, orphans, history>>

(* executeJob's own RemoveJob of a job with DeleteAfterRun; the job may be *)
(* gone already.                                                           *)
RemoveAfterRun(w) ==
    /\ At(w, "remove") /\ lock = Free
    /\ LET j == workers[w].ptr
           after == [workers EXCEPT ![w].pc =
                        IF w \in Tasks THEN "success" ELSE "save"] IN
       /\ workers' = Moved(after)
       /\ IF store[j] # NoJob
          THEN /\ store' = [store EXCEPT ![j] = NoJob]
               /\ Disarm(j)
               /\ SaveStoreLocked(w, store', {}, {j})
               /\ dropping' = dropping \cup {j}
          ELSE UNCHANGED <<store, armed, lock, dropping>>
    /\ UNCHANGED <<phase, nextId, kind, past, disk, orphans, accepted, gone,
                   damage, rearmed, runs>>

(* Mutant: the mark of the run is not saved. *)
OnJobSuccessUnsaved(t) ==
    /\ At(t, "success") /\ lock = Free
    /\ workers' = [workers EXCEPT ![t] = Idle]
    /\ UNCHANGED <<phase, nextId, kind, past, store, disk, lock, armed, orphans, history>>

(* onJobSuccess, AfterJobRuns's listener, saves the job's new LastStatus.  *)
OnJobSuccess(t) ==
    /\ At(t, "success") /\ lock = Free
    /\ LET j == workers[t].job IN
       IF store[j] # NoJob
       THEN SaveStoreLocked(t, store, {}, {})
       ELSE UNCHANGED lock
    /\ workers' = [workers EXCEPT ![t] = Idle]
    /\ UNCHANGED <<phase, nextId, kind, past, store, disk, armed, orphans, history>>

-----------------------------------------------------------------------------
(* RunJob *)

Rank(s, j) == Cardinality({i \in Present(s) : i <= j})

(* The index is found under RLock ... *)
RunJob(r, j) ==
    /\ Up /\ lock = Free
    /\ workers[r] = Idle
    /\ store[j] # NoJob
    /\ workers' = [workers EXCEPT ![r] = Beginning("deref", j, Rank(store, j))]
    /\ UNCHANGED <<phase, nextId, kind, past, store, disk, lock, armed, orphans, history>>

(* ... and used after it is released: s.store.Jobs[found]. *)
RunJobDeref(r) ==
    /\ At(r, "deref")
    /\ \E j \in Present(store), force \in BOOLEAN :
          /\ Rank(store, j) = workers[r].ptr
          /\ workers' = [workers EXCEPT ![r] =
                IF store[j].enabled \/ force
                THEN [@ EXCEPT !.pc = "publish", !.ptr = j, !.live = TRUE]
                ELSE Idle]
    /\ UNCHANGED <<phase, nextId, kind, past, store, disk, lock, armed, orphans, history>>

RunJobPanics(r) ==      \* index out of range
    /\ At(r, "deref")
    /\ workers[r].ptr > Cardinality(Present(store))
    /\ UNCHANGED disk
    /\ Die

RunJobSave(r) ==
    /\ At(r, "save") /\ lock = Free
    /\ SaveStoreLocked(r, store, {}, {})
    /\ workers' = [workers EXCEPT ![r] = Idle]
    /\ UNCHANGED <<phase, nextId, kind, past, store, disk, armed, orphans, history>>

-----------------------------------------------------------------------------
AgentNext ==
    \/ \E k \in Kinds : AddJob(k)
    \/ \E j \in JobIds : RemoveJob(j) \/ EnableJob(j) \/ DisableJob(j)
    \/ RemoveUnknown
    \/ SchedulePanics

WorkerNext(w) == Publish(w) \/ Update(w) \/ RemoveAfterRun(w)

TaskNext(t) == Lookup(t) \/ OnJobSuccess(t) \/ WorkerNext(t)

RunnerNext(r) ==
    \/ \E j \in JobIds : RunJob(r, j)
    \/ RunJobDeref(r) \/ RunJobPanics(r) \/ RunJobSave(r)
    \/ WorkerNext(r)

Next ==
    \/ Start \/ StartUnread \/ StopShutdown \/ StopNil \/ StopDone \/ Crash
    \/ AgentNext
    \/ WriteStore \/ Return
    \/ \E j \in JobIds : TimePasses(j)
    \/ \E t \in Tasks, j \in JobIds : Fire(t, j) \/ FireOrphan(t, j)
    \/ \E t \in Tasks : TaskNext(t)
    \/ \E r \in Runners : RunnerNext(r)

Spec == Init /\ [][Next]_vars

(* Scheduling.  gocron's goroutines run, and its timers fire: the number   *)
(* of goroutines is a bound of the model, so a due timer that waits for    *)
(* one again and again gets one.  sync.RWMutex hands the lock over, so     *)
(* who waits for it again and again gets it.                               *)
Fairness ==
    /\ WF_vars(WriteStore) /\ WF_vars(Return)
    /\ \A j \in JobIds :
          /\ WF_vars(TimePasses(j))
          /\ SF_vars(\E t \in Tasks : Fire(t, j))
    /\ \A t \in Tasks : SF_vars(TaskNext(t))

FairSpec == Spec /\ Fairness

-----------------------------------------------------------------------------
(* Properties *)

(* Type correctness of the state of the service and of its history. *)
TypeOK ==
    /\ phase \in {"down", "running", "shutdown", "nil", "stopped"}
    /\ nextId \in 1..(MaxJobs + 1)
    /\ kind \in [JobIds -> {"at", "keep", "every", "bad"}]
    /\ past \subseteq JobIds
    /\ store \in Store
    /\ disk \in Store
    /\ lock \in Lock
    /\ armed \subseteq JobIds
    /\ orphans \in [JobIds -> 0..MaxOrphans]
    /\ workers \in [Workers -> Worker]
    /\ accepted \subseteq JobIds /\ dropping \subseteq JobIds /\ gone \subseteq JobIds
    /\ stale \in BOOLEAN /\ lost \subseteq JobIds /\ back \subseteq JobIds
    /\ rearmed \subseteq JobIds
    /\ runs \in [JobIds -> 0..2]

(* A job whose AddJob saved it, before the caller is told, is there until  *)
(* a RemoveJob of it begins: in the memory of a process that is up and in  *)
(* cron.json, whatever tasks, crashes and restarts happen in between.      *)
(* Faults of the file cost exactly this: a write that failed is made good  *)
(* by the next one that does not, unless the process dies before it, and a *)
(* death in the middle of a write, or a file that cannot be read, loses    *)
(* what the file held.                                                     *)
AcceptedDurable ==
    \A j \in accepted \ (dropping \cup lost) :
        /\ Up => store[j] # NoJob
        /\ stale \/ disk[j] # NoJob

(* A job that RemoveJob saved the file without is neither in memory nor in *)
(* cron.json, and no write of an older snapshot brings it back; only a     *)
(* write that failed, if the process dies before the next one, does.       *)
RemovedStaysGone ==
    \A j \in gone \ back : store[j] = NoJob /\ (stale \/ disk[j] = NoJob)

(* The file holds what memory holds whenever nobody writes it and no fault *)
(* is to be made good, except for what a task or RunJob wrote through its  *)
(* pointer and has yet to save.                                            *)
Unsaved(j) == \E w \in Workers : workers[w].ptr = j /\ workers[w].pc \in {"remove", "success", "save"}
DiskAgrees ==
    Up /\ lock = Free /\ ~stale =>
        \A j \in JobIds : Unsaved(j) \/ store[j] = disk[j]

(* A job that is disabled or removed has no timer that could still fire,   *)
(* unless it was enabled while it had one.                                 *)
DisabledNotArmed ==
    \A j \in JobIds \ rearmed : ~store[j].enabled => j \notin armed /\ orphans[j] = 0

(* The same, of the jobs in the store: EnableJob(id, false) leaves no      *)
(* timer of the job behind.                                                *)
DisableStopsTheJob ==
    \A j \in Present(store) : ~store[j].enabled => j \notin armed /\ orphans[j] = 0

(* While the service runs, an enabled job that gocron accepts has a timer: *)
(* it is not lost by restarts, by disabling and enabling, or by its runs.  *)
EnabledIsScheduled ==
    phase = "running" =>
        \A j \in Present(store) : store[j].enabled /\ Schedulable(j) => j \in armed

(* The timers of a one-time job publish its message at most once, also     *)
(* when the process dies after the publication and before the job is       *)
(* removed from the file; unless it was enabled while it had a timer.      *)
AtRunsOnce == \A j \in JobIds \ rearmed : kind[j] \in AtKinds => runs[j] <= 1

(* What the cron tool says of such a job: it is executed one time.         *)
OneTimeOnce == \A j \in JobIds : kind[j] \in AtKinds => runs[j] <= 1

(* An armed one-time job publishes its message, unless it is disabled or   *)
(* removed first, or the service stops or dies.                            *)
OneTimeRuns ==
    \A j \in JobIds :
        (phase = "running" /\ j \in armed /\ kind[j] \in AtKinds)
            ~> (runs[j] > 0 \/ phase # "running" \/ ~store[j].enabled)

(* A one-time job with DeleteAfterRun that published leaves the store, if  *)
(* the process lives on.                                                   *)
PublishedIsRemoved ==
    \A j \in JobIds :
        (\E t \in Tasks : workers[t].pc = "update" /\ workers[t].ptr = j /\ kind[j] = "at")
            ~> (j \in gone \/ phase = "down")

-----------------------------------------------------------------------------
(* The service implements Reminders: a run begins when makeTask's closure  *)
(* finds its job, a reminder is accepted when the save of its job ended,   *)
(* before AddJob returns, and gone when the save without it ended.         *)
PublishedNext(t) == IF workers[t].pc = "publish" THEN workers[t].ptr ELSE 0

Abstract == INSTANCE Reminders WITH
    Reminder <- JobIds,
    Runs <- Tasks,
    None <- 0,
    StorageMayFail <- "error" \in DiskFaults,
    gone <- gone \ back,
    oneTime <- {j \in accepted \ rearmed : kind[j] \in AtKinds},
    running <- [t \in Tasks |-> PublishedNext(t)],
    count <- runs

(* No run begins for a job that was never saved or whose removal was, a    *)
(* one-time job is published once unless it was enabled again while it had *)
(* a timer, and none of this is ever taken back, by crashes and restarts   *)
(* included; but for a removal the file was never written without.         *)
ImplementsReminders == Abstract!Spec
=============================================================================
