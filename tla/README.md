# A verification project for claw.go

claw.go is a personal assistant: chat channels (Telegram, WeChat) bring messages
to an agent, which talks to a language model, runs tools for it, keeps a session
per chat and answers on the channel; a cron service lets the agent leave itself
reminders.  This directory holds TLA+ modules translated from the Go source, the
TLC configurations that check them on small instances, and theorems that the TLA+
proof system has checked for every value of the constants.  `PROJECT.json` maps
each definition to the lines it stands for.

## The system

| component | state it keeps | operations | talks to | what makes it correct |
|---|---|---|---|---|
| cron service (`service/cron`) | the slice of jobs, its copy in `cron.json`, the timers of gocron, `running` | Start, Stop, AddJob, EnableJob, RemoveJob, RunJob, the task of a timer | called by the agent through the cron tool; publishes on the bus | no accepted job is lost, no removed job comes back, a one-time job runs once, a disabled one not at all; and what faults of the file cost is no more than it must |
| message bus (`service/bus`) | two bounded Go channels | publish, consume | everybody | nothing dropped, doubled, reordered |
| channels (`service/channel`) | a poller per channel, the dispatcher of replies | Start, Stop, the message handlers, SendMessage | bus, agent | every message is worked off, none is answered twice, a user's answers come in order |
| agent (`core/agent`, `service/agent`) | one goroutine, the request under construction | Run, processInboundMessage, executeToolCall | bus, sessions, model, tools | every turn ends, every request is a conversation the model accepts |
| sessions (`service/session`) | messages per chat, a file per chat | GetOrCreate, GetHistory, AddMessage, Clear, Save | agent, `/new` | memory and file agree; what was cleared stays cleared; a crash or a failed read costs an end of a chat and no more |
| commands (`core/cmd`) | none | `/new` | sessions | |
| main, service list (`main`, `service`) | the order of services | Start, Stop | all services | the process exits when it is told to |
| model providers, tools | none | Complete, Execute | HTTP, shell | external: only their outcomes matter here |
| skills (`core/agent/skills.go`) | `SKILL.md` files of others | list, check, load, summarise | the prompt of every request | the prompt says of a skill what is true of it |
| memory (`core/agent/memory.go`, consolidation in `agent.go`) | `MEMORY.md`, `HISTORY.md` | consolidateMemory, AppendHistory, WriteLongTerm | sessions; nothing calls the consolidation yet | what leaves the session has gone somewhere one can name, and into the history once |
| file tools (`core/tools`) | files | read, write, append, edit | the model, once they are registered, which they are not | an edit replaces one text and nothing else |
| API server (`api`) | the HTTP server | Start, Stop | main | it exists when it is stopped |
| event bus, cache, agent turn | | | nothing calls them or they do nothing | not modelled |

Hard behaviours, each listed with its line under "hazards" in `PROJECT.json`:
goroutines that use a pointer or an index into the job slice after the lock was
released; a stop that clears the scheduler without the lock; files that are
truncated and rewritten while the process may die; errors of a save that are only
logged; a file that cannot be read and is taken for one that is not there, so that
the next save overwrites it; buffers that block publishers without a timeout; services stopped in an
order in which one waits for another that has gone; a login that is repeated while
its channel is stopped; a history window that cuts turns; a model that answers in
an unexpected form; several files that belong together and are written one after
the other.

## Modules

| module | models | kind |
|---|---|---|
| `CronService` | the cron service and the cron tool's calls | detailed |
| `Reminders` | what a user of reminders is promised | abstract |
| `CronServiceProofs` | type correctness of `CronService` | proofs |
| `CronStorageProofs` | the file: removals are final, accepted jobs durable | proofs |
| `CronTimersProofs` | timers and their tasks; `CronService` implements `Reminders`; file and memory agree | proofs |
| `MessageBus` | the two buffers | detailed, used by `Gateway` |
| `Gateway` | start, pollers, cron publishers, agent loop, dispatcher, shutdown around the bus | composition |
| `ChatQueue` | one queue per source of messages and channel it is answered on | abstract |
| `GatewayProofs` | type correctness of `Gateway` | proofs |
| `GatewayOrderProofs` | the order of answers, none twice, silence after the stop, freedom from deadlock; `Gateway` implements `ChatQueue` | proofs |
| `Conversation` | a turn of the agent, `/new`, sessions and their files | detailed |
| `SessionStore` | what each chat remembers, and what a crash takes from it | abstract |
| `ConversationProofs` | requests, `/new`, memory and files, length of a turn; `Conversation` implements `SessionStore` | proofs |
| `FileTools` | `write_file` and `edit_file` on one file | detailed, used by `Memory` |
| `Memory` | the consolidation of a session into the memory files | composition |
| `MemoryProofs` | type correctness, what the consolidation neither loses nor repeats, what an edit replaces | proofs |
| `Skills` | how a prompt gets its skills while their files change | detailed |
| `SkillsProofs` | type correctness, what a prompt says of a skill | proofs |
| `MCCronService`, `MCGateway`, `MCConversation`, `MCMemory`, `MCSkills` | constants for TLC | instances |

A definition whose comment begins with "Mutant" is a plausible bug in the
definition that follows it.  It is not part of any specification: the entries
"mutants" of `PROJECT.json` put it in place of the original to show that the
property named there would notice.

### CronService

`store` is `s.store.Jobs`, reduced to the fields that are read again; a job's position
in the slice is its rank among the ids present, because ids are handed out in
creation order.  `disk` is what `loadStore` would find in `cron.json`.  `armed` are
the timers that `s.jobs` points to, `orphans` those it has forgotten.  `lock` is
`s.mu` together with the save in progress.  An operation that saves is three steps:
it changes memory and marshals the bytes, `WriteStore` writes them, and `Return`
releases the lock, after which the caller hears of it.  The process can die between
any two, so a job may be on disk, and run, that nobody was told of, or the bytes may
be cut in the middle.  A goroutine of `workers` holds the job its pointer designates
and whether that pointer still points into the live array; `Moved` is what
`filterJobs`, also of an id that is not there (`RemoveUnknown`), and a growing append
do to such pointers, and a write through a dead pointer is lost.

The kinds of job are "at" (one time, removed after its run), "keep" (one time,
disabled after its run; the cron tool makes none, a `cron.json` written by hand or
another caller of AddJob may), "every" (interval or cron expression) and "bad" (an
expression gocron refuses).

The file may fail in three ways: a death inside `os.WriteFile` leaves a file in which
`loadStore` finds nothing, `os.WriteFile` may return an error, which is only logged,
and `os.ReadFile` may (`StartUnread`): the service then begins with no job and the
next save overwrites the file.  What the code promises is stated next to what such a
fault costs, in history variables: `accepted`, `dropping` and `gone` are the jobs
whose AddJob saved them, whose removal began, and was saved; `stale` says that a
fault made the file differ from memory and no write has made it good yet; `lost` are
the accepted jobs a fault cost, `back` the removed jobs it brought back.  `rearmed`
are the jobs that were enabled while they had a timer, `runs` counts publications.

`phase` takes Stop apart: the timers stop, `s.scheduler` becomes nil, `s.running`
becomes false, the last two without the lock.  The agent is stopped after the cron
service and may still call it: in phase "nil" `AddJob` and `EnableJob` reach a nil
scheduler, and the process panics (`SchedulePanics`).

`Reminders` says what this is for: a reminder is accepted once, stays until it is
gone for good, begins to run only in between, and a one-time reminder is published
once, unless its user schedules it again while it is scheduled; storage that may fail
may bring a removed one back when the process dies.  `ImplementsReminders` is the
refinement; a reminder is accepted when the file holds its job, and a run begins,
abstractly, when makeTask's closure finds its job.

### Gateway

A source is a channel or a cron job; `handler[s]` are the messages its goroutines
want to publish, which is also the state in which they wait for room.  A poller
handles one message after the other (`Receive`); gocron starts a goroutine for every
firing of a job (`Fire`), so the tasks of a job wait side by side and may overtake each
other.  `agent` and `dispatcher` are the two goroutines that serve the bus, with the
message each holds.  `main` starts the channels one by one, the dispatcher, cron and the agent, and
gives up when one of them fails; pollers and timers publish before the agent runs.
The API's server comes into being in a goroutine of its own, after which a signal
can stop it.  `main` then walks through the shutdown: the channel service cancels the
dispatcher, stops its channels one by one (each waits for its handler), waits for
the dispatcher; then cron, whose tasks are abandoned after a timeout; then the
agent is cancelled and waited for.  A `select` whose context is cancelled may
still take a message.  A reply is the message it answers, so that order and
multiplicity can be stated; its `text` is FALSE when there is nothing to send.  A
send that fails is only logged: `DispatchSend` goes on with or without it.

The session of WeChat may expire while its poller runs.  The poller then asks for
a new login, once, with a context that nobody cancels, and polls again when
somebody has scanned the code; a second expiry ends it.  `session` says where it is:
"first", "login", "again", "none" when the poller has ended, and "late" when the
login came after the channel was stopped, where the external library decides what
happens and the model allows everything.

`ImplementsChatQueue` maps what is with a handler, on the bus, with the agent and
with the dispatcher to what waits on each channel: a message is taken up there once,
with an answer or with none, and the messages of a chat's users in their order.  The
messages of a job keep no order (`Ordered` are the channels).  A job that broadcasts
waits on every channel, one that answers to nobody on none.  `AnswersInOrder` says the
same of what is sent.

The shutdown of this code need not end.  The dispatcher is stopped before the agent
and nobody reads the outbound buffer after it; an agent that then finds it full
waits for ever, and with it `main`, which waits for the agent itself or, earlier, for
a channel whose handler waits for the agent to take its message (`BusStuck`).  Or
WeChat is stopped while its poller waits for a login that nobody cancels, or runs
again after a login that came too late (`LoginPending`).  `ShutdownUnlessStuck` says
that these are the only two, and `NoDeadlock` says of every state what it needs for
that: while the gateway serves, somebody who holds a message can go on without
anybody else (a handler with room on the bus, the agent, the dispatcher), and in the
shutdown `main` or somebody it waits for can, except in those two.  `StoppedIsSilent`
is the other side: when the channel
service has stopped no handler is at work and no poller can take a message, although
pollers end and begin by themselves meanwhile.

### Conversation

`sessions` is the map of sessions in memory, `files` the messages of each session
file.  A message keeps its role, its turn and the number of tool calls or the call it
answers.  `BeginTurn` loads the session if need be, cuts the history window, and
appends the user's message; `Complete`, `CompleteFails` and `ExecuteToolCall` are
the loop; `Reply` publishes and `Save` comes after it, whereas `/new` clears and
saves first and confirms afterwards.  `Save` is one step with its possible results,
since nobody reads the file meanwhile: the whole session, the old file (it could
not be created), or any prefix (a line could not be written, or the process died).

`GetOrCreate` takes any error of `os.Open` for a session that does not exist, and the
scanner stops, with an error nobody looks at, when a read fails or a line is longer
than 64 KB: `Misread` are the sessions that come of it, nothing or a beginning, and the
Save of the turn truncates what was not read.

Three history variables say what the code cannot promise.  `failed` are the chats
whose last Save returned an error: memory is ahead of the file, and a `/new` that
could not be saved is undone by a crash, so `Crash` takes its promise back.  `torn`
are the chats whose file may lack its end, `damaged` those that were read from such
a file or read in part: their session may end with a call that has no result, and
stays so until the next `/new`.

`SessionStore` says what this is for: a chat grows by what is said in it, whatever
happens in others, and is saved before the agent turns to another; a process that
dies falls back to what was saved; and when a chat is first used after a start its
end, or all of it, may be overlooked and is then lost (`used` are the chats for which
that is past).  For `ImplementsSessionStore` a session that is not loaded is what its
file says, so that loading on demand cannot be seen, and the chat of a turn is busy
until its Save.

`StepsLeft` counts what a turn may still do; `TurnShrinks` says that every step
lowers it, which is why `TurnEnds` needs only that the agent's goroutine runs.

### FileTools and Memory

`file` is `MEMORY.md`, a short sequence of words.  `edit_file` is two steps, for it
reads, replaces and writes, and somebody else may write in between
(`SomebodyWrites`).  `Count` and `Replace` are what `strings.Count` and
`strings.Replace` do; `EditExact` compares them with a reference that speaks of
prefixes and suffixes.  It allows a second occurrence that overlaps the replaced
one, because `strings.Count` does not see it.  A failed write leaves the old file or
a prefix of the new one; an append whose writing fails reports success, since its
error is assigned to an inner variable.

`session` and `saved` are the messages, by number, in the session and in its file.  A
turn adds one message (`Turn`), calls the tools (`ToolStep`) and ends with a Save; `/new`
clears the session, summarised or not, and saves it (`NewCommand`).  A Save may fail or
break off, which nobody acts on (`SaveFails`), the process may die in it, and what a
restart reads may be a beginning of the file.

The consolidation is a sequence of writes: an entry at the end of `HISTORY.md`, the
new `MEMORY.md`, and the session without its old messages, in memory only, which
the next turn saves.  Each can fail, or the process can die in or after it, and the
next attempt begins anew with what is there.  `Accounted` says where a message with a
text is that the session does not hold: in an entry, or the model had none for it
(`untold`), or a `/new` took it (`dropped`), or a Save did not write it or a load did not
read it (`lost`).  `RepeatsBounded` says that only failures and crashes make the model
summarise a message again.

No code calls the consolidation, and the file tools are not registered with the
agent.  The model runs both in the agent's goroutine, where their helpers are
meant to be used: the tools in a turn, the consolidation between turns.

### Skills

A `SKILL.md` is reduced to the form of its frontmatter and to what is marked and
required in it.  `pc` is the loop in which the agent is while it builds one prompt,
`todo` the skills the loop has still to visit, `found` those it keeps; each visit
reads the file again.  `EditSkill` and `InstallOrRemove` are people at work
meanwhile, and `touched` records which skills that concerns.  The loops visit the
skills in any order, where the code takes them by name.  Environment variables are
those of the process and do not change.

## What the runs check

| run | bounds | what it shows |
|---|---|---|
| `cron_storage` | 2 one-time jobs, 1 task, 1 RunJob caller, deaths inside a write | types; accepted jobs stay, removed ones stay away, file and memory agree, enabled jobs have a timer |
| `cron_live` | 1 job of any kind, 2 tasks, 1 forgotten timer, all three faults of the file | the same under failing reads and writes; a one-time job publishes once unless it is enabled while it has a timer, and under fairness does so and is removed; disabled and removed jobs have no timer, with the same exception; refinement of `Reminders` |
| `gateway_queue` | Telegram with users, WeChat whose session may expire, a broadcasting job, buffers of 2, 2 messages per source | types; order of answers, none twice, silence after the stop; refinement of `ChatQueue` |
| `gateway_live` | WeChat whose session may expire, a job that answers to nobody, buffers of 1, 2 messages per source | nobody waits for each other in a circle; every message is worked off; the shutdown ends, or is stuck in one of the named ways |
| `conv_turns` | 2 chats, 3 turns or commands, 2 requests of 1 call, window 5, 1 crash, torn and failing saves, sessions that cannot be opened or are read in part | types; every request is well formed; `/new` is final; memory agrees with the file; refinement of `SessionStore`; every step shortens a turn; turns end |
| `memory_files` | files of up to 2 of 2 words, 3 messages (one without text), 1 kept, 1 failed consolidation, 1 crash, 1 foreign write, `/new`, failing reads, writes and Saves | types; every message is accounted for and none repeated without a failure; an edit is exact |
| `skills_prompt` | 2 skills in every state, 1 command, 1 variable, 2 edits | types; a skill that does not change is in the prompt as it is |

Why these bounds are enough to meet the cases: two jobs make the slice move and
indices shift; two tasks let two runs of one job overlap; crashes at any step and
restarts, as often as they like, and one RunJob caller cover the races on the pointer
and the index; one forgotten timer is what a second publication takes.  Buffers of
one or two places are full most of the time, as the real ones of 1024 would seldom
be, and two messages of a job may wait side by side.  The window of `conv_turns` is
exactly the length of the longest turn, 1 + MaxIteration * (1 + MaxCalls), the
smallest at which the property can hold, so an iteration too many or a cut in the
wrong place shows; with one crash a chat is read from a torn file, or in part, and
saved again, and a chat that was not used before it is read after it.  `runs`
saturates at 2: it only matters whether a job ran never, once, or again.  Two words
are enough for two occurrences apart from each other; overlapping ones need three and
are left to the theorem, which holds for any length; three messages with one to keep
give two consolidations.

The bounds and assumptions, by constant.  Cron: `MaxJobs` calls of AddJob, with
distinct ids (`newID` may repeat one, which is listed as a hazard); `Tasks`
goroutines for fired timers, `Runners` callers of RunJob; `MaxOrphans` timers per job
that the service has lost, 0 meaning that the agent never enables a job that is
scheduled, as in `cron_storage`; `DiskFaults` "crash" and "error" for writes that are
torn or fail, "read" for a file that cannot be read at a start.
Gateway: `MaxMsgs` messages per source; `Writers` are the channels whose users write,
`Mute` those whose users also send media without text, `Expiring` those whose
session may expire.  Conversation: `MaxTurns`, `MaxCalls`, `MaxCrashes` as their names
say; `StopWithCalls`, `TornSaves`, `SaveFaults` and `LoadFaults` admit the unusual
behaviour of the model and the disk.  Memory: `MaxLength` of a file,
`MaxOthers` foreign writes, `MaxMessages`, `KeepCount`, `Blank` messages without text,
`MaxFailures`, `MaxCrashes`, and `Faults` of reads and writes.  Skills: `MaxEdits`.

The runs do not check for deadlock where the program ends or users stop when a
bound is reached: the gateway exits, and after `MaxTurns` or `MaxMessages` nobody
writes any more.

### Disagreements between code and documentation

Each of these runs checks one property and finds it violated.

* `cron_disable`: enabling a scheduled job again makes `s.jobs` forget a timer,
  which no later disabling stops.
* `cron_twice`: enabling a scheduled one-time job again arms a second timer for the
  same date, and both publish, whereas the cron tool speaks of one-time execution.
* `gateway_mute`: a WeChat message without text makes `msg[0]` panic in the
  agent's goroutine.
* `conv_window`: a turn longer than the window makes the history begin with a tool
  or assistant message.  With the real sizes, three calls per answer suffice.
* `skills_frontmatter`: the dot in the expression for a frontmatter matches no
  newline, so only a frontmatter of one line is recognised.

Other things met while modelling, for which the repository states nothing to
compare with, are hazards with a note: the status "ok" of a job whose time of last
run was written to a dead array, the index of `RunJob`, the nil scheduler during the
shutdown, the answer that carries tool calls and says "stop", the session that cannot
be opened or holds a line longer than 64 KB, the torn session file, the `cron.json`
that is lost when the process dies in `os.WriteFile` or cannot be read, the error of
`Save` that `/new` ignores, the signal that comes before the API has its server.
Setting `StopWithCalls` shows the first of `Conversation`; the others are in the
runs, with the exceptions named above.

### Fairness

`CronService!Fairness`: gocron's goroutines are scheduled, and its timers fire; the
number of goroutines is a bound of the model, not of the code, so a timer that
waits for one repeatedly gets one (strong fairness); `sync.RWMutex` hands the lock
to waiting goroutines in turn, so who waits for it repeatedly gets it (strong
fairness); the write under the lock and the unlock return.  Nothing is assumed of the agent, of
Start, Stop or of crashes.

`Gateway!Fairness`: every goroutine that can run does; Go serves the senders blocked
on a channel in their order (strong fairness of `Publish` and `AgentReply`); a
`select` picks among its ready cases at random, so it does not miss a cancelled
context for ever (strong fairness of `AgentStop`, `DispatchStop`); a poller that
runs when its channel is stopped ends (`StoppedPollerEnds`), whichever of its
sessions it is in.  Users, the signal and the person who scans the code are not
assumed to come.  A turn of the agent and a send are assumed to
end: requests to the model have a timeout, the commands of the bash tool have none, so
for a turn that runs one this is an assumption and not a fact of the code.

`Conversation!FairSpec`: the agent's goroutine runs.  The client of the model has a
timeout of 120 s.  The commands the model runs through the shell have none in the
code: that they end is an assumption, and the hazard at `bash_tools.go:58`.

## What is proved

Each theorem holds for every value of the constants that satisfies the named
assumptions of its module and what is said with it.  Every invariant and action
property that a passing run checks is also proved, and so are the three refinements.
The disagreements above each have a theorem that names their only cause: with
it excluded, the property the run refutes holds (`DisabledHasNoTimer` and `OneTimePublishesOnce`, for jobs that were not enabled while
they had a timer, `OnlyEmptyMessagesKill`, `RequestsBeginWithUser`,
`OneLineSkillsAreReturned`).

### Cron

`CronServiceProofs!TypeCorrect`: the state is well typed.  Type correctness is not
inductive alone: the number of runs and the fields of a job are written through a
goroutine's pointer, so the invariant carries `Pointers` (a goroutine at work has a
pointer to a job id, and a live pointer designates a job that is present) and
`DownQuiet` (a dead process holds no lock, job or goroutine).  The proof goes action
by action; the lemmas say what moving the slice, dying and advancing one goroutine
do to goroutines and pointers.

`CronStorageProofs!RemovalIsFinal` (no assumption): `[]RemovedStaysGone`.  The
invariant `GoneInv` adds that a job that is gone, and was not brought back, is not in
the bytes about to be written, that the job the write in progress will take out of
the file is neither there nor in memory, and that ids not yet handed out are nowhere.

`CronStorageProofs!AcceptedIsDurable` (no assumption): `[]AcceptedDurable`, with
`KeptInv`: an accepted job that nobody removes and no fault cost is in the memory of a
process that is up, in the bytes about to be written, and in the file unless that is
stale.

Both rest on `StepForms`, which shows that every one of the service's actions has
one of six forms (load the file or fail to, die, write the bytes, release the lock,
begin a save, or leave presence alone), so that the invariants are shown for the forms
and not again for each action.

`CronTimersProofs` is about timers and their tasks.

* `EnabledHasATimer` (no assumption): `[]EnabledIsScheduled`.
* `OneTimePublishesOnce` (no assumption): `[]AtRunsOnce`.  `OnceInv` says that
  ids not handed out are nowhere (`Absent`) and have no timer (`Untimed`), that a task
  works on the job it was fired for (`OwnPointer`), and, of each one-time job that was
  not enabled while it had a timer, that it has not run while its timer is there, and
  has one task that publishes while it has not run (`Once`).  `TimerForms` reduces the
  actions to what they do to timers.
* `DisabledHasNoTimer` (for no caller of RunJob, as in the repository):
  `[]DisabledNotArmed`, with the invariant `Quiet`.
* `ServiceKeepsPromises` (no assumption): the refinement `Spec =>
  ImplementsReminders`.  `LedgerInv` says what the promises of the abstract
  specification rest on: only an accepted job, or the one whose save is in progress,
  is in memory, in the file or in the bytes about to be written, and one save adds or
  removes one job.
* `FileAgreesWithMemory` (no assumption): `[]DiskAgrees`.  `AgreeInv`
  speaks of what will have been written when the save in progress has ended, and
  excepts the job a goroutine wrote and has yet to save.

### Gateway

`GatewayProofs!GatewayTypeCorrect`: `[]TypeOK`, so no buffer exceeds its capacity.
`Holding` is the strengthening: the agent holds a message when it publishes, the
dispatcher when it sends.

`GatewayOrderProofs!GatewayKeepsOrder`: `[]AnswersInOrder`.  A message passes from its
handler over a buffer, the agent, a buffer and the dispatcher to a channel; in
`OrderInv` each of these places holds none of the messages in the places before it and,
of a chat's users, only older ones, and none that its source has not produced.

`GatewayOrderProofs!StoppedChannelsAreSilent`: `[]StoppedIsSilent`.  `SilentInv` says of
every moment of the shutdown which channels are stopped already: those that are
neither still to be stopped nor waited for.

`GatewayOrderProofs!GatewayIsAQueue` (for `Mute = {}`: every message has a text, or the
agent panics): the refinement `Spec => ImplementsChatQueue`.  `OrderInv` gives that what
is sent is the oldest of its source, if that is a channel; `QueueInv` that the dispatcher sends only where
the reply is meant to go; `BeforeServing` that the agent and the dispatcher are still
when they are started.

`GatewayOrderProofs!OnlyEmptyMessagesKill` (for `Mute = {}`): `[]NoMessageKills`; no
handler, buffer or goroutine ever holds a message without a text.

`GatewayOrderProofs!GatewayDoesNotDeadlock`: `[]NoDeadlock`.  `RunningInv` says which
goroutines run at which point of `main` and which have been told to stop; from it
follows, place by place along the way of a message, that whoever waits waits for
somebody nearer to the dispatcher, and that one waits for nobody.

### Conversation

`ConversationProofs!ConversationTypeCorrect`: `[]TypeOK`, with `WorkOK`: which chat,
session and calls there are in each part of the loop, so that every append meets a
session and `iteration` stays in its range.

`NewForgets`: `[]FreshStart`.  `FreshInv` says it of every place a message can come
back from, the session and, unless its last Save failed, the file of each chat, and
that nothing is left in either when `/new` is confirmed.

`RequestsAreWellFormed` (`TurnFits`: no answer with calls says stop, and `Window >= 1 + MaxIteration * (1 + MaxCalls)`): `[]RequestWellFormed`.
`FormInv` says that every session and every undamaged file consists of turns that
each begin with a user's message and in which calls and results stand together, and
how far the last turn has come; the window, being as long as the longest turn, always
holds the beginning of one, and trimming to the first such beginning keeps the
form.

`RequestsBeginWithUser` (only `Window >= 1 + MaxIteration * (1 + MaxCalls)`):
`[]HistoryStartsWithUser`, also for damaged chats and unusual answers.  `FormInv` is of
no use there, since a torn file holds the beginning of a conversation, which need
not have its form; `LedInv` says instead that every message has one of the user at
most the length of a turn before it, which every beginning inherits.

`TurnsAreBounded`: `TurnShrinks`, step by step of a turn from `TypeOK` and `WorkOK`.

`MemoryAgreesWithFiles` (no assumption): `[]Remembered`, with `RememberInv`: only the
chat in work may differ from its file.

`SessionsAreAStore` (no assumption): the refinement `Spec =>
ImplementsSessionStore`.  Each action is mapped to one of `Say`, `Forget`, `Save`,
`SaveFails`, `Die` or a stutter; that nothing is seen of loading and restarting is
`RememberInv`, and a session that was misread is a beginning of what `Say` starts from.
`StoreHasLittleToLose` shows what the abstract
specification is worth: chats that are neither busy nor failed have lost nothing
after a crash.

### Memory and skills

`MemoryProofs!MemoryTypeCorrect`: `[]TypeOK`, for files and texts of any length; a
write that broke off and an edit leave a sequence of words.

`MemoryProofs!EditIsExact`: `EditExact`.  `Count` is a function defined by recursion from
the end of the file to its beginning.  The library's induction theorems cannot be
used, so the proof takes the least counterexample instead, by the well-ordering of
the naturals: once to show that the recursive equation has a solution
(`CountingExists`) and once to show what each value says of the occurrences behind
its position (`CountingFrom`).  Then a count of one means one occurrence and none
apart from it (`FoundMeansUnique`), and it is the one that `Replace` replaces.

`MemoryProofs!NothingIsLost`: `[]Accounted`.  `AccountInv` adds which messages the job
works on, that they have their entry before the trim, and that outside of a turn and
its Save every message of the session is in the file a crash falls back on, or known
to be lost.

`MemoryProofs!RepeatsNeedFailures`: `[]RepeatsBounded`.  `RepeatInv` counts the entries
of a message by where it is: an entry written by the job in progress is the one
that the bound leaves room for.

`SkillsProofs!SkillsTypeCorrect`: `[]TypeOK`, with `ReadingSkill`: the summary looks up
what is missing only for a skill.

`SkillsProofs!PromptCurrent` (for any skills, commands, variables and number of
edits): `[]PromptIsCurrent`.  The property only speaks of finished prompts;
`PromptInv` says of every untouched skill how far it has come in the loop the agent
is in, whether it still has to be visited, and that what was decided about it is
still true (`SameSkill` and `OtherCommand`: nothing said of a skill changes unless
its file or a command it requires does).

`SkillsProofs!OneLineSkillsAreReturned`: `Spec /\ []OneLineEach =>
[]AlwaysSkillsReturned`, from the same invariant.

Only model-checked: liveness (`Answered`, `ShutdownUnlessStuck`, `TurnEnds`,
`OneTimeRuns`, `PublishedIsRemoved`), since the proof system does not reason about
fairness.  The parts of it that are safety are proved: `NoDeadlock` and
`TurnShrinks`.

## What is not modelled

* Texts (prompts, answers, logs), settings and message types: data without behaviour.
* The times of next runs and the queries ListJobs and Status, which read only; ids
  that collide, since the model hands out distinct ones.
* `read_file`, `GetRecentMemories`, `ListMemoryFiles`, the daily notes: they read only or
  have no caller.  Checks of arguments and of directories in the tools.
* HTTP and shell, and the libraries gocron, telebot and the WeChat client except for
  how the code uses them.
* A signal during the start, which ends the process at once; the five seconds that
  stopping the API may take.
* What has no caller or no body: event bus, cache, agent turn, `MessageBus.Close`,
  `EstimateMessageTokens`, the queries about the requirements of skills.

`PROJECT.json` gives the reason for each component.

## Plan

Done: what loses users' data or messages (cron, gateway with WeChat's sessions,
conversation), then what only touches files (skills, memory, file tools), with the
theorems above.  Left:

1. Times of next runs, as ListJobs shows them and as `executeJob` writes them after
   EnableJob has cleared them, and ids that collide.
2. The tool registry: the arguments a model may send, and the channel put into them.
