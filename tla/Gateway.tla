------------------------------ MODULE Gateway ------------------------------
(***************************************************************************)
(* The goroutines of the gateway around the message bus: one poller per    *)
(* chat channel, whose handler runs in the poller; the tasks of the cron   *)
(* jobs; the agent; the dispatcher of replies; and main, which starts the  *)
(* services one after the other and stops them in the same order.          *)
(***************************************************************************)
EXTENDS MessageBus, FiniteSets

CONSTANTS
    Order,      \* the chat channels that are enabled, as they are started
    CronJobs,   \* cron jobs that publish
    Target,     \* Target[c]: the channel named in cron job c
    MaxMsgs,    \* bound: messages per channel or job
    Writers,    \* the channels whose users write
    Mute,       \* channels whose users also send messages without text
    Expiring,   \* channels whose session may expire: WeChat
    NoChannel   \* no channel

Channels == {Order[i] : i \in DOMAIN Order}

ASSUME OrderAssumption ==
    /\ Order \in Seq(Channels)
    /\ \A i, k \in DOMAIN Order : Order[i] = Order[k] => i = k
ASSUME SourcesAssumption == Channels \cap CronJobs = {}
ASSUME NoChannelAssumption == NoChannel \notin Channels
ASSUME MaxMsgsAssumption == MaxMsgs \in Nat
ASSUME ExpiringAssumption == Expiring \subseteq Channels
ASSUME WritersAssumption == Writers \subseteq Channels /\ Mute \subseteq Writers

Sources == Channels \cup CronJobs
All == "all"

(* The channel a message of source s is answered on. *)
ReplyTo(s) == IF s \in Channels THEN s ELSE Target[s]

(* The n-th message of a source, and whether it has a text; a reply is the *)
(* message it answers.                                                     *)
Message == [from : Sources, n : 1..MaxMsgs, text : BOOLEAN]
NoMsg == [from |-> NoChannel, n |-> 0, text |-> FALSE]

VARIABLES
    handler,    \* the messages each source's goroutines want to publish
    count,      \* messages each source has produced
    polling,    \* the sources that run
    session,    \* where the poller of an expiring channel is
    agent,      \* the agent goroutine and the message it works on
    dispatcher, \* the dispatcher, the reply it sends, the channels to go
    sent,       \* the replies each channel has sent to its users
    main,       \* where main is
    started,    \* the number of channels that have been started
    server,     \* whether the API has its server
    stopping    \* the channels main has yet to stop, and the one it waits for

mainVars == <<main, started, server, stopping>>
vars == <<inbound, outbound, handler, count, polling, session, agent, dispatcher,
          sent, main, started, server, stopping>>

Init ==
    /\ BusInit
    /\ handler = [s \in Sources |-> {}]
    /\ count = [s \in Sources |-> 0]
    /\ polling = {}
    /\ session = [c \in Expiring |-> "none"]
    /\ agent = [pc |-> "stopped", msg |-> NoMsg]
    /\ dispatcher = [pc |-> "stopped", msg |-> NoMsg, todo |-> {}]
    /\ sent = [c \in Channels |-> <<>>]
    /\ main = "starting" /\ started = 0 /\ server = FALSE
    /\ stopping = [todo |-> {}, waits |-> NoChannel]

Alive == main \notin {"exited", "dead", "killed"}

(* Mutant: the channel service waits for the dispatcher without cancelling *)
(* its context.                                                            *)
NotCancelled == FALSE

DispatchCancelled == main \in {"channels", "cron", "agent"}
AgentCancelled == main = "agent"

-----------------------------------------------------------------------------
(* Pollers and cron tasks *)

(* An update is handed to the handler, which runs in the poller: the next  *)
(* one waits.  A sender who is not allowed, or a message that cannot be    *)
(* processed, is ignored.                                                  *)
Receive(s) ==
    /\ Alive /\ s \in polling \cap Writers /\ handler[s] = {}
    /\ count[s] < MaxMsgs
    /\ count' = [count EXCEPT ![s] = @ + 1]
    /\ \/ \E b \in {TRUE} \cup (IF s \in Mute THEN {FALSE} ELSE {}) :
             handler' = [handler EXCEPT ![s] = {[from |-> s, n |-> count'[s], text |-> b]}]
       \/ UNCHANGED handler
    /\ UNCHANGED <<inbound, outbound, polling, session, agent, dispatcher, sent, mainVars>>

(* The timer of a cron job fires, and a goroutine is started for its task, *)
(* also while earlier tasks of the job still wait for room on the bus.     *)
Fire(s) ==
    /\ Alive /\ s \in polling \cap CronJobs /\ count[s] < MaxMsgs
    /\ count' = [count EXCEPT ![s] = @ + 1]
    /\ handler' = [handler EXCEPT ![s] = @ \cup {[from |-> s, n |-> count'[s], text |-> TRUE]}]
    /\ UNCHANGED <<inbound, outbound, polling, session, agent, dispatcher, sent, mainVars>>

(* PublishInbound: handlers and tasks wait for room on the bus.  Tasks of  *)
(* the same job may overtake each other.                                   *)
Publish(s) ==
    /\ Alive
    /\ \E m \in handler[s] :
          /\ PublishInbound(m)
          /\ handler' = [handler EXCEPT ![s] = @ \ {m}]
    /\ UNCHANGED <<outbound, count, polling, session, agent, dispatcher, sent, mainVars>>

-----------------------------------------------------------------------------
(* The poller of WeChat *)

(* The session has expired: the poller asks for a new login.  The context  *)
(* of the login is never cancelled.                                        *)
SessionExpires(c) ==
    /\ Alive /\ session[c] = "first" /\ handler[c] = {}
    /\ session' = [session EXCEPT ![c] = "login"]
    /\ polling' = polling \ {c}
    /\ UNCHANGED <<inbound, outbound, handler, count, agent, dispatcher, sent, mainVars>>

(* Somebody has scanned the code, and the poller runs again.  It is late   *)
(* when the channel was stopped meanwhile: what the library does then is   *)
(* unknown.                                                                *)
LoggedIn(c) ==
    /\ Alive /\ session[c] = "login"
    /\ session' = [session EXCEPT ![c] = IF stopping.waits = c THEN "late" ELSE "again"]
    /\ polling' = polling \cup {c}
    /\ UNCHANGED <<inbound, outbound, handler, count, agent, dispatcher, sent, mainVars>>

(* The login fails, the poller returns an error, also that of a session    *)
(* expired again, or it has been stopped: there is no further attempt.     *)
PollerEnds(c) ==
    /\ Alive /\ session[c] # "none" /\ handler[c] = {}
    /\ session' = [session EXCEPT ![c] = "none"]
    /\ polling' = polling \ {c}
    /\ UNCHANGED <<inbound, outbound, handler, count, agent, dispatcher, sent, mainVars>>

(* A poller that runs when its channel is stopped comes to its end. *)
StoppedPollerEnds(c) ==
    stopping.waits = c /\ session[c] \in {"first", "again"} /\ PollerEnds(c)

PollerNext(c) == SessionExpires(c) \/ LoggedIn(c) \/ PollerEnds(c)

-----------------------------------------------------------------------------
(* The agent *)

(* processInboundMessage begins.  HandleCommand looks at the first byte of *)
(* the text: without one it panics, and the process dies.                  *)
AgentTake ==
    /\ Alive /\ agent.pc = "idle"
    /\ \E m \in {inbound[i] : i \in DOMAIN inbound} :
          /\ ConsumeInbound(m)
          /\ \/ m.text /\ agent' = [pc |-> "turn", msg |-> m] /\ UNCHANGED main
             \/ ~m.text /\ main' = "dead" /\ UNCHANGED agent
    /\ UNCHANGED <<outbound, handler, count, polling, session, dispatcher, sent, started,
                   server, stopping>>

(* A command answers with a text, a turn with the last answer of the       *)
(* model, which is empty after an error or before a tool call.             *)
AgentAnswer ==
    /\ Alive /\ agent.pc = "turn"
    /\ agent' = [agent EXCEPT !.pc = "reply"]
    /\ UNCHANGED <<inbound, outbound, handler, count, polling, session, dispatcher, sent,
                   mainVars>>

(* PublishOutbound, then the session is saved: the agent waits for room.   *)
AgentReply ==
    /\ Alive /\ agent.pc = "reply"
    /\ PublishOutbound(agent.msg)
    /\ agent' = [pc |-> "idle", msg |-> NoMsg]
    /\ UNCHANGED <<inbound, handler, count, polling, session, dispatcher, sent, mainVars>>

AgentStop ==
    /\ AgentCancelled /\ agent.pc = "idle"
    /\ agent' = [agent EXCEPT !.pc = "stopped"]
    /\ UNCHANGED <<inbound, outbound, handler, count, polling, session, dispatcher, sent,
                   mainVars>>

-----------------------------------------------------------------------------
(* The dispatcher *)

(* "all" is every channel; a name that is no channel is nobody. *)
Recipients(m) ==
    IF ReplyTo(m.from) = All THEN Channels ELSE {ReplyTo(m.from)} \cap Channels

(* Mutant: a reply for nobody ends the dispatcher. *)
DispatchTakeQuits ==
    /\ Alive /\ dispatcher.pc = "idle"
    /\ \E m \in {outbound[i] : i \in DOMAIN outbound} :
          /\ ConsumeOutbound(m)
          /\ dispatcher' = IF Recipients(m) = {} THEN [dispatcher EXCEPT !.pc = "stopped"]
                           ELSE [pc |-> "sending", msg |-> m, todo |-> Recipients(m)]
    /\ UNCHANGED <<inbound, handler, count, polling, session, agent, sent, mainVars>>

DispatchTake ==
    /\ Alive /\ dispatcher.pc = "idle"
    /\ \E m \in {outbound[i] : i \in DOMAIN outbound} :
          /\ ConsumeOutbound(m)
          /\ dispatcher' = IF Recipients(m) = {} THEN dispatcher
                           ELSE [pc |-> "sending", msg |-> m, todo |-> Recipients(m)]
    /\ UNCHANGED <<inbound, handler, count, polling, session, agent, sent, mainVars>>

(* SendMessage: an empty reply is not sent, a reply to something that is   *)
(* no chat of the channel is dropped, and a send that fails is not tried   *)
(* again.                                                                  *)
DispatchSend(c) ==
    /\ Alive /\ c \in dispatcher.todo
    /\ sent' \in {sent, [sent EXCEPT ![c] = Append(@, dispatcher.msg)]}
    /\ dispatcher' = IF dispatcher.todo = {c}
                     THEN [pc |-> "idle", msg |-> NoMsg, todo |-> {}]
                     ELSE [dispatcher EXCEPT !.todo = @ \ {c}]
    /\ UNCHANGED <<inbound, outbound, handler, count, polling, session, agent, mainVars>>

DispatchStop ==
    /\ Alive /\ DispatchCancelled /\ dispatcher.pc = "idle"
    /\ dispatcher' = [dispatcher EXCEPT !.pc = "stopped"]
    /\ UNCHANGED <<inbound, outbound, handler, count, polling, session, agent, sent, mainVars>>

-----------------------------------------------------------------------------
(* main, before the signal *)

(* A channel is started; its poller runs at once. *)
StartChannel ==
    /\ main = "starting" /\ started < Len(Order)
    /\ started' = started + 1
    /\ polling' = polling \cup {Order[started']}
    /\ session' = [c \in Expiring |-> IF c = Order[started'] THEN "first" ELSE session[c]]
    /\ UNCHANGED <<inbound, outbound, handler, count, agent, dispatcher, sent, main,
                   server, stopping>>

(* The dispatcher is started after the last channel. *)
StartDispatcher ==
    /\ main = "starting" /\ started = Len(Order)
    /\ dispatcher' = [dispatcher EXCEPT !.pc = "idle"]
    /\ main' = "startcron"
    /\ UNCHANGED <<inbound, outbound, handler, count, polling, session, agent, sent, started,
                   server, stopping>>

StartCron ==
    /\ main = "startcron"
    /\ polling' = polling \cup CronJobs
    /\ main' = "startagent"
    /\ UNCHANGED <<inbound, outbound, handler, count, session, agent, dispatcher, sent, started,
                   server, stopping>>

StartAgent ==
    /\ main = "startagent"
    /\ agent' = [agent EXCEPT !.pc = "idle"]
    /\ main' = "serving"
    /\ UNCHANGED <<inbound, outbound, handler, count, polling, session, dispatcher, sent,
                   started, server, stopping>>

(* A service that fails to start ends the process as it is. *)
StartFails ==
    /\ \/ main = "starting" /\ started < Len(Order)
       \/ main \in {"startcron", "startagent"}
    /\ main' = "exited"
    /\ UNCHANGED <<inbound, outbound, handler, count, polling, session, agent, dispatcher, sent,
                   started, server, stopping>>

(* The goroutine of the API sets the server that main will stop. *)
StartApi ==
    /\ main = "serving" /\ ~server
    /\ server' = TRUE
    /\ UNCHANGED <<inbound, outbound, handler, count, polling, session, agent, dispatcher, sent,
                   main, started, stopping>>

-----------------------------------------------------------------------------
(* main, after the signal *)

(* The API is stopped, which takes a server to stop, or main panics.  Then *)
(* the channel service: its context is cancelled, ...                      *)
Signal ==
    /\ main = "serving"
    /\ IF server
       THEN main' = "channels" /\ stopping' = [todo |-> Channels, waits |-> NoChannel]
       ELSE main' = "killed" /\ UNCHANGED stopping
    /\ UNCHANGED <<inbound, outbound, handler, count, polling, session, agent, dispatcher, sent,
                   started, server>>

(* ... its channels are stopped in the order a map is iterated, ... *)
StopChannel(c) ==
    /\ main = "channels" /\ stopping.waits = NoChannel
    /\ c \in stopping.todo
    /\ stopping' = [todo |-> stopping.todo \ {c}, waits |-> c]
    /\ UNCHANGED <<inbound, outbound, handler, count, polling, session, agent, dispatcher, sent, main,
                   started, server>>

(* Mutant: Stop of WeChat does not wait for its poller. *)
ChannelStoppedEarly ==
    /\ main = "channels" /\ stopping.waits # NoChannel
    /\ handler[stopping.waits] = {}
    /\ polling' = polling \ {stopping.waits}
    /\ stopping' = [stopping EXCEPT !.waits = NoChannel]
    /\ UNCHANGED <<inbound, outbound, handler, count, session, agent, dispatcher, sent,
                   main, started, server>>

(* ... each of which waits for the handler in progress, WeChat for the end *)
(* of its poller, ...                                                      *)
ChannelStopped ==
    /\ main = "channels" /\ stopping.waits # NoChannel
    /\ handler[stopping.waits] = {}
    /\ stopping.waits \in Expiring => session[stopping.waits] = "none"
    /\ polling' = polling \ {stopping.waits}
    /\ stopping' = [stopping EXCEPT !.waits = NoChannel]
    /\ UNCHANGED <<inbound, outbound, handler, count, session, agent, dispatcher, sent,
                   main, started, server>>

(* ... and the dispatcher is waited for. *)
DispatcherStopped ==
    /\ main = "channels"
    /\ stopping = [todo |-> {}, waits |-> NoChannel]
    /\ dispatcher.pc = "stopped"
    /\ main' = "cron"
    /\ UNCHANGED <<inbound, outbound, handler, count, polling, session, agent, dispatcher,
                   sent, started, server, stopping>>

(* Cron service: tasks that do not end are abandoned after a timeout.  The *)
(* agent's context is cancelled next.                                      *)
StopCron ==
    /\ main = "cron"
    /\ polling' = polling \ CronJobs
    /\ main' = "agent"
    /\ UNCHANGED <<inbound, outbound, handler, count, session, agent, dispatcher, sent, started,
                   server, stopping>>

AgentStopped ==
    /\ main = "agent" /\ agent.pc = "stopped"
    /\ main' = "exited"
    /\ UNCHANGED <<inbound, outbound, handler, count, polling, session, agent, dispatcher,
                   sent, started, server, stopping>>

-----------------------------------------------------------------------------
MainNext ==
    \/ (\E c \in Channels : StopChannel(c)) \/ ChannelStopped \/ DispatcherStopped
    \/ StopCron \/ AgentStopped

StartNext ==
    StartChannel \/ StartDispatcher \/ StartCron \/ StartAgent \/ StartFails \/ StartApi

Next ==
    \/ \E s \in Sources : Receive(s) \/ Fire(s) \/ Publish(s)
    \/ \E c \in Expiring : PollerNext(c)
    \/ AgentTake \/ AgentAnswer \/ AgentReply \/ AgentStop
    \/ DispatchTake \/ (\E c \in Channels : DispatchSend(c)) \/ DispatchStop
    \/ StartNext \/ Signal \/ MainNext

Spec == Init /\ [][Next]_vars

(* Go runs every goroutine that can run, and senders blocked on a channel  *)
(* are served in turn.  That a turn and a send end is assumed: requests to *)
(* the model have a timeout, commands of the bash tool have none.  A       *)
(* select whose context is cancelled picks among its ready cases at        *)
(* random, so it does not miss the cancellation for ever.                  *)
Fairness ==
    /\ \A s \in Sources : SF_vars(Publish(s))
    /\ \A c \in Expiring : SF_vars(StoppedPollerEnds(c))
    /\ WF_vars(AgentTake) /\ WF_vars(AgentAnswer) /\ SF_vars(AgentReply)
    /\ SF_vars(AgentStop)
    /\ WF_vars(DispatchTake) /\ WF_vars(\E c \in Channels : DispatchSend(c))
    /\ SF_vars(DispatchStop)
    /\ WF_vars(MainNext)

FairSpec == Spec /\ Fairness

-----------------------------------------------------------------------------
(* Properties *)

(* Type correctness; the buffers never hold more than their capacity. *)
TypeOK ==
    /\ inbound \in Seq(Message) /\ Len(inbound) <= Capacity
    /\ outbound \in Seq(Message) /\ Len(outbound) <= Capacity
    /\ handler \in [Sources -> SUBSET Message]
    /\ count \in [Sources -> 0..MaxMsgs]
    /\ polling \subseteq Sources
    /\ session \in [Expiring -> {"none", "first", "login", "again", "late"}]
    /\ agent \in [pc : {"idle", "turn", "reply", "stopped"}, msg : Message \cup {NoMsg}]
    /\ dispatcher \in [pc : {"idle", "sending", "stopped"}, msg : Message \cup {NoMsg},
                       todo : SUBSET Channels]
    /\ sent \in [Channels -> Seq(Message)]
    /\ main \in {"starting", "startcron", "startagent", "serving", "channels", "cron",
                "agent", "exited", "dead", "killed"}
    /\ started \in 0..Len(Order) /\ server \in BOOLEAN
    /\ stopping \in [todo : SUBSET Channels, waits : Channels \cup {NoChannel}]

(* On every channel no message is answered twice, and the answers to the   *)
(* users of a channel come in the order of their messages.                 *)
AnswersInOrder ==
    \A c \in Channels : \A i, k \in 1..Len(sent[c]) :
        i < k /\ sent[c][i].from = sent[c][k].from =>
            /\ sent[c][i].n # sent[c][k].n
            /\ sent[c][i].from \in Channels => sent[c][i].n < sent[c][k].n

(* A message without its text, which the agent replaces by its answer. *)
Id(m) == [from |-> m.from, n |-> m.n]
Ids(q) == {Id(q[i]) : i \in DOMAIN q}

(* The places of a message, the last one first. *)
Sending(c) == IF c \in dispatcher.todo THEN {Id(dispatcher.msg)} ELSE {}
Replies == Ids(outbound)
Working == IF agent.pc \in {"turn", "reply"} THEN {Id(agent.msg)} ELSE {}
Asked == Ids(inbound)
Handled == {Id(m) : m \in UNION {handler[s] : s \in Sources}}

Pending == Replies \cup Working \cup Asked \cup Handled

(* The messages that will be answered on a channel. *)
Waiting(c) == {m \in Sending(c) \cup Pending : c \in Recipients(m)}

(* The gateway implements one queue per source and channel: what is with a *)
(* handler, on the bus, with the agent and with the dispatcher is neither  *)
(* dropped, nor doubled, nor, if a channel's user wrote it, reordered,     *)
(* however full the bus, until its answer is sent, or turns out empty, or  *)
(* its send fails.                                                         *)
Abstract == INSTANCE ChatQueue WITH
    Source <- Sources,
    Channel <- Channels,
    Ordered <- Channels,
    To <- [s \in Sources |-> Recipients([from |-> s])],
    asked <- count,
    waiting <- [c \in Channels |-> Waiting(c)],
    answered <- [c \in Channels |-> [i \in DOMAIN sent[c] |-> Id(sent[c][i])]]

(* The process may die at a message without text: nothing is promised then. *)
ImplementsChatQueue == Abstract!Spec

(* A message that reached its handler is answered, or found to have no     *)
(* answer, as long as the gateway is serving.                              *)
Outstanding(s, n) ==
    [from |-> s, n |-> n] \in Pending \cup UNION {Sending(c) : c \in Channels}
Answered ==
    \A s \in Sources, n \in 1..MaxMsgs :
        Outstanding(s, n) ~> (~Outstanding(s, n) \/ main # "serving")

(* One way in which the shutdown may not end: the dispatcher has           *)
(* stopped and the agent waits for room on the full outbound buffer, while *)
(* main waits for the agent, or for a channel whose handler waits for room *)
(* on the full inbound buffer.                                             *)
BusStuck ==
    /\ dispatcher.pc = "stopped" /\ agent.pc = "reply" /\ Len(outbound) = Capacity
    /\ \/ main = "agent"
       \/ /\ main = "channels" /\ stopping.waits # NoChannel
          /\ handler[stopping.waits] # {} /\ Len(inbound) = Capacity

(* The other one: WeChat is stopped while its poller waits for a login, or *)
(* runs again after a login that ended too late to be stopped.             *)
LoginPending ==
    /\ main = "channels" /\ stopping.waits \in Expiring
    /\ session[stopping.waits] \in {"login", "late"}

(* What a goroutine can do without another one. *)
HandlerGoesOn(s) == handler[s] # {} /\ Len(inbound) < Capacity
AgentGoesOn ==
    \/ agent.pc = "idle" /\ (inbound # <<>> \/ AgentCancelled)
    \/ agent.pc = "turn"
    \/ agent.pc = "reply" /\ Len(outbound) < Capacity
DispatcherGoesOn ==
    \/ dispatcher.pc = "idle" /\ (outbound # <<>> \/ DispatchCancelled)
    \/ dispatcher.todo # {}

(* The goroutines do not wait for each other in a circle: while the        *)
(* gateway serves, one of those that hold a message can go on, and in the  *)
(* shutdown main or one of those it waits for, but for BusStuck and        *)
(* LoginPending.                                                           *)
NoDeadlock ==
    /\ main = "serving" /\ Pending # {} =>
          (\E s \in Sources : HandlerGoesOn(s)) \/ AgentGoesOn \/ DispatcherGoesOn
    /\ main = "channels" /\ stopping.waits = NoChannel =>
          stopping.todo # {} \/ dispatcher.pc = "stopped" \/ DispatcherGoesOn
    /\ main = "channels" /\ stopping.waits # NoChannel /\ ~BusStuck /\ ~LoginPending =>
          IF handler[stopping.waits] = {}
          THEN stopping.waits \in Expiring =>
                  session[stopping.waits] \in {"none", "first", "again"}
          ELSE HandlerGoesOn(stopping.waits) \/ AgentGoesOn \/ DispatcherGoesOn
    /\ main = "agent" /\ ~BusStuck => agent.pc = "stopped" \/ AgentGoesOn

(* After the signal the process exits, unless one of the two happens. *)
ShutdownUnlessStuck ==
    main = "channels" ~> main = "exited" \/ BusStuck \/ LoginPending

(* Once the channel service has stopped, no channel has a handler at work  *)
(* or a poller that may still take messages, a re-login of WeChat in       *)
(* progress at the signal included.                                        *)
StoppedIsSilent ==
    main \in {"cron", "agent"} =>
        \A c \in Channels :
            /\ c \notin polling /\ handler[c] = {}
            /\ c \in Expiring => session[c] = "none"

(* No message that a user can send kills the gateway. *)
NoMessageKills == main # "dead"
=============================================================================
