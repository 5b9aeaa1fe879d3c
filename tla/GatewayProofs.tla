--------------------------- MODULE GatewayProofs ---------------------------
(***************************************************************************)
(* Type correctness of the gateway, for any channels, jobs, capacity and   *)
(* number of messages: the buffers stay within their capacity, and only    *)
(* messages of sources are on the bus and sent to users.                   *)
(*                                                                         *)
(* Types alone are not inductive: the agent publishes and the dispatcher   *)
(* sends what it holds, which must be a message by then.                   *)
(***************************************************************************)
EXTENDS Gateway, TLAPS

Holding ==
    /\ agent.pc \in {"turn", "reply"} => agent.msg \in Message
    /\ dispatcher.todo # {} => dispatcher.msg \in Message

GatewayInv == TypeOK /\ Holding

USE OrderAssumption, MaxMsgsAssumption, WritersAssumption, ExpiringAssumption,
    CapacityAssumption

(* The bus keeps messages only, and no more than its capacity. *)
LEMMA PublishBounded ==
    ASSUME NEW q \in Seq(Message), Len(q) < Capacity, NEW m \in Message
    PROVE  Append(q, m) \in Seq(Message) /\ Len(Append(q, m)) <= Capacity
OBVIOUS

LEMMA ConsumeBounded ==
    ASSUME NEW q \in Seq(Message), q # <<>>, Len(q) <= Capacity
    PROVE  Head(q) \in Message /\ Tail(q) \in Seq(Message) /\ Len(Tail(q)) <= Capacity
OBVIOUS

(* A reply goes to channels. *)
LEMMA RecipientsAreChannels == \A m : Recipients(m) \subseteq Channels
BY DEF Recipients

LEMMA GatewayInit == Init => GatewayInv
<1> SUFFICES ASSUME Init PROVE GatewayInv
  OBVIOUS
<1>1. inbound \in Seq(Message) /\ Len(inbound) <= Capacity
  BY DEF Init, BusInit
<1>2. outbound \in Seq(Message) /\ Len(outbound) <= Capacity
  BY DEF Init, BusInit
<1>3. started \in 0..Len(Order)
  BY DEF Init
<1>4. sent \in [Channels -> Seq(Message)]
  BY DEF Init
<1>5. handler \in [Sources -> SUBSET Message] /\ count \in [Sources -> 0..MaxMsgs]
  BY DEF Init
<1>6. /\ agent \in [pc : {"idle", "turn", "reply", "stopped"}, msg : Message \cup {NoMsg}]
      /\ dispatcher \in [pc : {"idle", "sending", "stopped"}, msg : Message \cup {NoMsg},
                         todo : SUBSET Channels]
  BY DEF Init
<1>7. stopping \in [todo : SUBSET Channels, waits : Channels \cup {NoChannel}]
  BY DEF Init
<1>8. Holding
  BY DEF Init, Holding
<1> QED  BY <1>1, <1>2, <1>3, <1>4, <1>5, <1>6, <1>7, <1>8 DEF Init, GatewayInv, TypeOK

LEMMA GatewayNext == GatewayInv /\ [Next]_vars => GatewayInv'
<1> SUFFICES ASSUME GatewayInv, [Next]_vars PROVE GatewayInv'
  OBVIOUS
<1> USE DEF GatewayInv, TypeOK, Holding, mainVars
<1>1. ASSUME NEW s \in Sources, Receive(s) PROVE GatewayInv'
  <2>1. count'[s] \in 1..MaxMsgs /\ count' \in [Sources -> 0..MaxMsgs]
    BY <1>1 DEF Receive
  <2>2. ASSUME NEW b \in BOOLEAN
        PROVE  [from |-> s, n |-> count'[s], text |-> b] \in Message
    BY <2>1 DEF Message
  <2>3. handler' \in [Sources -> SUBSET Message]
    <3>1. CASE UNCHANGED handler
      BY <3>1
    <3>2. ASSUME NEW b \in BOOLEAN,
                 handler' = [handler EXCEPT ![s] = {[from |-> s, n |-> count'[s], text |-> b]}]
          PROVE  handler' \in [Sources -> SUBSET Message]
      BY <2>2, <3>2
    <3> QED  BY <1>1, <3>1, <3>2 DEF Receive
  <2> QED  BY <1>1, <2>1, <2>3 DEF Receive
<1>2. ASSUME NEW s \in Sources, Publish(s) PROVE GatewayInv'
  <2>1. PICK m \in handler[s] :
          /\ PublishInbound(m)
          /\ handler' = [handler EXCEPT ![s] = @ \ {m}]
    BY <1>2 DEF Publish
  <2>2. m \in Message /\ handler' \in [Sources -> SUBSET Message]
    BY <2>1
  <2>3. inbound' \in Seq(Message) /\ Len(inbound') <= Capacity
    BY <2>1, <2>2, PublishBounded DEF PublishInbound
  <2> QED  BY <1>2, <2>2, <2>3 DEF Publish
<1>3. CASE AgentTake
  <2>1. PICK m \in {inbound[i] : i \in DOMAIN inbound} :
          /\ ConsumeInbound(m)
          /\ \/ m.text /\ agent' = [pc |-> "turn", msg |-> m] /\ UNCHANGED main
             \/ ~m.text /\ main' = "dead" /\ UNCHANGED agent
    BY <1>3 DEF AgentTake
  <2>2. m \in Message /\ inbound' \in Seq(Message) /\ Len(inbound') <= Capacity
    BY <2>1, ConsumeBounded DEF ConsumeInbound
  <2> QED  BY <1>3, <2>1, <2>2 DEF AgentTake
<1>4. CASE AgentAnswer
  BY <1>4 DEF AgentAnswer
<1>5. CASE AgentReply
  <2>1. outbound' \in Seq(Message) /\ Len(outbound') <= Capacity
    BY <1>5, PublishBounded DEF AgentReply, PublishOutbound
  <2> QED  BY <1>5, <2>1 DEF AgentReply
<1>6. CASE AgentStop
  BY <1>6 DEF AgentStop
<1>7. CASE DispatchTake
  <2>1. PICK m \in {outbound[i] : i \in DOMAIN outbound} :
          /\ ConsumeOutbound(m)
          /\ dispatcher' = IF Recipients(m) = {} THEN dispatcher
                           ELSE [pc |-> "sending", msg |-> m, todo |-> Recipients(m)]
    BY <1>7 DEF DispatchTake
  <2>2. m \in Message /\ outbound' \in Seq(Message) /\ Len(outbound') <= Capacity
    BY <2>1, ConsumeBounded DEF ConsumeOutbound
  <2> QED  BY <1>7, <2>1, <2>2, RecipientsAreChannels DEF DispatchTake
<1>8. ASSUME NEW c \in Channels, DispatchSend(c) PROVE GatewayInv'
  <2>1. Append(sent[c], dispatcher.msg) \in Seq(Message)
    BY <1>8 DEF DispatchSend
  <2>2. sent' = sent \/ sent' = [sent EXCEPT ![c] = Append(@, dispatcher.msg)]
    BY <1>8 DEF DispatchSend
  <2>3. sent' \in [Channels -> Seq(Message)]
    BY <2>1, <2>2
  <2> QED  BY <1>8, <2>3 DEF DispatchSend
<1>9. CASE DispatchStop
  BY <1>9 DEF DispatchStop
<1>10. CASE StartChannel
  <2>1. started' \in 1..Len(Order) /\ Order[started'] \in Channels
    BY <1>10 DEF StartChannel
  <2> QED  BY <1>10, <2>1 DEF StartChannel, Sources
<1>11. CASE StartDispatcher
  BY <1>11 DEF StartDispatcher
<1>12. CASE StartCron
  BY <1>12 DEF StartCron, Sources
<1>13. CASE StartAgent
  BY <1>13 DEF StartAgent
<1>14. CASE StartFails
  BY <1>14 DEF StartFails
<1>15. CASE StartApi
  BY <1>15 DEF StartApi
<1>16. CASE Signal
  BY <1>16 DEF Signal
<1>17. ASSUME NEW c \in Channels, StopChannel(c) PROVE GatewayInv'
  BY <1>17 DEF StopChannel
<1>18. CASE ChannelStopped
  BY <1>18 DEF ChannelStopped
<1>19. CASE DispatcherStopped
  BY <1>19 DEF DispatcherStopped
<1>20. CASE StopCron
  BY <1>20 DEF StopCron
<1>21. CASE AgentStopped
  BY <1>21 DEF AgentStopped
<1>22. ASSUME NEW c \in Expiring, PollerNext(c) PROVE GatewayInv'
  <2>1. CASE SessionExpires(c)
    BY <2>1 DEF SessionExpires
  <2>2. CASE LoggedIn(c)
    <3>1. c \in Sources
      BY DEF Sources
    <3> QED  BY <2>2, <3>1 DEF LoggedIn
  <2>3. CASE PollerEnds(c)
    BY <2>3 DEF PollerEnds
  <2> QED  BY <1>22, <2>1, <2>2, <2>3 DEF PollerNext
<1>23. ASSUME NEW s \in Sources, Fire(s) PROVE GatewayInv'
  <2>1. count'[s] \in 1..MaxMsgs /\ count' \in [Sources -> 0..MaxMsgs]
    BY <1>23 DEF Fire
  <2>2. [from |-> s, n |-> count'[s], text |-> TRUE] \in Message
    BY <2>1 DEF Message
  <2>3. handler' \in [Sources -> SUBSET Message]
    BY <1>23, <2>2 DEF Fire
  <2> QED  BY <1>23, <2>1, <2>3 DEF Fire
<1>24. CASE UNCHANGED vars
  BY <1>24 DEF vars
<1> QED
  BY <1>1, <1>2, <1>3, <1>4, <1>5, <1>6, <1>7, <1>8, <1>9, <1>10, <1>11, <1>12,
     <1>13, <1>14, <1>15, <1>16, <1>17, <1>18, <1>19, <1>20, <1>21, <1>22, <1>23,
     <1>24
     DEF Next, StartNext, MainNext

(* The state is well typed, and no buffer holds more than its capacity. *)
THEOREM GatewayTypeCorrect == Spec => []TypeOK
<1>1. GatewayInv => TypeOK
  BY DEF GatewayInv
<1> QED  BY <1>1, GatewayInit, GatewayNext, PTL DEF Spec
=============================================================================
