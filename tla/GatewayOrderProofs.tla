------------------------- MODULE GatewayOrderProofs -------------------------
(***************************************************************************)
(* The answers to the users of a channel come in the order of their        *)
(* messages, the gateway implements ChatQueue, a channel service that has  *)
(* stopped is silent, and nobody waits for each other in a circle, for any *)
(* channels, jobs, capacity and number of messages.                        *)
(*                                                                         *)
(* A message passes from its handler over the inbound buffer, the agent,   *)
(* the outbound buffer and the dispatcher to the users of a channel.  The  *)
(* order of the answers is kept because each of these places only holds    *)
(* messages older than those in the places before it, and for a cron job,  *)
(* whose tasks overtake each other, messages that differ from those in the *)
(* places before it: that is the inductive invariant.                      *)
(***************************************************************************)
EXTENDS GatewayProofs

USE OrderAssumption, MaxMsgsAssumption, CapacityAssumption

(* A message m is another than k, and older if a channel's user wrote      *)
(* both; so are those in M and those in K.                                 *)
Older(m, k) ==
    m.from = k.from => m.n # k.n /\ (m.from \in Channels => m.n < k.n)
Precedes(M, K) == \A m \in M, k \in K : Older(m, k)
Sorted(q) == \A i, k \in 1..Len(q) : i < k => Older(q[i], q[k])

(* No place holds a message that its source has not produced yet. *)
Produced(M) == \A m \in M : m.from \in Sources /\ m.n \in 1..count[m.from]

PendingInOrder ==
    /\ Precedes(Replies, Working \cup Asked \cup Handled)
    /\ Precedes(Working, Asked \cup Handled)
    /\ Precedes(Asked, Handled)
    /\ Sorted(inbound) /\ Sorted(outbound)
    /\ \A s \in Sources : \A m \in handler[s] : m.from = s
    /\ \A s \in Sources : \A m, k \in handler[s] :
          m # k => m.n # k.n /\ s \notin Channels
    /\ Produced(Pending)

SentInOrder(c) ==
    /\ Precedes(Ids(sent[c]), Sending(c) \cup Pending)
    /\ Precedes(Sending(c), Pending)
    /\ Sorted(sent[c])
    /\ Produced(Ids(sent[c]) \cup Sending(c))

OrderInv == PendingInOrder /\ \A c \in Channels : SentInOrder(c)

-----------------------------------------------------------------------------
(* Buffers *)

(* A message younger than all in a sorted buffer keeps it sorted. *)
LEMMA AppendSorted ==
    ASSUME NEW q \in Seq(Message), NEW m \in Message, Sorted(q), Precedes(Ids(q), {Id(m)})
    PROVE  Sorted(Append(q, m)) /\ Ids(Append(q, m)) = Ids(q) \cup {Id(m)}
<1>1. /\ Len(Append(q, m)) = Len(q) + 1
      /\ \A i \in 1..Len(q) : Append(q, m)[i] = q[i]
      /\ Append(q, m)[Len(q) + 1] = m
      /\ DOMAIN Append(q, m) = 1..(Len(q) + 1) /\ DOMAIN q = 1..Len(q)
      /\ Len(q) \in Nat
  OBVIOUS
<1>2. ASSUME NEW i \in 1..Len(q) PROVE Older(q[i], m)
  <2>1. Id(q[i]) \in Ids(q)
    BY <1>1 DEF Ids
  <2>2. Older(Id(q[i]), Id(m))
    BY <2>1 DEF Precedes
  <2> QED  BY <2>2 DEF Older, Id
<1>3. Sorted(Append(q, m))
  BY <1>1, <1>2 DEF Sorted
<1>4. Ids(Append(q, m)) = Ids(q) \cup {Id(m)}
  BY <1>1 DEF Ids
<1> QED  BY <1>3, <1>4

(* The head of a sorted buffer is the oldest message of its source. *)
LEMMA HeadOldest ==
    ASSUME NEW q \in Seq(Message), q # <<>>, Sorted(q)
    PROVE  /\ Sorted(Tail(q)) /\ Precedes({Id(Head(q))}, Ids(Tail(q)))
           /\ Ids(q) = {Id(Head(q))} \cup Ids(Tail(q))
<1>1. /\ Len(q) \in Nat /\ Len(q) > 0 /\ Len(Tail(q)) = Len(q) - 1 /\ Head(q) = q[1]
      /\ \A i \in 1..(Len(q) - 1) : Tail(q)[i] = q[i + 1]
      /\ DOMAIN Tail(q) = 1..(Len(q) - 1) /\ DOMAIN q = 1..Len(q)
  OBVIOUS
<1>2. Sorted(Tail(q))
  BY <1>1 DEF Sorted
<1>3. Precedes({Id(Head(q))}, Ids(Tail(q)))
  BY <1>1 DEF Sorted, Precedes, Ids, Id, Older
<1>4. ASSUME NEW i \in 1..Len(q) PROVE Id(q[i]) = Id(Head(q)) \/ Id(q[i]) \in Ids(Tail(q))
  <2>1. CASE i = 1
    BY <1>1, <2>1
  <2>2. CASE i # 1
    <3>1. i - 1 \in 1..(Len(q) - 1) /\ Tail(q)[i - 1] = q[i]
      BY <1>1, <2>2
    <3> QED  BY <1>1, <3>1 DEF Ids
  <2> QED  BY <2>1, <2>2
<1>5. Ids(Tail(q)) \subseteq Ids(q) /\ Id(Head(q)) \in Ids(q)
  BY <1>1 DEF Ids
<1>6. Ids(q) = {Id(q[i]) : i \in 1..Len(q)}
  BY <1>1 DEF Ids
<1>7. Ids(q) \subseteq {Id(Head(q))} \cup Ids(Tail(q))
  BY <1>4, <1>6
<1> QED  BY <1>2, <1>3, <1>5, <1>7

-----------------------------------------------------------------------------
LEMMA OrderInit == Init => OrderInv
<1> SUFFICES ASSUME Init PROVE OrderInv
  OBVIOUS
<1>1. Ids(<<>>) = {} /\ Sorted(<<>>)
  BY DEF Ids, Sorted
<1>2. Handled = {} /\ Working = {} /\ Replies = {} /\ Asked = {}
  BY <1>1 DEF Init, BusInit, Handled, Working, Replies, Asked
<1>3. \A c \in Channels : Sending(c) = {} /\ sent[c] = <<>>
  BY DEF Init, Sending
<1>4. \A s \in Sources : handler[s] = {}
  BY DEF Init
<1>5. PendingInOrder
  BY <1>1, <1>2, <1>4
     DEF PendingInOrder, Pending, Precedes, Produced, Init, BusInit
<1> QED  BY <1>1, <1>2, <1>3, <1>5 DEF OrderInv, SentInOrder, Pending, Precedes, Produced

(* Where a step adds no message to those that are pending, and leaves the  *)
(* dispatcher and the users alone, what was sent stays in order.           *)
LEMMA SentFrame ==
    ASSUME OrderInv, UNCHANGED <<count, sent>>, Pending' \subseteq Pending,
           dispatcher'.todo = dispatcher.todo, dispatcher'.msg = dispatcher.msg
    PROVE  \A c \in Channels : SentInOrder(c)'
<1>1. \A c \in Channels : Sending(c)' = Sending(c)
  BY DEF Sending
<1> QED  BY <1>1 DEF OrderInv, SentInOrder, Precedes, Produced

(* A step that moves no message keeps the order. *)
LEMMA OrderFrame ==
    ASSUME OrderInv,
           UNCHANGED <<inbound, outbound, handler, count, sent>>,
           UNCHANGED agent \/ agent'.pc \notin {"turn", "reply"},
           dispatcher'.todo = dispatcher.todo, dispatcher'.msg = dispatcher.msg
    PROVE  OrderInv'
<1>1. Working' \subseteq Working /\ Replies' = Replies /\ Asked' = Asked /\ Handled' = Handled
  BY DEF Working, Replies, Asked, Handled
<1>2. PendingInOrder'
  BY <1>1 DEF OrderInv, PendingInOrder, Pending, Precedes, Produced
<1> QED  BY <1>1, <1>2, SentFrame DEF OrderInv, Pending

-----------------------------------------------------------------------------
(* What the goroutines of the sources hold. *)
LEMMA InHandled ==
    /\ \A x : x \in Handled <=> \E t \in Sources : \E k \in handler[t] : x = Id(k)
    /\ \A x : x \in Handled' <=> \E t \in Sources : \E k \in handler'[t] : x = Id(k)
BY DEF Handled

(* A new message is younger than those its source has produced. *)
LEMMA NewOrder ==
    ASSUME GatewayInv, OrderInv, NEW s \in Sources, NEW b \in BOOLEAN,
           UNCHANGED <<inbound, outbound, agent, dispatcher, sent>>,
           count' = [count EXCEPT ![s] = @ + 1],
           s \in Channels => handler[s] = {},
           \/ handler' = handler
           \/ handler' = [handler EXCEPT ![s] =
                            @ \cup {[from |-> s, n |-> count[s] + 1, text |-> b]}]
    PROVE  OrderInv'
<1> USE DEF GatewayInv, TypeOK
<1>0. PICK new : new = [from |-> s, n |-> count[s] + 1]
  OBVIOUS
<1>1. count[s] \in Nat
  OBVIOUS
<1>m. PICK m : m = [from |-> s, n |-> count[s] + 1, text |-> b]
  OBVIOUS
<1>2. /\ handler'[s] \subseteq handler[s] \cup {m}
      /\ \A t \in Sources : t # s => handler'[t] = handler[t]
      /\ Id(m) = new
  BY <1>0, <1>m DEF Id
<1>3. ASSUME NEW t \in Sources, NEW k \in handler'[t]
      PROVE  k.from = t /\ Id(k) \in Handled \cup {new}
  <2>1. CASE k \in handler[t]
    BY <2>1 DEF Handled, OrderInv, PendingInOrder
  <2>2. CASE k \notin handler[t]
    BY <1>2, <1>3, <2>2, <1>m
  <2> QED  BY <2>1, <2>2
<1>4. Handled' \subseteq Handled \cup {new}
  BY <1>3 DEF Handled
<1>5. /\ Asked' = Asked /\ Working' = Working /\ Replies' = Replies
      /\ \A c \in Channels : Sending(c)' = Sending(c) /\ sent'[c] = sent[c]
  BY DEF Asked, Working, Replies, Sending
<1>6. \A M : Produced(M) => Produced(M)' /\ Precedes(M, {new})
  BY <1>0, <1>1 DEF Produced, Precedes, Older
<1>7. Produced({new})'
  BY <1>0, <1>1 DEF Produced
<1>8. ASSUME NEW t \in Sources, NEW k \in handler'[t], NEW l \in handler'[t], k # l
      PROVE  k.n # l.n /\ t \notin Channels
  <2>1. CASE k \in handler[t] /\ l \in handler[t]
    BY <1>8, <2>1 DEF OrderInv, PendingInOrder
  <2>2. CASE t = s /\ {k, l} \subseteq handler[s] \cup {m} /\ m \in {k, l}
    <3>1. s \notin Channels
      BY <1>8, <2>2
    <3>2. ASSUME NEW o \in handler[s] PROVE o.n # m.n
      <4>1. Id(o) \in Pending
        BY DEF Pending, Handled
      <4>2. o.from = s /\ o.n \in 1..count[s]
        BY <4>1 DEF OrderInv, PendingInOrder, Produced, Id
      <4> QED  BY <4>2, <1>1, <1>m
    <3> QED  BY <1>8, <2>2, <3>1, <3>2
  <2> QED  BY <1>2, <2>1, <2>2
<1>9. PendingInOrder'
  <2>1. Produced(Pending)' /\ Precedes(Pending, {new})
    BY <1>4, <1>5, <1>6, <1>7 DEF OrderInv, PendingInOrder, Pending, Produced
  <2> QED
    BY <1>3, <1>4, <1>5, <1>8, <2>1 DEF OrderInv, PendingInOrder, Pending, Precedes
<1>10. ASSUME NEW c \in Channels PROVE SentInOrder(c)'
  <2>1. /\ Produced(Ids(sent[c]) \cup Sending(c))'
        /\ Precedes(Ids(sent[c]) \cup Sending(c), {new})
    BY <1>5, <1>6 DEF OrderInv, SentInOrder
  <2>2. Pending' \subseteq Pending \cup {new}
    BY <1>4, <1>5 DEF Pending
  <2>3. Sending(c)' = Sending(c) /\ Ids(sent[c])' = Ids(sent[c]) /\ sent'[c] = sent[c]
    BY <1>5
  <2>4. Precedes(Ids(sent[c]), Sending(c) \cup Pending) /\ Precedes(Sending(c), Pending)
    BY DEF OrderInv, SentInOrder
  <2>5. Precedes(Ids(sent[c])', (Sending(c) \cup Pending)') /\ Precedes(Sending(c)', Pending')
    BY <2>1, <2>2, <2>3, <2>4 DEF Precedes
  <2> QED  BY <2>1, <2>3, <2>5 DEF OrderInv, SentInOrder
<1> QED  BY <1>9, <1>10 DEF OrderInv

(* What the handler of a poller, or one more task of a job, does. *)
LEMMA Arrives ==
    ASSUME NEW s \in Sources, Receive(s) \/ Fire(s)
    PROVE  /\ UNCHANGED <<inbound, outbound, agent, dispatcher, sent, polling, session, mainVars>>
           /\ s \in polling /\ count' = [count EXCEPT ![s] = @ + 1]
           /\ s \in Channels => handler[s] = {}
           /\ \E b \in BOOLEAN :
                 /\ Mute = {} => b = TRUE
                 /\ \/ handler' = handler
                    \/ handler' = [handler EXCEPT ![s] =
                                    @ \cup {[from |-> s, n |-> count'[s], text |-> b]}]
<1>1. CASE Receive(s)
  BY <1>1 DEF Receive, mainVars
<1>2. CASE Fire(s)
  <2>1. s \notin Channels
    BY <1>2, SourcesAssumption DEF Fire
  <2> QED  BY <1>2, <2>1 DEF Fire, mainVars
<1> QED  BY <1>1, <1>2

LEMMA ReceiveOrder ==
    ASSUME GatewayInv, OrderInv, NEW s \in Sources, Receive(s) \/ Fire(s)
    PROVE  OrderInv'
<1>1. count'[s] = count[s] + 1
  BY Arrives DEF GatewayInv, TypeOK
<1> QED  BY <1>1, Arrives, NewOrder

(* A published message is the youngest on the bus, and no longer handled. *)
LEMMA PublishOrder ==
    ASSUME GatewayInv, OrderInv, NEW s \in Sources, Publish(s)
    PROVE  OrderInv'
<1> USE DEF GatewayInv, TypeOK
<1>1. PICK m \in handler[s] :
        /\ UNCHANGED <<outbound, count, agent, dispatcher, sent>>
        /\ inbound' = Append(inbound, m)
        /\ handler' = [handler EXCEPT ![s] = @ \ {m}]
  BY DEF Publish, PublishInbound, mainVars
<1>2. Id(m) \in Handled /\ m.from = s /\ Id(m).from = s /\ m \in Message
  BY <1>1 DEF Handled, OrderInv, PendingInOrder, Id
<1>3. /\ handler'[s] = handler[s] \ {m}
      /\ \A t \in Sources : handler'[t] \subseteq handler[t]
  BY <1>1
<1>4. ASSUME NEW k \in Handled' PROVE k \in Handled /\ Older(Id(m), k)
  <2>1. PICK t \in Sources : \E l \in handler'[t] : k = Id(l)
    BY DEF Handled
  <2>2. PICK l \in handler'[t] : k = Id(l)
    BY <2>1
  <2>3. l \in handler[t] /\ l.from = t
    BY <1>3, <2>2 DEF OrderInv, PendingInOrder
  <2>4. t = s => l.n # m.n /\ s \notin Channels
    BY <1>3, <2>2, <2>3 DEF OrderInv, PendingInOrder
  <2> QED  BY <1>2, <2>2, <2>3, <2>4 DEF Handled, Older, Id
<1>5. Precedes(Replies \cup Working \cup Asked, {Id(m)}) /\ Precedes({Id(m)}, Handled')
  BY <1>2, <1>4 DEF OrderInv, PendingInOrder, Precedes
<1>6. Sorted(inbound') /\ Asked' = Asked \cup {Id(m)}
  BY <1>1, <1>2, <1>5, AppendSorted DEF OrderInv, PendingInOrder, Asked, Precedes
<1>7. Working' = Working /\ Replies' = Replies
  BY <1>1 DEF Working, Replies
<1>8. /\ \A t \in Sources : \A k \in handler'[t] : k.from = t
      /\ \A t \in Sources : \A k, l \in handler'[t] : k # l => k.n # l.n /\ t \notin Channels
  BY <1>3 DEF OrderInv, PendingInOrder
<1>9. PendingInOrder'
  BY <1>1, <1>2, <1>4, <1>5, <1>6, <1>7, <1>8
     DEF OrderInv, PendingInOrder, Pending, Precedes, Produced
<1>10. Pending' \subseteq Pending
  BY <1>2, <1>4, <1>6, <1>7 DEF Pending
<1> QED  BY <1>1, <1>9, <1>10, SentFrame DEF OrderInv

(* The agent takes the oldest message of the inbound buffer, ... *)
LEMMA AgentTakeOrder ==
    ASSUME GatewayInv, OrderInv, AgentTake
    PROVE  OrderInv'
<1> USE DEF GatewayInv, TypeOK
<1>1. PICK m :
        /\ inbound # <<>> /\ m = Head(inbound) /\ inbound' = Tail(inbound)
        /\ agent' = [pc |-> "turn", msg |-> m] \/ UNCHANGED agent
  BY DEF AgentTake, ConsumeInbound
<1>2. agent.pc = "idle" /\ UNCHANGED <<outbound, handler, count, dispatcher, sent>>
  BY DEF AgentTake
<1>3. /\ Sorted(inbound') /\ Precedes({Id(m)}, Asked')
      /\ Asked = {Id(m)} \cup Asked'
  BY <1>1, HeadOldest DEF OrderInv, PendingInOrder, Asked
<1>4. Working' \subseteq {Id(m)} /\ Replies' = Replies /\ Handled' = Handled
  BY <1>1, <1>2 DEF Working, Replies, Handled
<1>5. /\ Precedes(Replies', Working' \cup Asked' \cup Handled')
      /\ Precedes(Working', Asked' \cup Handled')
      /\ Precedes(Asked', Handled')
  <2>1. /\ Precedes(Replies, Asked \cup Handled) /\ Precedes(Asked, Handled)
        /\ Precedes({Id(m)}, Handled)
    BY <1>3 DEF OrderInv, PendingInOrder, Precedes
  <2>2. Working' \subseteq Asked /\ Asked' \subseteq Asked
    BY <1>3, <1>4
  <2> QED  BY <1>3, <1>4, <2>1, <2>2 DEF Precedes
<1>6. Pending' \subseteq Pending
  BY <1>3, <1>4 DEF Pending
<1>7. PendingInOrder'
  BY <1>2, <1>3, <1>5, <1>6 DEF OrderInv, PendingInOrder, Produced
<1> QED  BY <1>2, <1>6, <1>7, SentFrame DEF OrderInv

(* ... answers it, ... *)
LEMMA AgentAnswerOrder ==
    ASSUME GatewayInv, OrderInv, AgentAnswer
    PROVE  OrderInv'
<1> USE DEF GatewayInv, TypeOK, Holding
<1>2. /\ agent.pc = "turn" /\ agent' = [agent EXCEPT !.pc = "reply"]
      /\ UNCHANGED <<inbound, outbound, handler, count, dispatcher, sent>>
  BY DEF AgentAnswer
<1>3. agent'.msg = agent.msg /\ agent'.pc = "reply"
  BY <1>2
<1>4. Working' = Working /\ Asked' = Asked /\ Replies' = Replies /\ Handled' = Handled
  BY <1>2, <1>3 DEF Working, Asked, Replies, Handled
<1>5. PendingInOrder' /\ Pending' = Pending
  BY <1>2, <1>4 DEF OrderInv, PendingInOrder, Pending, Precedes, Produced
<1> QED  BY <1>2, <1>5, SentFrame DEF OrderInv

(* ... and puts the answer at the end of the outbound buffer. *)
LEMMA AgentReplyOrder ==
    ASSUME GatewayInv, OrderInv, AgentReply
    PROVE  OrderInv'
<1> USE DEF GatewayInv, TypeOK, Holding
<1> DEFINE m == agent.msg
<1>1. /\ outbound' = Append(outbound, m) /\ agent.pc = "reply" /\ agent'.pc = "idle"
      /\ m \in Message
      /\ UNCHANGED <<inbound, handler, count, dispatcher, sent>>
  BY DEF AgentReply, PublishOutbound, mainVars
<1>2. Working = {Id(m)} /\ Working' = {} /\ Asked' = Asked /\ Handled' = Handled
  BY <1>1 DEF Working, Asked, Handled
<1>3. Precedes(Replies, {Id(m)})
  BY <1>2 DEF OrderInv, PendingInOrder, Precedes
<1>4. Sorted(outbound') /\ Replies' = Replies \cup {Id(m)}
  BY <1>1, <1>3, AppendSorted DEF OrderInv, PendingInOrder, Replies
<1>5. PendingInOrder' /\ Pending' = Pending
  BY <1>1, <1>2, <1>4 DEF OrderInv, PendingInOrder, Pending, Precedes, Produced
<1> QED  BY <1>1, <1>5, SentFrame DEF OrderInv

(* The dispatcher takes the oldest answer, ... *)
LEMMA DispatchTakeOrder ==
    ASSUME GatewayInv, OrderInv, DispatchTake
    PROVE  OrderInv'
<1> USE DEF GatewayInv, TypeOK
<1>1. PICK m :
        /\ outbound # <<>> /\ m = Head(outbound) /\ outbound' = Tail(outbound)
        /\ dispatcher' = IF Recipients(m) = {} THEN dispatcher
                         ELSE [pc |-> "sending", msg |-> m, todo |-> Recipients(m)]
  BY DEF DispatchTake, ConsumeOutbound
<1>2. UNCHANGED <<inbound, handler, count, agent, sent>>
  BY DEF DispatchTake
<1>3. /\ Sorted(outbound') /\ Precedes({Id(m)}, Replies')
      /\ Replies = {Id(m)} \cup Replies'
  BY <1>1, HeadOldest DEF OrderInv, PendingInOrder, Replies
<1>4. Working' = Working /\ Asked' = Asked /\ Handled' = Handled
  BY <1>2 DEF Working, Asked, Handled
<1>5. PendingInOrder' /\ Pending' \subseteq Pending
  BY <1>2, <1>3, <1>4 DEF OrderInv, PendingInOrder, Pending, Precedes, Produced
<1>6. ASSUME NEW c \in Channels PROVE SentInOrder(c)'
  <2>1. Sending(c)' = Sending(c) \/ Sending(c)' \subseteq {Id(m)}
    BY <1>1 DEF Sending
  <2>2. Precedes({Id(m)}, Pending') /\ Id(m) \in Pending
    BY <1>3, <1>4 DEF OrderInv, PendingInOrder, Pending, Precedes
  <2> QED
    BY <1>2, <1>5, <2>1, <2>2 DEF OrderInv, SentInOrder, PendingInOrder, Precedes, Produced
<1> QED  BY <1>5, <1>6 DEF OrderInv

(* ... and sends it, unless it is empty or the send fails. *)
LEMMA DispatchSendOrder ==
    ASSUME GatewayInv, OrderInv, NEW d \in Channels, DispatchSend(d)
    PROVE  OrderInv'
<1> USE DEF GatewayInv, TypeOK, Holding
<1> DEFINE m == dispatcher.msg
<1>1. /\ d \in dispatcher.todo /\ m \in Message
      /\ sent' = [sent EXCEPT ![d] = Append(@, m)] \/ sent' = sent
      /\ dispatcher' = IF dispatcher.todo = {d}
                       THEN [pc |-> "idle", msg |-> NoMsg, todo |-> {}]
                       ELSE [dispatcher EXCEPT !.todo = @ \ {d}]
      /\ UNCHANGED <<inbound, outbound, handler, count, agent>>
  BY DEF DispatchSend
<1>2. Working' = Working /\ Asked' = Asked /\ Handled' = Handled /\ Replies' = Replies
  BY <1>1 DEF Working, Asked, Handled, Replies
<1>3. PendingInOrder' /\ Pending' = Pending
  BY <1>1, <1>2 DEF OrderInv, PendingInOrder, Pending, Precedes, Produced
<1>4. \A c \in Channels : Sending(c)' \subseteq Sending(c)
  BY <1>1 DEF Sending
<1>5. Sending(d) = {Id(m)} /\ Sending(d)' = {}
  BY <1>1 DEF Sending
<1>6. ASSUME NEW c \in Channels, sent'[c] = sent[c] PROVE SentInOrder(c)'
  BY <1>1, <1>3, <1>4, <1>6 DEF OrderInv, SentInOrder, Precedes, Produced
<1>7. ASSUME sent' = [sent EXCEPT ![d] = Append(@, m)] PROVE SentInOrder(d)'
  <2>1. sent[d] \in Seq(Message) /\ sent'[d] = Append(sent[d], m)
    BY <1>7
  <2>2. Sorted(sent[d]) /\ Precedes(Ids(sent[d]), {Id(m)})
    BY <1>5 DEF OrderInv, SentInOrder, Precedes
  <2>3. Sorted(sent'[d]) /\ Ids(sent'[d]) = Ids(sent[d]) \cup {Id(m)}
    BY <1>1, <2>1, <2>2, AppendSorted
  <2> QED  BY <1>1, <1>3, <1>5, <2>3 DEF OrderInv, SentInOrder, Precedes, Produced
<1>8. ASSUME NEW c \in Channels PROVE SentInOrder(c)'
  <2>1. CASE sent' = sent \/ c # d
    BY <1>1, <1>6, <2>1
  <2> QED  BY <1>1, <1>7, <2>1
<1> QED  BY <1>3, <1>8 DEF OrderInv

-----------------------------------------------------------------------------
LEMMA OrderNext == GatewayInv /\ OrderInv /\ [Next]_vars => OrderInv'
<1> SUFFICES ASSUME GatewayInv, OrderInv, [Next]_vars PROVE OrderInv'
  OBVIOUS
<1> USE DEF mainVars
<1>1. ASSUME NEW s \in Sources, Receive(s) \/ Fire(s) PROVE OrderInv'
  BY <1>1, ReceiveOrder
<1>2. ASSUME NEW s \in Sources, Publish(s) PROVE OrderInv'
  BY <1>2, PublishOrder
<1>3. ASSUME NEW c \in Expiring, PollerNext(c) PROVE OrderInv'
  BY <1>3, OrderFrame DEF PollerNext, SessionExpires, LoggedIn, PollerEnds
<1>4. CASE AgentTake
  BY <1>4, AgentTakeOrder
<1>5. CASE AgentAnswer
  BY <1>5, AgentAnswerOrder
<1>6. CASE AgentReply
  BY <1>6, AgentReplyOrder
<1>7. CASE AgentStop
  BY <1>7, OrderFrame DEF AgentStop, GatewayInv, TypeOK
<1>8. CASE DispatchTake
  BY <1>8, DispatchTakeOrder
<1>9. ASSUME NEW c \in Channels, DispatchSend(c) PROVE OrderInv'
  BY <1>9, DispatchSendOrder
<1>10. CASE DispatchStop
  BY <1>10, OrderFrame DEF DispatchStop, GatewayInv, TypeOK
<1>11. CASE StartNext
  <2>1. CASE StartChannel
    BY <2>1, OrderFrame DEF StartChannel
  <2>2. CASE StartDispatcher
    BY <2>2, OrderFrame DEF StartDispatcher, GatewayInv, TypeOK
  <2>3. CASE StartCron
    BY <2>3, OrderFrame DEF StartCron
  <2>4. CASE StartAgent
    BY <2>4, OrderFrame DEF StartAgent, GatewayInv, TypeOK
  <2>5. CASE StartFails \/ StartApi
    BY <2>5, OrderFrame DEF StartFails, StartApi
  <2> QED  BY <1>11, <2>1, <2>2, <2>3, <2>4, <2>5 DEF StartNext
<1>12. CASE Signal
  BY <1>12, OrderFrame DEF Signal
<1>13. CASE MainNext
  BY <1>13, OrderFrame
     DEF MainNext, StopChannel, ChannelStopped, DispatcherStopped, StopCron, AgentStopped
<1>14. CASE UNCHANGED vars
  BY <1>14, OrderFrame DEF vars
<1> QED
  BY <1>1, <1>2, <1>3, <1>4, <1>5, <1>6, <1>7, <1>8, <1>9, <1>10, <1>11, <1>12,
     <1>13, <1>14 DEF Next

(* On every channel no message is answered twice, and the answers to its   *)
(* users come in the order of their messages.                              *)
THEOREM GatewayKeepsOrder == Spec => []AnswersInOrder
<1>1. Init => GatewayInv /\ OrderInv
  BY GatewayInit, OrderInit
<1>2. (GatewayInv /\ OrderInv) /\ [Next]_vars => (GatewayInv /\ OrderInv)'
  BY GatewayNext, OrderNext
<1>3. GatewayInv /\ OrderInv => AnswersInOrder
  BY DEF OrderInv, SentInOrder, Sorted, Older, AnswersInOrder
<1> QED  BY <1>1, <1>2, <1>3, PTL DEF Spec

-----------------------------------------------------------------------------
(* The shutdown: the channels that main has stopped stay silent. *)
Silent(c) ==
    /\ c \notin polling /\ handler[c] = {}
    /\ c \in Expiring => session[c] = "none"

SilentInv ==
    /\ main = "channels" =>
          \A c \in Channels : c \notin stopping.todo /\ c # stopping.waits => Silent(c)
    /\ StoppedIsSilent

LEMMA SilentNext == GatewayInv /\ SilentInv /\ [Next]_vars => SilentInv'
<1> SUFFICES ASSUME GatewayInv, SilentInv, [Next]_vars PROVE SilentInv'
  OBVIOUS
<1> USE NoChannelAssumption, SourcesAssumption
    DEF mainVars, GatewayInv, TypeOK, SilentInv, StoppedIsSilent, Silent, Alive
<1>1. ASSUME NEW s \in Sources, Receive(s) \/ Fire(s) PROVE SilentInv'
  <2>1. s \in polling /\ UNCHANGED <<main, stopping, polling, session>>
    BY <1>1, Arrives
  <2>2. ASSUME NEW c \in Channels, c # s PROVE handler'[c] = handler[c]
    <3>1. PICK new : handler' = handler \/ handler' = [handler EXCEPT ![s] = @ \cup {new}]
      BY <1>1, Arrives
    <3> QED  BY <2>2, <3>1 DEF Sources
  <2>3. \A c \in Channels : Silent(c) => Silent(c)'
    BY <2>1, <2>2
  <2>4. StoppedIsSilent'
    BY <2>1, <2>2, <2>3
  <2> QED  BY <2>1, <2>3, <2>4
<1>2. ASSUME NEW s \in Sources, Publish(s) PROVE SilentInv'
  BY <1>2 DEF Publish
<1>3. ASSUME NEW c \in Expiring, PollerNext(c) PROVE SilentInv'
  <2>1. CASE SessionExpires(c)
    BY <2>1 DEF SessionExpires
  <2>2. CASE LoggedIn(c)
    BY <2>2, ExpiringAssumption DEF LoggedIn
  <2>3. CASE PollerEnds(c)
    BY <2>3 DEF PollerEnds
  <2> QED  BY <1>3, <2>1, <2>2, <2>3 DEF PollerNext
<1>4. CASE AgentTake
  BY <1>4 DEF AgentTake
<1>5. CASE AgentAnswer \/ AgentReply \/ AgentStop
  BY <1>5 DEF AgentAnswer, AgentReply, AgentStop
<1>6. CASE DispatchTake \/ DispatchStop
  BY <1>6 DEF DispatchTake, DispatchStop
<1>7. ASSUME NEW c \in Channels, DispatchSend(c) PROVE SilentInv'
  BY <1>7 DEF DispatchSend
<1>8. CASE StartNext
  BY <1>8
     DEF StartNext, StartChannel, StartDispatcher, StartCron, StartAgent, StartFails, StartApi
<1>9. CASE Signal
  BY <1>9 DEF Signal
<1>10. ASSUME NEW c \in Channels, StopChannel(c) PROVE SilentInv'
  BY <1>10 DEF StopChannel
<1>11. CASE ChannelStopped
  BY <1>11 DEF ChannelStopped
<1>12. CASE DispatcherStopped
  BY <1>12 DEF DispatcherStopped
<1>13. CASE StopCron \/ AgentStopped
  BY <1>13 DEF StopCron, AgentStopped
<1>14. CASE UNCHANGED vars
  BY <1>14 DEF vars
<1> QED
  BY <1>1, <1>2, <1>3, <1>4, <1>5, <1>6, <1>7, <1>8, <1>9, <1>10, <1>11, <1>12,
     <1>13, <1>14 DEF Next, MainNext

(* No handler is at work and no channel takes messages once the channel    *)
(* service has stopped, whatever its pollers did meanwhile.                *)
THEOREM StoppedChannelsAreSilent == Spec => []StoppedIsSilent
<1>1. Init => GatewayInv /\ SilentInv
  BY GatewayInit DEF Init, SilentInv, StoppedIsSilent
<1>2. (GatewayInv /\ SilentInv) /\ [Next]_vars => (GatewayInv /\ SilentInv)'
  BY GatewayNext, SilentNext
<1>3. SilentInv => StoppedIsSilent
  BY DEF SilentInv
<1> QED  BY <1>1, <1>2, <1>3, PTL DEF Spec

-----------------------------------------------------------------------------
(* The gateway implements one queue per source and channel *)

(* The dispatcher sends to the channels the reply is for, and while it     *)
(* holds none it has none to send to; the messages that the agent has not  *)
(* taken yet have a text, if nobody sends one without.                     *)
QueueInv ==
    /\ dispatcher.todo \subseteq Recipients(dispatcher.msg)
    /\ dispatcher.pc # "sending" => dispatcher.todo = {}
    /\ \A s \in Sources : \A m \in handler[s] : m.text
    /\ \A i \in 1..Len(inbound) : inbound[i].text

(* Before they are started the agent and the dispatcher do nothing. *)
BeforeServing ==
    /\ main = "starting" => dispatcher.pc = "stopped"
    /\ main \in {"starting", "startcron", "startagent"} => agent.pc = "stopped"

LEMMA QueueInit == Init => QueueInv /\ BeforeServing
BY DEF Init, BusInit, QueueInv, BeforeServing

LEMMA ServingNext ==
    ASSUME BeforeServing, QueueInv, [Next]_vars
    PROVE  BeforeServing'
<1> USE DEF BeforeServing, mainVars
<1>1. CASE AgentTake \/ AgentAnswer \/ AgentReply \/ AgentStop
  BY <1>1 DEF AgentTake, AgentAnswer, AgentReply, AgentStop, AgentCancelled
<1>2. CASE DispatchTake \/ DispatchStop
  BY <1>2 DEF DispatchTake, DispatchStop, DispatchCancelled
<1>3. ASSUME NEW c \in Channels, DispatchSend(c) PROVE BeforeServing'
  <2>1. dispatcher.pc = "sending" /\ UNCHANGED <<agent, main>>
    BY <1>3 DEF DispatchSend, QueueInv
  <2> QED BY <2>1
<1>4. CASE StartDispatcher \/ StartAgent \/ StartCron \/ StartFails
  BY <1>4 DEF StartDispatcher, StartAgent, StartCron, StartFails
<1>5. CASE UNCHANGED <<agent, dispatcher>> /\ main' \in {main, "channels", "killed", "cron",
                                                         "agent", "exited"}
  BY <1>5
<1> QED
  BY <1>1, <1>2, <1>3, <1>4, <1>5
     DEF Next, Receive, Fire, Publish, PollerNext, SessionExpires, LoggedIn, PollerEnds,
         StartNext, StartChannel, StartApi, Signal, MainNext, StopChannel, ChannelStopped,
         DispatcherStopped, StopCron, AgentStopped, vars

(* Recipients only depend on the source of a message. *)
LEMMA SameRecipients ==
    ASSUME NEW m, NEW k, m.from = k.from
    PROVE  Recipients(m) = Recipients(k)
BY DEF Recipients

LEMMA QueueNext ==
    ASSUME GatewayInv, QueueInv, BeforeServing, Mute = {}, [Next]_vars
    PROVE  QueueInv'
<1> USE DEF GatewayInv, TypeOK, mainVars
<1>1. ASSUME NEW s \in Sources, Receive(s) \/ Fire(s) PROVE QueueInv'
  <2>0. PICK new : new = [from |-> s, n |-> count'[s], text |-> TRUE]
    OBVIOUS
  <2>1. handler' = handler \/ handler' = [handler EXCEPT ![s] = @ \cup {new}]
    BY <1>1, <2>0, Arrives
  <2>2. ASSUME NEW t \in Sources, NEW m \in handler'[t] PROVE m.text
    <3>1. m \in handler[t] \/ m = new
      <4>1. handler \in [Sources -> SUBSET Message]
        OBVIOUS
      <4>2. CASE t = s
        BY <2>1, <2>2, <4>1, <4>2
      <4>3. CASE t # s
        BY <2>1, <2>2, <4>1, <4>3
      <4> QED BY <4>2, <4>3
    <3>2. CASE m \in handler[t]
      BY <3>2 DEF QueueInv
    <3>3. CASE m = new
      BY <2>0, <3>3
    <3> QED BY <3>1, <3>2, <3>3
  <2>3. UNCHANGED <<inbound, dispatcher>>
    BY <1>1, Arrives
  <2> QED BY <2>2, <2>3 DEF QueueInv
<1>2. ASSUME NEW s \in Sources, Publish(s) PROVE QueueInv'
  <2>1. PICK m \in handler[s] :
          /\ inbound' = Append(inbound, m)
          /\ handler' = [handler EXCEPT ![s] = @ \ {m}] /\ UNCHANGED dispatcher
    BY <1>2 DEF Publish, PublishInbound
  <2>2. m \in Message /\ m.text
    BY <2>1 DEF QueueInv
  <2>3. \A i \in 1..Len(inbound') : inbound'[i].text
    <3>1. /\ Len(inbound') = Len(inbound) + 1 /\ Len(inbound) \in Nat
          /\ \A i \in 1..Len(inbound) : inbound'[i] = inbound[i]
          /\ inbound'[Len(inbound) + 1] = m
      BY <2>1, <2>2
    <3>2. ASSUME NEW i \in 1..(Len(inbound) + 1) PROVE inbound'[i].text
      <4>1. CASE i \in 1..Len(inbound)
        BY <3>1, <4>1 DEF QueueInv
      <4>2. CASE i = Len(inbound) + 1
        BY <2>2, <3>1, <4>2
      <4> QED BY <3>1, <4>1, <4>2
    <3> QED BY <3>1, <3>2
  <2>4. \A t \in Sources : handler'[t] \subseteq handler[t]
    BY <2>1
  <2>5. \A t \in Sources : \A k \in handler'[t] : k.text
    BY <2>4 DEF QueueInv
  <2> QED BY <2>1, <2>3, <2>5 DEF QueueInv
<1>3. CASE AgentTake
  <2>1. /\ inbound # <<>> /\ inbound' = Tail(inbound) /\ UNCHANGED <<handler, dispatcher>>
    BY <1>3 DEF AgentTake, ConsumeInbound
  <2>2. \A i \in 1..Len(inbound') : inbound'[i].text
    BY <2>1 DEF QueueInv
  <2> QED BY <2>1, <2>2 DEF QueueInv
<1>4. CASE DispatchTake
  <2>1. PICK m : dispatcher' = IF Recipients(m) = {} THEN dispatcher
                    ELSE [pc |-> "sending", msg |-> m, todo |-> Recipients(m)]
    BY <1>4 DEF DispatchTake
  <2>2. UNCHANGED <<inbound, handler>> /\ dispatcher.pc = "idle"
    BY <1>4 DEF DispatchTake
  <2> QED BY <2>1, <2>2 DEF QueueInv
<1>5. ASSUME NEW c \in Channels, DispatchSend(c) PROVE QueueInv'
  <2>1. /\ dispatcher' = IF dispatcher.todo = {c}
                         THEN [pc |-> "idle", msg |-> NoMsg, todo |-> {}]
                         ELSE [dispatcher EXCEPT !.todo = @ \ {c}]
        /\ UNCHANGED <<inbound, handler>>
    BY <1>5 DEF DispatchSend, QueueInv
  <2>2. CASE dispatcher.todo = {c}
    BY <2>1, <2>2 DEF QueueInv
  <2>3. CASE dispatcher.todo # {c}
    <3>1. /\ dispatcher'.todo = dispatcher.todo \ {c} /\ dispatcher'.msg = dispatcher.msg
          /\ dispatcher'.pc = dispatcher.pc
      BY <2>1, <2>3
    <3> QED BY <2>1, <3>1 DEF QueueInv
  <2> QED BY <2>2, <2>3
<1>6. CASE DispatchStop \/ StartDispatcher
  <2>1. /\ dispatcher'.todo = dispatcher.todo /\ dispatcher'.msg = dispatcher.msg
        /\ dispatcher.todo = {} /\ UNCHANGED <<inbound, handler>>
        /\ dispatcher'.pc \in {"idle", "stopped"}
    BY <1>6 DEF DispatchStop, StartDispatcher, QueueInv, BeforeServing
  <2> QED BY <2>1 DEF QueueInv
<1>7. CASE UNCHANGED <<inbound, handler, dispatcher>>
  BY <1>7 DEF QueueInv
<1> QED
  BY <1>1, <1>2, <1>3, <1>4, <1>5, <1>6, <1>7
     DEF Next, PollerNext, SessionExpires, LoggedIn, PollerEnds, AgentAnswer, AgentReply,
         AgentStop, StartNext, StartChannel, StartCron, StartAgent, StartFails, StartApi,
         Signal, MainNext, StopChannel, ChannelStopped, DispatcherStopped, StopCron,
         AgentStopped, vars

(* A step that moves no message waits for the same answers. *)
LEMMA WaitingFrame ==
    ASSUME Pending' = Pending,
           \A c \in Channels : Sending(c)' = Sending(c)
    PROVE  \A c \in Channels : Waiting(c)' = Waiting(c)
BY DEF Waiting, Recipients

(* The abstract variables only depend on what is waiting, and on what was  *)
(* asked and sent.                                                         *)
LEMMA QueueStutters ==
    ASSUME UNCHANGED <<count, sent>>, \A c \in Channels : Waiting(c)' = Waiting(c)
    PROVE  UNCHANGED Abstract!vars
BY DEF Abstract!vars

(* A new message waits on the channels it is to be answered on. *)
LEMMA ReceiveAsks ==
    ASSUME GatewayInv, NEW s \in Sources, Receive(s) \/ Fire(s)
    PROVE  Abstract!Ask(s)
<1> USE DEF GatewayInv, TypeOK
<1>m. PICK m : m = [from |-> s, n |-> count[s] + 1]
  OBVIOUS
<1>1. /\ UNCHANGED <<inbound, outbound, agent, dispatcher, sent>>
      /\ count' = [count EXCEPT ![s] = @ + 1] /\ count'[s] = count[s] + 1
  BY Arrives
<1>2. /\ Asked' = Asked /\ Working' = Working /\ Replies' = Replies
      /\ \A c \in Channels : Sending(c)' = Sending(c)
  BY <1>1 DEF Asked, Working, Replies, Sending
<1>3. CASE handler' = handler
  <2>1. Handled' = Handled
    BY <1>3 DEF Handled
  <2>2. \A c \in Channels : Waiting(c)' = Waiting(c)
    BY <1>2, <2>1, WaitingFrame DEF Pending
  <2> QED BY <1>1, <2>2 DEF Abstract!Ask
<1>4. ASSUME NEW b, handler' = [handler EXCEPT ![s] =
                                @ \cup {[from |-> s, n |-> count'[s], text |-> b]}]
      PROVE  Abstract!Ask(s)
  <2>1. Handled' = Handled \cup {m}
    <3>0. PICK new : new = [from |-> s, n |-> count'[s], text |-> b]
      OBVIOUS
    <3>1. /\ handler'[s] = handler[s] \cup {new}
          /\ \A t \in Sources : t # s => handler'[t] = handler[t]
      BY <1>4, <3>0
    <3>2. Id(new) = m
      BY <1>m, <1>1, <3>0 DEF Id
    <3>3. ASSUME NEW x \in Handled' PROVE x \in Handled \cup {m}
      <4>1. PICK t \in Sources : \E k \in handler'[t] : x = Id(k)
        BY InHandled
      <4>2. PICK k \in handler'[t] : x = Id(k)
        BY <4>1
      <4>3. k = new \/ k \in handler[t]
        BY <3>1, <4>2
      <4> QED BY <3>2, <4>2, <4>3, InHandled
    <3>4. ASSUME NEW x \in Handled PROVE x \in Handled'
      <4>1. PICK t \in Sources : \E k \in handler[t] : x = Id(k)
        BY InHandled
      <4>2. handler[t] \subseteq handler'[t]
        BY <3>1
      <4> QED BY <4>1, <4>2, InHandled
    <3>5. m \in Handled'
      BY <3>1, <3>2, InHandled
    <3> QED BY <3>3, <3>4, <3>5
  <2>2. Pending' = Pending \cup {m}
    BY <1>2, <2>1 DEF Pending
  <2>3. \A c : c \in Recipients(m) <=> c \in Recipients([from |-> s])
    BY <1>m, SameRecipients
  <2>4. \A c \in Channels : Waiting(c)' =
              Waiting(c) \cup (IF c \in Recipients([from |-> s]) THEN {m} ELSE {})
    BY <1>2, <2>2, <2>3 DEF Waiting
  <2> QED BY <1>m, <1>1, <2>4 DEF Abstract!Ask
<1> QED BY <1>3, <1>4, Arrives

(* Between its handler and the dispatcher no message is lost or added. *)
LEMMA PassedOn ==
    ASSUME GatewayInv, OrderInv, QueueInv, BeforeServing,
           \/ \E s \in Sources : Publish(s)
           \/ AgentTake \/ AgentAnswer \/ AgentReply \/ AgentStop \/ StartAgent
    PROVE  UNCHANGED Abstract!vars
<1>0. /\ inbound \in Seq(Message) /\ outbound \in Seq(Message)
      /\ handler \in [Sources -> SUBSET Message]
      /\ agent.pc \in {"turn", "reply"} => agent.msg \in Message
      /\ agent = [pc |-> agent.pc, msg |-> agent.msg]
  BY DEF GatewayInv, TypeOK, Holding
<1> USE <1>0
<1>1. ASSUME NEW s \in Sources, Publish(s) PROVE Pending' = Pending
  <2>1. PICK m \in handler[s] :
          /\ inbound' = Append(inbound, m) /\ handler' = [handler EXCEPT ![s] = @ \ {m}]
          /\ UNCHANGED <<outbound, agent>>
    BY <1>1 DEF Publish, PublishInbound
  <2>2. m \in Message /\ Id(m) \in Handled
    BY <2>1 DEF Handled
  <2>3. Precedes(Asked, {Id(m)}) /\ Sorted(inbound)
    BY <2>2 DEF OrderInv, PendingInOrder, Precedes
  <2>4. Asked' = Asked \cup {Id(m)}
    BY <2>1, <2>2, <2>3, AppendSorted DEF Asked
  <2>5. Handled = Handled' \cup {Id(m)}
    <3>1. handler'[s] = handler[s] \ {m} /\ \A t \in Sources : t # s => handler'[t] = handler[t]
      BY <2>1
    <3>2. ASSUME NEW x \in Handled PROVE x \in Handled' \cup {Id(m)}
      <4>1. PICK t \in Sources : \E k \in handler[t] : x = Id(k)
        BY InHandled
      <4>2. PICK k \in handler[t] : x = Id(k)
        BY <4>1
      <4>3. k = m \/ k \in handler'[t]
        BY <3>1, <4>2
      <4> QED BY <4>2, <4>3, InHandled
    <3>3. ASSUME NEW x \in Handled' PROVE x \in Handled
      <4>1. PICK t \in Sources : \E k \in handler'[t] : x = Id(k)
        BY InHandled
      <4>2. handler'[t] \subseteq handler[t]
        BY <3>1
      <4> QED BY <4>1, <4>2, InHandled
    <3> QED BY <2>2, <3>2, <3>3
  <2>6. Replies' = Replies /\ Working' = Working
    BY <2>1 DEF Replies, Working
  <2> QED BY <2>4, <2>5, <2>6 DEF Pending
<1>2. ASSUME AgentTake PROVE Pending' = Pending
  <2>1. PICK m : /\ m \in {inbound[i] : i \in DOMAIN inbound}
                 /\ inbound # <<>> /\ m = Head(inbound) /\ inbound' = Tail(inbound)
                 /\ m.text => agent' = [pc |-> "turn", msg |-> m]
    BY <1>2 DEF AgentTake, ConsumeInbound
  <2>2. m.text
    <3>1. inbound \in Seq(Message)
      BY DEF GatewayInv, TypeOK
    <3>2. PICK i \in 1..Len(inbound) : m = inbound[i]
      BY <2>1, <3>1
    <3>3. inbound[i].text
      BY <3>2 DEF QueueInv
    <3> QED BY <3>2, <3>3
  <2>3. agent.pc = "idle" /\ UNCHANGED <<outbound, handler>>
    BY <1>2 DEF AgentTake
  <2>4. Asked = {Id(m)} \cup Asked'
    BY <2>1, HeadOldest DEF OrderInv, PendingInOrder, Asked
  <2>5. Working = {} /\ Working' = {Id(m)}
    BY <2>1, <2>2, <2>3 DEF Working
  <2>6. Replies' = Replies /\ Handled' = Handled
    BY <2>3 DEF Replies, Handled
  <2> QED BY <2>4, <2>5, <2>6 DEF Pending
<1>3. ASSUME AgentAnswer PROVE Pending' = Pending
  <2>2. /\ agent.pc = "turn" /\ agent'.pc = "reply" /\ agent'.msg = agent.msg
        /\ UNCHANGED <<inbound, outbound, handler>>
    BY <1>3 DEF AgentAnswer
  <2>4. Working' = Working
    BY <2>2 DEF Working
  <2> QED BY <2>2, <2>4 DEF Pending, Asked, Replies, Handled
<1>4. ASSUME AgentReply PROVE Pending' = Pending
  <2>1. /\ outbound' = Append(outbound, agent.msg) /\ agent.msg \in Message
        /\ agent.pc = "reply" /\ agent'.pc = "idle" /\ UNCHANGED <<inbound, handler>>
    BY <1>4 DEF AgentReply, PublishOutbound
  <2>2. Working = {Id(agent.msg)} /\ Working' = {}
    BY <2>1 DEF Working
  <2>3. Precedes(Replies, {Id(agent.msg)}) /\ Sorted(outbound)
    BY <2>2 DEF OrderInv, PendingInOrder, Precedes
  <2>4. Replies' = Replies \cup {Id(agent.msg)}
    BY <2>1, <2>3, AppendSorted DEF Replies
  <2> QED BY <2>1, <2>2, <2>4 DEF Pending, Asked, Handled
<1>5. ASSUME AgentStop PROVE Pending' = Pending
  BY <1>5 DEF AgentStop, Pending, Working, Asked, Replies, Handled
<1>6. ASSUME StartAgent PROVE Pending' = Pending
  BY <1>6 DEF StartAgent, BeforeServing, Pending, Working, Asked, Replies, Handled
<1>7. Pending' = Pending
  BY <1>1, <1>2, <1>3, <1>4, <1>5, <1>6
<1>8. UNCHANGED <<count, sent, dispatcher>>
  BY DEF Publish, AgentTake, AgentAnswer, AgentReply, AgentStop, StartAgent, mainVars
<1>9. \A c \in Channels : Sending(c)' = Sending(c)
  BY <1>8 DEF Sending
<1> QED BY <1>7, <1>8, <1>9, WaitingFrame, QueueStutters

(* A reply that the dispatcher takes waits on the same channels as before. *)
LEMMA TakeKeepsWaiting ==
    ASSUME GatewayInv, OrderInv, QueueInv, DispatchTake
    PROVE  UNCHANGED Abstract!vars
<1>0. outbound \in Seq(Message)
  BY DEF GatewayInv, TypeOK
<1>1. PICK m :
        /\ outbound # <<>> /\ m = Head(outbound) /\ outbound' = Tail(outbound)
        /\ dispatcher' = IF Recipients(m) = {} THEN dispatcher
                         ELSE [pc |-> "sending", msg |-> m, todo |-> Recipients(m)]
  BY DEF DispatchTake, ConsumeOutbound
<1>2. UNCHANGED <<inbound, handler, count, agent, sent>> /\ dispatcher.todo = {}
  BY DEF DispatchTake, QueueInv, mainVars
<1>3. Replies = {Id(m)} \cup Replies'
  BY <1>0, <1>1, HeadOldest DEF OrderInv, PendingInOrder, Replies
<1>4. Working' = Working /\ Asked' = Asked /\ Handled' = Handled
  BY <1>2 DEF Working, Asked, Handled
<1>5. Pending = {Id(m)} \cup Pending'
  BY <1>3, <1>4 DEF Pending
<1>6. Recipients(Id(m)) = Recipients(m)
  BY SameRecipients DEF Id
<1>7. ASSUME NEW c \in Channels PROVE Waiting(c)' = Waiting(c)
  <2>1. Sending(c) = {} /\ Sending(c)' = IF c \in Recipients(m) THEN {Id(m)} ELSE {}
    BY <1>1, <1>2 DEF Sending
  <2> QED BY <1>5, <1>6, <2>1 DEF Waiting, Recipients
<1> QED BY <1>2, <1>7, QueueStutters

(* Sending takes up a message on the channel, the oldest one of a user. *)
LEMMA SendAnswers ==
    ASSUME GatewayInv, OrderInv, QueueInv, NEW d \in Channels, DispatchSend(d)
    PROVE  \E m \in Waiting(d) : Abstract!Answer(d, m)
<1>m. PICK m : m = Id(dispatcher.msg)
  OBVIOUS
<1>0. /\ dispatcher.msg \in Message /\ dispatcher.msg.n \in Nat
      /\ sent \in [Channels -> Seq(Message)]
  <2>1. dispatcher.msg \in Message /\ sent \in [Channels -> Seq(Message)]
    BY DEF GatewayInv, TypeOK, Holding, DispatchSend
  <2>2. \A k \in Message : k.n \in Nat
    BY MaxMsgsAssumption DEF Message
  <2> QED BY <2>1, <2>2
<1>1. /\ d \in dispatcher.todo
      /\ sent' = [sent EXCEPT ![d] = Append(@, dispatcher.msg)] \/ sent' = sent
      /\ dispatcher' = IF dispatcher.todo = {d}
                       THEN [pc |-> "idle", msg |-> NoMsg, todo |-> {}]
                       ELSE [dispatcher EXCEPT !.todo = @ \ {d}]
      /\ UNCHANGED <<inbound, outbound, handler, count, agent>>
  BY DEF DispatchSend, mainVars
<1>2. Pending' = Pending
  BY <1>1 DEF Pending, Working, Asked, Handled, Replies
<1>3. \A c \in Channels : Sending(c)' = IF c = d THEN {} ELSE Sending(c)
  <2>1. CASE dispatcher.todo = {d}
    BY <1>1, <2>1 DEF Sending
  <2>2. CASE dispatcher.todo # {d}
    <3>1. dispatcher'.todo = dispatcher.todo \ {d} /\ dispatcher'.msg = dispatcher.msg
      BY <1>1, <2>2 DEF GatewayInv, TypeOK
    <3> QED BY <3>1 DEF Sending
  <2> QED BY <2>1, <2>2
<1>4. Sending(d) = {m} /\ m.n \in Nat /\ m.from = dispatcher.msg.from
  BY <1>m, <1>0, <1>1 DEF Sending, Id
<1>5. Precedes({m}, Pending)
  BY <1>4 DEF OrderInv, SentInOrder
<1>6. m \notin Pending
  BY <1>4, <1>5 DEF Precedes, Older
<1>7. d \in Recipients(m)
  BY <1>1, <1>4, SameRecipients DEF QueueInv
<1>8. /\ m \in Waiting(d) /\ Waiting(d)' = Waiting(d) \ {m}
      /\ \A c \in Channels : c # d => Waiting(c)' = Waiting(c)
  BY <1>2, <1>3, <1>4, <1>6, <1>7 DEF Waiting, Recipients
<1>9. \A k \in Waiting(d) : k.from = m.from /\ m.from \in Channels => m.n <= k.n
  <2> SUFFICES ASSUME NEW k \in Pending, k.from = m.from, m.from \in Channels
               PROVE  m.n <= k.n
    BY <1>4 DEF Waiting
  <2>1. m.n < k.n
    BY <1>5 DEF Precedes, Older
  <2>2. k.n \in Nat
    BY MaxMsgsAssumption DEF OrderInv, PendingInOrder, Produced, GatewayInv, TypeOK
  <2> QED BY <1>4, <2>1, <2>2
<1>10. [c \in Channels |-> Waiting(c)]'
          = [[c \in Channels |-> Waiting(c)] EXCEPT ![d] = @ \ {m}]
  BY <1>8
<1> DEFINE Shown(q) == [i \in DOMAIN q |-> Id(q[i])]
<1>11. \/ sent' = sent
       \/ [c \in Channels |-> Shown(sent[c])]'
             = [[c \in Channels |-> Shown(sent[c])] EXCEPT ![d] = Append(@, m)]
  <2> SUFFICES ASSUME sent' = [sent EXCEPT ![d] = Append(@, dispatcher.msg)]
               PROVE  [c \in Channels |-> Shown(sent[c])]'
                        = [[c \in Channels |-> Shown(sent[c])] EXCEPT ![d] = Append(@, m)]
    BY <1>1
  <2>1. Shown(Append(sent[d], dispatcher.msg)) = Append(Shown(sent[d]), m)
    <3>1. /\ sent[d] \in Seq(Message) /\ Len(sent[d]) \in Nat
          /\ DOMAIN sent[d] = 1..Len(sent[d])
      BY <1>0
    <3> DEFINE q == sent[d]
               a == Append(q, dispatcher.msg)
    <3>2. /\ DOMAIN a = 1..(Len(q) + 1) /\ a[Len(q) + 1] = dispatcher.msg
          /\ \A i \in 1..Len(q) : a[i] = q[i]
      BY <1>0, <3>1
    <3>3. Shown(q) \in Seq({Id(k) : k \in Message}) /\ Len(Shown(q)) = Len(q)
          /\ m \in {Id(k) : k \in Message}
      BY <1>m, <1>0, <3>1
    <3>4. /\ DOMAIN Append(Shown(q), m) = 1..(Len(q) + 1)
          /\ Append(Shown(q), m)[Len(q) + 1] = m
          /\ \A i \in 1..Len(q) : Append(Shown(q), m)[i] = Shown(q)[i]
          /\ Append(Shown(q), m) = [i \in DOMAIN Append(Shown(q), m) |-> Append(Shown(q), m)[i]]
      <4> HIDE DEF q, Shown
      <4> QED BY <3>1, <3>3 DEF q
    <3>5. \A i \in 1..(Len(q) + 1) : Shown(a)[i] = Append(Shown(q), m)[i]
      BY <1>m, <3>1, <3>2, <3>4
    <3>6. DOMAIN Shown(a) = 1..(Len(q) + 1) /\ Shown(a) = [i \in 1..(Len(q) + 1) |-> Shown(a)[i]]
      BY <3>2
    <3> HIDE DEF a, Shown
    <3> QED BY <3>4, <3>5, <3>6 DEF a
  <2> HIDE DEF Shown
  <2> QED BY <1>0, <2>1
<1>12. m \in [c \in Channels |-> Waiting(c)][d]
       /\ \A k \in [c \in Channels |-> Waiting(c)][d] :
             k.from = m.from /\ m.from \in Channels => m.n <= k.n
  BY <1>8, <1>9
<1>13. [c \in Channels |-> Shown(sent[c])]'
          \in {[c \in Channels |-> Shown(sent[c])],
               [[c \in Channels |-> Shown(sent[c])] EXCEPT ![d] = Append(@, m)]}
  <2>1. CASE sent' = sent
    BY <2>1
  <2> HIDE DEF Shown
  <2> QED BY <1>11, <2>1
<1>14. Abstract!Answer(d, m)
  BY <1>1, <1>10, <1>12, <1>13 DEF Abstract!Answer
<1> QED BY <1>8, <1>14

(* Every step of the gateway is one of ChatQueue, or a stutter. *)
LEMMA QueueStep ==
    ASSUME GatewayInv, OrderInv, QueueInv, BeforeServing, [Next]_vars
    PROVE  [Abstract!Next]_Abstract!vars
<1>1. ASSUME NEW s \in Sources, Receive(s) \/ Fire(s) PROVE Abstract!Next
  BY <1>1, ReceiveAsks DEF Abstract!Next
<1>2. CASE \/ \E s \in Sources : Publish(s)
           \/ AgentTake \/ AgentAnswer \/ AgentReply \/ AgentStop \/ StartAgent
  BY <1>2, PassedOn
<1>3. CASE DispatchTake
  BY <1>3, TakeKeepsWaiting
<1>4. ASSUME NEW c \in Channels, DispatchSend(c) PROVE Abstract!Next
  <2>1. \E m \in Waiting(c) : Abstract!Answer(c, m)
    BY <1>4, SendAnswers
  <2> QED BY <2>1 DEF Abstract!Next
<1>5. CASE /\ UNCHANGED <<inbound, outbound, handler, count, agent, sent>>
           /\ dispatcher'.todo = dispatcher.todo /\ dispatcher'.msg = dispatcher.msg
  <2>1. Pending' = Pending /\ \A c \in Channels : Sending(c)' = Sending(c)
    BY <1>5 DEF Pending, Working, Asked, Replies, Handled, Sending
  <2> QED BY <1>5, <2>1, WaitingFrame, QueueStutters
<1>6. CASE DispatchStop \/ StartDispatcher
  <2>1. dispatcher'.todo = dispatcher.todo /\ dispatcher'.msg = dispatcher.msg
    BY <1>6 DEF DispatchStop, StartDispatcher, GatewayInv, TypeOK
  <2> QED BY <1>5, <1>6, <2>1 DEF DispatchStop, StartDispatcher, mainVars
<1> QED
  BY <1>1, <1>2, <1>3, <1>4, <1>5, <1>6
     DEF Next, PollerNext, SessionExpires, LoggedIn, PollerEnds, StartNext, StartChannel,
         StartCron, StartFails, StartApi, Signal, MainNext, StopChannel, ChannelStopped,
         DispatcherStopped, StopCron, AgentStopped, mainVars, vars

(* The gateway, through start, failures, full buffers, expired sessions    *)
(* and shutdown, passes the messages of each source through one queue for  *)
(* each channel they are answered on, provided that every message has a    *)
(* text: none is dropped or doubled between its handler and the channel,   *)
(* and none that a user wrote is overtaken.                                *)
THEOREM GatewayIsAQueue ==
    ASSUME Mute = {}
    PROVE  Spec => ImplementsChatQueue
<1> DEFINE Inv == GatewayInv /\ OrderInv /\ QueueInv /\ BeforeServing
<1>1. Init => Inv
  BY GatewayInit, OrderInit, QueueInit
<1>2. Inv /\ [Next]_vars => Inv'
  BY GatewayNext, OrderNext, QueueNext, ServingNext
<1>3. Init => Abstract!Init
  <2> SUFFICES ASSUME Init PROVE Abstract!Init
    OBVIOUS
  <2>1. Pending = {} /\ \A c \in Channels : Sending(c) = {} /\ sent[c] = <<>>
    BY DEF Init, BusInit, Pending, Replies, Ids, Working, Asked, Handled, Sending
  <2>2. \A c \in Channels : Waiting(c) = {}
    BY <2>1 DEF Waiting
  <2>3. \A c \in Channels : [i \in DOMAIN sent[c] |-> Id(sent[c][i])] = <<>>
    BY <2>1
  <2>4. count = [s \in Sources |-> 0]
    BY DEF Init
  <2> QED BY <2>2, <2>3, <2>4 DEF Abstract!Init
<1>4. Inv /\ [Next]_vars => [Abstract!Next]_Abstract!vars
  BY QueueStep
<1> HIDE DEF Inv
<1> QED BY <1>1, <1>2, <1>3, <1>4, PTL DEF Spec, ImplementsChatQueue, Abstract!Spec

(* Only a message without a text kills the process: nobody sends one, none *)
(* is on the bus, and the agent never finds one.                           *)
THEOREM OnlyEmptyMessagesKill ==
    ASSUME Mute = {}
    PROVE  Spec => []NoMessageKills
<1> DEFINE Inv == GatewayInv /\ QueueInv /\ BeforeServing
<1>1. Init => Inv /\ NoMessageKills
  BY GatewayInit, QueueInit DEF Init, NoMessageKills
<1>2. Inv /\ [Next]_vars => Inv'
  BY GatewayNext, QueueNext, ServingNext
<1>3. Inv /\ NoMessageKills /\ [Next]_vars => NoMessageKills'
  <2> SUFFICES ASSUME Inv, NoMessageKills, [Next]_vars PROVE NoMessageKills'
    OBVIOUS
  <2>1. ~AgentTake => main' # "dead"
    BY DEF NoMessageKills, Next, Receive, Fire, Publish, PollerNext, SessionExpires, LoggedIn,
       PollerEnds, AgentAnswer, AgentReply, AgentStop, DispatchTake, DispatchSend,
       DispatchStop, StartNext, StartChannel, StartDispatcher, StartCron, StartAgent,
       StartFails, StartApi, Signal, MainNext, StopChannel, ChannelStopped,
       DispatcherStopped, StopCron, AgentStopped, mainVars, vars
  <2>2. CASE AgentTake
    <3>1. PICK m : /\ inbound # <<>> /\ m = Head(inbound)
                   /\ (m.text /\ UNCHANGED main) \/ ~m.text
      BY <2>2 DEF AgentTake, ConsumeInbound
    <3>2. inbound \in Seq(Message)
      BY DEF GatewayInv, TypeOK
    <3>3. 1 \in 1..Len(inbound) /\ Head(inbound) = inbound[1]
      BY <3>1, <3>2
    <3>4. m.text
      BY <3>1, <3>3 DEF QueueInv
    <3> QED  BY <3>1, <3>4 DEF NoMessageKills
  <2> QED  BY <2>1, <2>2 DEF NoMessageKills
<1> HIDE DEF Inv
<1> QED  BY <1>1, <1>2, <1>3, PTL DEF Spec

-----------------------------------------------------------------------------
(* Nobody waits for ever *)

(* Whoever is waited for is there: the agent until main has cancelled it,  *)
(* the dispatcher from its start until the channel service stops; and      *)
(* while it sends, it has somebody to send to.                             *)
RunningInv ==
    /\ main \in {"serving", "channels", "cron"} => agent.pc # "stopped"
    /\ main \in {"startcron", "startagent", "serving"} => dispatcher.pc # "stopped"
    /\ dispatcher.pc = "sending" => dispatcher.todo # {}
    /\ dispatcher.todo # {} => dispatcher.pc = "sending"
    /\ main \in {"starting", "cron", "agent"} => dispatcher.pc = "stopped"

LEMMA RunningNext == GatewayInv /\ RunningInv /\ [Next]_vars => RunningInv'
<1> SUFFICES ASSUME GatewayInv, RunningInv, [Next]_vars PROVE RunningInv'
  OBVIOUS
<1>0. /\ agent = [pc |-> agent.pc, msg |-> agent.msg]
      /\ dispatcher = [pc |-> dispatcher.pc, msg |-> dispatcher.msg, todo |-> dispatcher.todo]
      /\ dispatcher.pc \in {"idle", "sending", "stopped"}
  BY DEF GatewayInv, TypeOK
<1> USE <1>0 DEF RunningInv, mainVars
<1>1. CASE AgentTake \/ AgentAnswer \/ AgentReply \/ AgentStop
  <2>1. CASE AgentTake
    <3>1. /\ \/ agent'.pc = "turn" /\ main' = main
             \/ agent' = agent /\ main' = "dead"
          /\ dispatcher' = dispatcher
      BY <2>1 DEF AgentTake
    <3> QED  BY <3>1
  <2>2. CASE AgentAnswer \/ AgentReply \/ AgentStop
    BY <2>2 DEF AgentAnswer, AgentReply, AgentStop, AgentCancelled
  <2> QED  BY <1>1, <2>1, <2>2
<1>2. CASE DispatchTake
  <2>1. PICK m : dispatcher' = IF Recipients(m) = {} THEN dispatcher
                    ELSE [pc |-> "sending", msg |-> m, todo |-> Recipients(m)]
    BY <1>2 DEF DispatchTake
  <2>2. dispatcher.pc = "idle" /\ UNCHANGED <<agent, main>>
    BY <1>2 DEF DispatchTake
  <2> QED  BY <2>1, <2>2
<1>3. ASSUME NEW c \in Channels, DispatchSend(c) PROVE RunningInv'
  <2>1. CASE dispatcher.todo = {c}
    <3>1. dispatcher'.pc = "idle" /\ dispatcher'.todo = {} /\ UNCHANGED <<agent, main>>
          /\ dispatcher.pc = "sending"
      BY <1>3, <2>1 DEF DispatchSend
    <3> QED  BY <3>1
  <2>2. CASE dispatcher.todo # {c}
    <3>1. /\ dispatcher'.pc = dispatcher.pc /\ dispatcher'.todo = dispatcher.todo \ {c}
          /\ c \in dispatcher.todo /\ UNCHANGED <<agent, main>>
      BY <1>3, <2>2 DEF DispatchSend
    <3> QED  BY <2>2, <3>1
  <2> QED  BY <2>1, <2>2
<1>4. CASE DispatchStop
  <2>1. /\ dispatcher'.pc = "stopped" /\ dispatcher'.todo = dispatcher.todo
        /\ dispatcher.pc = "idle" /\ UNCHANGED <<agent, main>>
        /\ main \in {"channels", "cron", "agent"}
    BY <1>4 DEF DispatchStop, DispatchCancelled
  <2> QED  BY <2>1
<1>5. CASE StartDispatcher
  BY <1>5 DEF StartDispatcher
<1>6. CASE StartAgent \/ StartCron \/ StartFails \/ Signal
  BY <1>6 DEF StartAgent, StartCron, StartFails, Signal
<1>7. CASE DispatcherStopped \/ StopCron \/ AgentStopped
  BY <1>7 DEF DispatcherStopped, StopCron, AgentStopped
<1>8. CASE UNCHANGED <<agent, dispatcher, main>>
  BY <1>8
<1> QED
  BY <1>1, <1>2, <1>3, <1>4, <1>5, <1>6, <1>7, <1>8
     DEF Next, Receive, Fire, Publish, PollerNext, SessionExpires, LoggedIn, PollerEnds,
         StartNext, StartChannel, StartApi, MainNext, StopChannel, ChannelStopped, vars

(* Whoever waits for the agent or the dispatcher waits for one that goes   *)
(* on, or for a full buffer that the stopped dispatcher leaves full.       *)
LEMMA WaitsForSomebody ==
    ASSUME GatewayInv, RunningInv, main \in {"serving", "channels", "agent"},
           inbound # <<>> \/ agent.pc \in {"turn", "reply"} \/ main = "agent"
    PROVE  \/ AgentGoesOn \/ DispatcherGoesOn
           \/ main = "agent" /\ agent.pc = "stopped"
           \/ dispatcher.pc = "stopped" /\ agent.pc = "reply" /\ Len(outbound) = Capacity
<1>1. /\ agent.pc \in {"idle", "turn", "reply", "stopped"}
      /\ dispatcher.pc \in {"idle", "sending", "stopped"}
      /\ outbound \in Seq(Message) /\ Len(outbound) <= Capacity
  BY DEF GatewayInv, TypeOK
<1>2. CASE agent.pc \in {"idle", "turn"}
  BY <1>2 DEF AgentGoesOn, AgentCancelled
<1>3. CASE agent.pc = "reply"
  <2>1. Len(outbound) < Capacity \/ Len(outbound) = Capacity
    BY <1>1
  <2>2. CASE Len(outbound) = Capacity
    <3>1. outbound # <<>>
      BY <1>1, <2>2
    <3> QED  BY <1>1, <1>3, <2>2, <3>1 DEF DispatcherGoesOn, RunningInv
  <2> QED  BY <1>3, <2>1, <2>2 DEF AgentGoesOn
<1>4. CASE agent.pc = "stopped"
  BY <1>4 DEF RunningInv
<1> QED  BY <1>1, <1>2, <1>3, <1>4

LEMMA RunningGoesOn == GatewayInv /\ RunningInv => NoDeadlock
<1> SUFFICES ASSUME GatewayInv, RunningInv PROVE NoDeadlock
  OBVIOUS
<1>0. /\ inbound \in Seq(Message) /\ Len(inbound) <= Capacity
      /\ outbound \in Seq(Message)
      /\ dispatcher.pc \in {"idle", "sending", "stopped"}
      /\ session \in [Expiring -> {"none", "first", "login", "again", "late"}]
  BY DEF GatewayInv, TypeOK
<1>1. ASSUME NEW s, handler[s] # {}, ~HandlerGoesOn(s)
      PROVE  inbound # <<>> /\ Len(inbound) = Capacity
  BY <1>0, <1>1 DEF HandlerGoesOn
<1>2. ASSUME main = "serving", Pending # {}
      PROVE  (\E s \in Sources : HandlerGoesOn(s)) \/ AgentGoesOn \/ DispatcherGoesOn
  <2>1. CASE Replies # {}
    <3>1. outbound # <<>>
      BY <1>0, <2>1 DEF Replies, Ids
    <3> QED  BY <1>0, <1>2, <3>1 DEF RunningInv, DispatcherGoesOn
  <2>2. CASE Working # {} \/ Asked # {}
    <3>1. inbound # <<>> \/ agent.pc \in {"turn", "reply"}
      BY <1>0, <2>2 DEF Working, Asked, Ids
    <3> QED  BY <1>2, <3>1, WaitsForSomebody DEF RunningInv
  <2>3. CASE Handled # {}
    <3>1. PICK s \in Sources : handler[s] # {}
      BY <2>3 DEF Handled
    <3> QED  BY <1>1, <1>2, <3>1, WaitsForSomebody DEF RunningInv
  <2> QED  BY <1>2, <2>1, <2>2, <2>3 DEF Pending
<1>3. ASSUME main = "channels", stopping.waits = NoChannel
      PROVE  stopping.todo # {} \/ dispatcher.pc = "stopped" \/ DispatcherGoesOn
  BY <1>0, <1>3 DEF RunningInv, DispatcherGoesOn, DispatchCancelled
<1>4. ASSUME main = "channels", stopping.waits # NoChannel, ~BusStuck, ~LoginPending
      PROVE  IF handler[stopping.waits] = {}
             THEN stopping.waits \in Expiring =>
                     session[stopping.waits] \in {"none", "first", "again"}
             ELSE HandlerGoesOn(stopping.waits) \/ AgentGoesOn \/ DispatcherGoesOn
  <2>1. CASE handler[stopping.waits] = {}
    BY <1>0, <1>4, <2>1 DEF LoginPending
  <2>2. CASE handler[stopping.waits] # {}
    BY <1>1, <1>4, <2>2, WaitsForSomebody DEF BusStuck
  <2> QED  BY <2>1, <2>2
<1>5. ASSUME main = "agent", ~BusStuck PROVE agent.pc = "stopped" \/ AgentGoesOn
  <2>1. ~DispatcherGoesOn
    BY <1>5 DEF RunningInv, DispatcherGoesOn
  <2> QED  BY <1>5, <2>1, WaitsForSomebody DEF BusStuck
<1> QED  BY <1>2, <1>3, <1>4, <1>5 DEF NoDeadlock

(* No circle of goroutines that wait for each other stops the gateway      *)
(* while it serves, and none but BusStuck and LoginPending its shutdown,   *)
(* whatever the capacity of the bus and the number of channels and jobs.   *)
THEOREM GatewayDoesNotDeadlock == Spec => []NoDeadlock
<1>1. Init => GatewayInv /\ RunningInv
  BY GatewayInit DEF Init, RunningInv
<1>2. (GatewayInv /\ RunningInv) /\ [Next]_vars => (GatewayInv /\ RunningInv)'
  BY GatewayNext, RunningNext
<1> QED  BY <1>1, <1>2, RunningGoesOn, PTL DEF Spec
=============================================================================
