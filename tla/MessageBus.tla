---------------------------- MODULE MessageBus ----------------------------
(***************************************************************************)
(* service/bus/message_bus.go: two buffered Go channels between the chat   *)
(* channels, the agent and the dispatcher.  A publisher waits while the    *)
(* buffer is full, a consumer waits while it is empty.                     *)
(***************************************************************************)
EXTENDS Naturals, Sequences

CONSTANT Capacity       \* defaultBusBufferSize

ASSUME CapacityAssumption == Capacity \in Nat \ {0}

VARIABLES inbound, outbound

BusInit == inbound = <<>> /\ outbound = <<>>

(* Mutant: a full buffer drops the message instead of making the publisher *)
(* wait.                                                                   *)
PublishInboundDrops(m) ==
    inbound' = IF Len(inbound) < Capacity THEN Append(inbound, m) ELSE inbound

PublishInbound(m) ==
    /\ Len(inbound) < Capacity
    /\ inbound' = Append(inbound, m)

(* Mutant: a publisher does not wait for the consumer. *)
PublishOutboundUnbounded(m) == outbound' = Append(outbound, m)

PublishOutbound(m) ==
    /\ Len(outbound) < Capacity
    /\ outbound' = Append(outbound, m)

(* Mutant: the buffer is a stack. *)
ConsumeInboundLast(m) ==
    /\ inbound # <<>>
    /\ m = inbound[Len(inbound)]
    /\ inbound' = SubSeq(inbound, 1, Len(inbound) - 1)

ConsumeInbound(m) ==
    /\ inbound # <<>>
    /\ m = Head(inbound)
    /\ inbound' = Tail(inbound)

ConsumeOutbound(m) ==
    /\ outbound # <<>>
    /\ m = Head(outbound)
    /\ outbound' = Tail(outbound)
=============================================================================
