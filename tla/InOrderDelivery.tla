--------------------------- MODULE InOrderDelivery ---------------------------
(***************************************************************************)
(* What the consumer promises to the owner of the orders topic: at-least-  *)
(* once handling, in order within a partition.  The only record that may   *)
(* be handled is the one at the group's committed offset, it may be        *)
(* handled again until the offset moves, and the offset moves by one       *)
(* record, in one partition, once that record has been handled.            *)
(*                                                                         *)
(* "Handled" is: counted in the aggregate, skipped as a tombstone, or      *)
(* handed to the dead letter queue.                                        *)
(***************************************************************************)
EXTENDS Integers, Sequences

CONSTANT Partitions

VARIABLES
  topic,      \* [Partitions -> sequence of records]; the offset of topic[p][i] is i - 1
  acked,      \* [Partitions -> Nat]: the committed offset, the next record to handle
  handled     \* the set of <<partition, offset>> handled at least once

deliveryVars == <<topic, acked, handled>>

DeliveryInit ==
  /\ acked = [p \in Partitions |-> 0]
  /\ handled = {}

\* The record at the committed offset of p is handled, perhaps once more.
Handle(p) ==
  /\ acked[p] < Len(topic[p])
  /\ handled' = handled \cup {<<p, acked[p]>>}
  /\ UNCHANGED <<topic, acked>>

\* The committed offset of p moves past a handled record.
Acknowledge(p) ==
  /\ acked[p] < Len(topic[p])
  /\ <<p, acked[p]>> \in handled
  /\ acked' = [acked EXCEPT ![p] = @ + 1]
  /\ UNCHANGED <<topic, handled>>

DeliveryNext == \E p \in Partitions : Handle(p) \/ Acknowledge(p)

DeliverySpec == DeliveryInit /\ [][DeliveryNext]_deliveryVars

\* No partition is left behind: every record is handled and acknowledged.
DeliveryFairSpec ==
  /\ DeliverySpec
  /\ \A p \in Partitions : WF_deliveryVars(Handle(p)) /\ WF_deliveryVars(Acknowledge(p))
=============================================================================
