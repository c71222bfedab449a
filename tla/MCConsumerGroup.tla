--------------------------- MODULE MCConsumerGroup ---------------------------
(***************************************************************************)
(* Model-checking instance of ConsumerGroup.                               *)
(***************************************************************************)
EXTENDS ConsumerGroup

CONSTANTS p1, p2

TwoTopics == {[p \in {p1, p2} |-> IF p = p1 THEN <<"a", "b">> ELSE <<"c">>]}
=============================================================================
