--------------------------- MODULE MCOrderConsumer ---------------------------
(***************************************************************************)
(* Model-checking instances of OrderConsumer.  A set of topics stands for  *)
(* the contents other programs may have put into the orders topic: every   *)
(* kind of record the loop tells apart, in first and in last place, alone  *)
(* and next to one of another kind, in the same and in another partition.  *)
(***************************************************************************)
EXTENDS OrderConsumer

CONSTANTS p1, p2

An(product, price, id) == [orderId |-> id, product |-> product, price |-> price]

Good    == An("Item", "positive", "1001")
Flaky   == An(FLAKY_PRODUCT, "positive", "1002")
Poison  == An(POISON_PRODUCT, "positive", "1001")
Invalid == An(FLAKY_PRODUCT, "nonpositive", "1002")
NoId    == An("Item", "positive", "")
NaN     == An("Item", "nan", "1001")

TwoPartitions(one, two) == [p \in {p1, p2} |-> IF p = p1 THEN one ELSE two]

\* Failing records in a row, so that the DLQ producer's buffer fills up; a record
\* the deserializer rejects in front of one that is fine; tombstones.
MixedTopics ==
  {TwoPartitions(<<Flaky, Poison>>, <<Invalid>>),
   TwoPartitions(<<Tombstone, NoId>>, <<Poison, Good>>),
   TwoPartitions(<<Flaky>>, <<Undecodable, Good>>)}

\* The same without the record that ends every process.
DecodableTopics ==
  {TwoPartitions(<<Flaky, Poison>>, <<Invalid>>),
   TwoPartitions(<<Tombstone, NoId>>, <<Poison, Good>>)}

\* For a budget that is too small for the first of two FLAKY orders with one id.
HopelessTopics ==
  {TwoPartitions(<<Flaky, Good>>, <<Flaky>>),
   TwoPartitions(<<Tombstone, NoId>>, <<Flaky, Poison>>)}

UndecodableTopic == {TwoPartitions(<<Undecodable, Good>>, <<Good>>)}

NaNTopic == {TwoPartitions(<<Good, NaN>>, <<Good>>)}
=============================================================================
