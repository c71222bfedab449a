--------------------------- MODULE OrderProcessing ---------------------------
(***************************************************************************)
(* The unit of work of the consumer, process() in consumer/consumer.py:    *)
(* validate the order, then run the simulated side effect of               *)
(* consumer/failures.py.  Adding the order to the aggregator, its last     *)
(* statement, is a change of the consumer's state and is in OrderConsumer. *)
(*                                                                         *)
(* Field values are abstracted to what the code tells apart: a product is  *)
(* one of the two sentinels, blank, or "Item" for any other name; a price  *)
(* is positive, not positive, or the float NaN.                            *)
(***************************************************************************)
EXTENDS Integers

CONSTANTS
  OrderIds,       \* the orderId strings in use, the blank one excluded
  FlakyAttempts,  \* flaky_attempts_needed; --flaky-attempts takes any integer
  Tombstone,      \* a record whose value is null
  Undecodable     \* a record whose value the Avro deserializer rejects

FLAKY_PRODUCT  == "FLAKY"
POISON_PRODUCT == "POISON"

\* What the Avro schema admits: three required fields, any string, any float.
Order ==
  [orderId : OrderIds \cup {""},
   product : {FLAKY_PRODUCT, POISON_PRODUCT, "Item", ""},
   price   : {"positive", "nonpositive", "nan"}]

RecordValue == Order \cup {Tombstone, Undecodable}

ASSUME ProcessingAssumption ==
  /\ FlakyAttempts \in Int
  /\ "" \notin OrderIds
  /\ Tombstone \notin Order
  /\ Undecodable \notin Order
  /\ Tombstone # Undecodable

-----------------------------------------------------------------------------
\* validate(): a blank id, a blank product, or price <= 0.  NaN <= 0 is false.
validate(order) ==
  /\ order.orderId # ""
  /\ order.product # ""
  /\ order.price # "nonpositive"

\* Whether FailureSimulator.process counts this attempt in _attempts.
CountsAttempt(order) == validate(order) /\ order.product = FLAKY_PRODUCT

\* Mutant of SeenAfter: the counter is written back without the increment.
SeenAfterForgets(order, attempts) == attempts

\* FailureSimulator._attempts after one process() of the order.
SeenAfter(order, attempts) ==
  IF CountsAttempt(order)
  THEN [attempts EXCEPT ![order.orderId] = @ + 1]
  ELSE attempts

\* What one process() of the order does, given _attempts before it: the class
\* of the exception it raises, or "ok".
process(order, attempts) ==
  CASE ~validate(order)                -> "ValidationError"
    [] /\ validate(order)
       /\ order.product = POISON_PRODUCT -> "PermanentError"
    [] /\ CountsAttempt(order)
       /\ attempts[order.orderId] + 1 <= FlakyAttempts -> "TransientError"
    [] OTHER                           -> "ok"
=============================================================================
