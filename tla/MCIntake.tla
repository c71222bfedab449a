------------------------------ MODULE MCIntake ------------------------------
(***************************************************************************)
(* Model-checking instance of Intake.                                      *)
(***************************************************************************)
EXTENDS Intake

Env(orders, dlq) == [v \in Variables |-> IF v = "ORDERS_TOPIC" THEN orders ELSE dlq]

\* Nothing exported; another topic; a variable exported empty, which hides the file.
SomeShells == {Env(Unset, Unset), Env("other", Unset), Env("", Unset)}

\* A file that names the first topic only.
SomeDotEnvs == {Env("orders", Unset)}

An(count, poison, flaky, product, start) ==
  [count |-> count, poison_rate |-> poison, flaky_rate |-> flaky, product |-> product,
   start_id |-> start]

\* A forced product, which wins over a rate of 1; rate 0; half POISON and half FLAKY;
\* a rate that is refused.  The ids overlap.
SomeArguments ==
  {An(2, 2, 0, "FLAKY", 1), An(1, 0, 0, NoProduct, 2), An(1, 1, 1, NoProduct, 2),
   An(1, NaN, 0, "POISON", 1)}

Holding(orders, other, dlq) ==
  [n \in TopicNames |->
     CASE n = "orders" -> orders [] n = "other" -> other [] n = "orders.DLQ" -> dlq]

SomeClusters == {Holding(0, 0, 0)}
=============================================================================
