---------------------------- MODULE OrderProducer ----------------------------
(***************************************************************************)
(* Runs of producer/producer.py, one after the other, with the generator   *)
(* of producer/orders.py.  produce() leaves an order in the client's       *)
(* buffer; the client's thread sends it, again when no acknowledgement     *)
(* comes (the client is not idempotent, so this can write it twice), and   *)
(* gives up on it in the end.  An order keeps its place in the buffer      *)
(* until its delivery callback was served, in poll(0) or in flush().       *)
(* Whether the topic exists the client knows from its cached metadata,     *)
(* which it asks the broker for at times of its own and which can be out   *)
(* of date in between.                                                     *)
(*                                                                         *)
(* The k-th order of run r is <<r, k>>, k counting from 0.  Rates and the  *)
(* draws of the random generator are in units of 1/Scale.                  *)
(***************************************************************************)
EXTENDS FiniteSets, Sequences, Cluster

CONSTANTS
  Arguments,      \* the command lines to consider
  ProducerRuns,   \* how many runs there are
  BufferLimit,    \* how many orders the client's buffer holds
  Scale,
  NaN

Products == {"POISON", "FLAKY", "Item"}   \* PRODUCT_POOL is one product
Rates    == Int \cup {NaN}
Draws    == 0 .. Scale - 1                \* random() is below 1
NoProduct == "none"                       \* --product is not given

ASSUME ProducerAssumption ==
  /\ Arguments \subseteq
       [count : Int, poison_rate : Rates, flaky_rate : Rates,
        product : Products \cup {NoProduct}, start_id : Int]
  /\ Arguments # {}
  /\ ProducerRuns \in Nat
  /\ BufferLimit \in Nat \ {0}
  /\ Scale \in Nat \ {0}
  /\ NaN \notin Int

VARIABLES
  log,             \* per topic, the records in the order they were written
  run,             \* the current or last run
  producerPhase,   \* where its main() is
  args,            \* its command line
  orders_topic,    \* settings.orders_topic
  offset,          \* how many orders it handed to the client
  sent,
  buffer,          \* records in the client's buffer
  served,          \* those of them that wait only for their delivery callback
  metadata,        \* what the client believes of the topic
  status,          \* what main() returns or raises
  \* history
  interrupted,     \* KeyboardInterrupt ended the loop
  given_up         \* offsets of the orders whose callback got an error

runVars == <<run, args, orders_topic>>
loopVars == <<producerPhase, offset, sent, status, interrupted>>
clientVars == <<buffer, served, metadata, given_up>>
producerVars == <<log, runVars, loopVars, clientVars>>
-----------------------------------------------------------------------------
\* The range check of main().  Every comparison with NaN is false.
InRange(rate) == rate # NaN /\ 0 <= rate /\ rate <= Scale

\* Mutant of ProductOf: the thresholds belong to the lower product.
ProductOfInclusive(a, draw) ==
  IF a.product # NoProduct THEN a.product
  ELSE IF draw <= a.poison_rate THEN "POISON"
  ELSE IF draw <= a.poison_rate + a.flaky_rate THEN "FLAKY"
  ELSE "Item"

\* The product of an order: forced, or by where the draw falls.
ProductOf(a, draw) ==
  IF a.product # NoProduct THEN a.product
  ELSE IF draw < a.poison_rate THEN "POISON"
  ELSE IF draw < a.poison_rate + a.flaky_rate THEN "FLAKY"
  ELSE "Item"

\* Mutant of OrderId: the offset is forgotten.
OrderIdFirst(a, k) == a.start_id

OrderId(a, k) == a.start_id + k

\* A record that says which order of which run it is.
RecordOf(k, product) ==
  [key |-> OrderId(args, k), product |-> product, run |-> run, offset |-> k]

InFlight == buffer \ served
-----------------------------------------------------------------------------
ProducerInit ==
  /\ log = [n \in TopicNames |-> <<>>]
  /\ run = 0 /\ args = (CHOOSE a \in Arguments : TRUE) /\ orders_topic = "orders"
  /\ producerPhase = "over"
  /\ offset = 0 /\ sent = 0 /\ status = 0 /\ interrupted = FALSE
  /\ buffer = {} /\ served = {} /\ metadata = "none" /\ given_up = {}

\* The next run begins; nothing of the one before it is left in memory.
NewRun(a) ==
  /\ producerPhase = "over" /\ run < ProducerRuns
  /\ run' = run + 1
  /\ args' = a
  /\ offset' = 0 /\ sent' = 0 /\ interrupted' = FALSE
  /\ buffer' = {} /\ served' = {} /\ metadata' = "none" /\ given_up' = {}
  /\ UNCHANGED <<log, partitions, faults>>

\* main() up to its loop.
ProducerStart(a, s) ==
  /\ NewRun(a)
  /\ Complete(s) /\ InRange(a.poison_rate) /\ InRange(a.flaky_rate)
  /\ orders_topic' = s.orders_topic
  /\ status' = 0
  /\ producerPhase' = "produce"

\* An empty setting, at the import, or a rate out of range.
ProducerRefuses(a, s) ==
  /\ NewRun(a)
  /\ \/ ~Complete(s) /\ status' = 1
     \/ Complete(s) /\ ~(InRange(a.poison_rate) /\ InRange(a.flaky_rate)) /\ status' = 2
  /\ UNCHANGED <<producerPhase, orders_topic>>

MoreOrders == producerPhase = "produce" /\ offset < args.count

\* The next order is generated and produce() takes it into the buffer.
Produce(draw) ==
  /\ MoreOrders
  /\ Cardinality(buffer) < BufferLimit
  /\ buffer' = buffer \cup {RecordOf(offset, ProductOf(args, draw))}
  /\ offset' = offset + 1
  /\ producerPhase' = "queued"
  /\ UNCHANGED <<partitions, faults, log, runVars, sent, status, interrupted, served,
                 metadata, given_up>>

\* The loop is left for the finally clause.
LeaveLoop(result) ==
  /\ producerPhase' = "flush"
  /\ status' = result
  /\ UNCHANGED <<partitions, log, runVars, offset, sent, clientVars>>

\* The buffer is full: produce() raises BufferError.
BufferFull ==
  /\ MoreOrders
  /\ Cardinality(buffer) >= BufferLimit
  /\ LeaveLoop(1)
  /\ UNCHANGED <<faults, interrupted>>

\* The client believes that the topic does not exist: produce() raises KafkaException.
ProduceRefused ==
  /\ MoreOrders
  /\ metadata = "missing"
  /\ LeaveLoop(1)
  /\ UNCHANGED <<faults, interrupted>>

\* The serializer raises, the Schema Registry not being reachable.
SerializerRaises ==
  /\ MoreOrders
  /\ LeaveLoop(1)
  /\ Fault
  /\ UNCHANGED interrupted

\* Mutant of PollCallbacks: an order counts when it was acknowledged.
PollCallbacksCountsServed ==
  /\ producerPhase = "queued"
  /\ buffer' = InFlight
  /\ served' = {}
  /\ sent' = sent + Cardinality(served)
  /\ producerPhase' = "produce"
  /\ UNCHANGED <<partitions, faults, log, runVars, offset, status, interrupted, metadata,
                 given_up>>

\* Mutant of PollCallbacks: an order whose callback was served is not forgotten.
PollCallbacksKeepsServed ==
  /\ producerPhase = "queued"
  /\ buffer' = InFlight
  /\ sent' = sent + 1
  /\ producerPhase' = "produce"
  /\ UNCHANGED <<partitions, faults, log, runVars, offset, status, interrupted, served,
                 metadata, given_up>>

\* poll(0) serves the callbacks that wait, and the order is counted.
PollCallbacks ==
  /\ producerPhase = "queued"
  /\ buffer' = InFlight
  /\ served' = {}
  /\ sent' = sent + 1
  /\ producerPhase' = "produce"
  /\ UNCHANGED <<partitions, faults, log, runVars, offset, status, interrupted, metadata,
                 given_up>>

\* The generator has no more orders.
Exhausted ==
  /\ producerPhase = "produce" /\ offset >= args.count
  /\ LeaveLoop(0)
  /\ UNCHANGED <<faults, interrupted>>

\* Ctrl+C anywhere in the loop, the sleep included.
Interrupt ==
  /\ producerPhase \in {"produce", "queued"}
  /\ LeaveLoop(0)
  /\ interrupted' = TRUE
  /\ Fault

\* The process is over, and the client with it.
Over(result) ==
  /\ producerPhase' = "over"
  /\ status' = result
  /\ buffer' = {} /\ served' = {} /\ metadata' = "none"
  /\ UNCHANGED <<partitions, log, runVars, offset, sent, interrupted, given_up>>

\* flush() returns 0: every order is delivered or given up, and its callback was
\* served.
FlushCompletes ==
  /\ producerPhase = "flush" /\ InFlight = {}
  /\ Over(status)
  /\ UNCHANGED faults

\* Mutant of FlushTimesOut: flush() without a timeout.
FlushNeverTimesOut == FALSE

\* Mutant of FlushTimesOut: the outstanding orders are only logged.
FlushTimesOutLogs ==
  /\ producerPhase = "flush" /\ InFlight # {}
  /\ Over(status)
  /\ UNCHANGED faults

\* The thirty seconds of flush() pass first.  The return in the finally clause also
\* swallows what was raised in the loop.
FlushTimesOut ==
  /\ producerPhase = "flush" /\ InFlight # {}
  /\ Over(1)
  /\ UNCHANGED faults

\* The process is killed, or interrupted once more during the flush.
ProducerKilled ==
  /\ producerPhase # "over"
  /\ Over(-1)
  /\ Fault
-----------------------------------------------------------------------------
\* The client asks the broker for the topic, which it does when it has an order for it,
\* again after a while, and at no time main() knows of.
Refresh ==
  /\ producerPhase # "over"
  /\ metadata' = IF Exists(orders_topic) THEN "found" ELSE "missing"
  /\ metadata' # metadata
  /\ UNCHANGED <<partitions, faults, log, runVars, loopVars, buffer, served, given_up>>

Written(r) == log' = [log EXCEPT ![orders_topic] = Append(@, r)]

\* An order is written and acknowledged.
Delivered(r) ==
  /\ r \in InFlight /\ metadata = "found"
  /\ Written(r)
  /\ served' = served \cup {r}
  /\ UNCHANGED <<partitions, faults, runVars, loopVars, buffer, metadata, given_up>>

\* An order is written and the acknowledgement lost; the client will send it again.
AckLost(r) ==
  /\ r \in InFlight /\ metadata = "found"
  /\ Written(r)
  /\ Fault
  /\ UNCHANGED <<partitions, runVars, loopVars, clientVars>>

\* The client gives up on an order, and the callback logs "delivery FAILED".
GivesUp(r) ==
  /\ r \in InFlight
  /\ served' = served \cup {r}
  /\ given_up' = given_up \cup {r.offset}
  /\ UNCHANGED <<partitions, log, runVars, loopVars, buffer, metadata>>

\* It does for faults of the broker, and when it believes that the topic does not
\* exist, although the topic may have been created since it asked.
DeliveryFails(r) ==
  /\ GivesUp(r)
  /\ Fault \/ (metadata = "missing" /\ UNCHANGED faults)
-----------------------------------------------------------------------------
\* The steps main() takes by itself.
ProducerStep ==
  \/ \E draw \in Draws : Produce(draw)
  \/ BufferFull \/ ProduceRefused \/ PollCallbacks \/ Exhausted
  \/ FlushCompletes \/ FlushTimesOut

ClientStep ==
  \/ Refresh
  \/ \E r \in InFlight : Delivered(r) \/ AckLost(r) \/ DeliveryFails(r)

ProducerNext ==
  \/ \E a \in Arguments, s \in Resolved : ProducerStart(a, s) \/ ProducerRefuses(a, s)
  \/ ProducerStep
  \/ SerializerRaises \/ Interrupt \/ ProducerKilled
  \/ ClientStep

Record == [key : Int, product : Products, run : Nat, offset : Nat]

ProducerTypeOK ==
  /\ log \in [TopicNames -> Seq(Record)]
  /\ run \in 0 .. ProducerRuns
  /\ args \in Arguments
  /\ orders_topic \in TopicNames
  /\ producerPhase \in {"produce", "queued", "flush", "over"}
  /\ offset \in Nat /\ sent \in Nat
  /\ buffer \in SUBSET Record /\ served \subseteq buffer
  /\ metadata \in {"none", "missing", "found"}
  /\ status \in -1 .. 2
  /\ interrupted \in BOOLEAN
  /\ given_up \in SUBSET Nat

IsWritten(k) ==
  \E i \in DOMAIN log[orders_topic] :
    log[orders_topic][i].run = run /\ log[orders_topic][i].offset = k

\* What exit code 0 promises: each order handed to the client is in the topic, or
\* its delivery callback got an error and logged it.  None is lost in silence, in
\* an interrupted run, after a full buffer or a flush that timed out
\* (producer.py:142-153; the exit code says nothing of failed deliveries).
ExitZeroAccounts ==
  producerPhase = "over" /\ status = 0 =>
    \A k \in 0 .. offset - 1 : k \in given_up \/ IsWritten(k)

\* The number in the last line of a run that ends with 0 is the number of orders
\* handed to the client, which are all there should be; after an interrupt it may
\* be one short (producer.py:123-152).
DoneLineHonest ==
  producerPhase = "over" /\ status = 0 =>
    IF interrupted THEN offset - sent \in {0, 1}
    ELSE sent = offset /\ (run > 0 => sent = IF args.count > 0 THEN args.count ELSE 0)

\* Records with one orderId keep their relative order (producer.py:56-59), over
\* several runs that use the same ids and over retries that write a record twice.
\* Within a run this rests on the ids being distinct, not on the partitioner: the
\* client retries without ordering.
SameKeyInOrder ==
  \A n \in TopicNames : \A i, j \in DOMAIN log[n] :
    i < j /\ log[n][i].key = log[n][j].key =>
      \/ log[n][i].run < log[n][j].run
      \/ log[n][i].run = log[n][j].run /\ log[n][i].offset = log[n][j].offset

\* The rates are honoured at their ends: 0 is never and 1 is always, poison first,
\* and a forced product is the only one (orders.py:59-70, producer.py:79-81).
RatesHonoured ==
  \A i \in DOMAIN log[orders_topic] :
    LET product == log[orders_topic][i].product
    IN  log[orders_topic][i].run = run =>
          IF args.product # NoProduct THEN product = args.product
          ELSE /\ product = "POISON" => args.poison_rate > 0
               /\ product = "FLAKY" => args.flaky_rate > 0 /\ args.poison_rate < Scale
               /\ product = "Item" => args.poison_rate + args.flaky_rate < Scale

\* Every run comes to its end, whatever the broker does: the flush has a timeout
\* (producer.py:145-150).
ProducerEnds == producerPhase # "over" ~> producerPhase = "over"
=============================================================================
