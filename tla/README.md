# Formal model of the order pipeline

TLA+ specifications of the Kafka/Avro order pipeline of this repository, model
checked with TLC and, where the prover reaches, proved with TLAPS. Paths are relative to
the repository root.

## 1. The system

A tool creates the topics `orders` and `orders.DLQ`; a producer writes orders to
the first; consumer processes, one or several in a group, read them, run a unit of
work with retries, keep a running average, send what they cannot process to the
second, and commit offsets by hand; a reader prints the second. All they share is
the broker; each resolves its settings for itself when it is started.

| Component | State it keeps | Operations | Talks to |
|---|---|---|---|
| Order consumer, `consumer/consumer.py` | `running`, the message in hand, counters `processed` and `failed`; in the client: position per partition; at the broker: committed offsets | poll, process, route, commit, SIGINT handler, shutdown | broker, retry policy, aggregator, simulator, DLQ |
| Retry policy, `consumer/retry.py` | the loop variable and last exception of one `execute()` | `classify`, `backoff_for`, `execute` | calls the unit of work, sleeps |
| Failure simulator and validation, `consumer/failures.py`, `validate` | `_attempts`, keyed by orderId, for the life of the process | `process`, `reset` | called by the unit of work |
| Dead letter queue, `consumer/dlq.py` | the client's buffer of undelivered reports, `published` | `publish`, `_on_delivery`, `flush` | broker |
| Aggregator, `consumer/aggregator.py` | one `_Stat` in all and one per product | `add`, `snapshot`, `format_summary` | called last in the unit of work |
| Order producer, `producer/producer.py` | `sent`, the client's buffer | produce, poll, flush, delivery callbacks | broker, Schema Registry, generator |
| Order generator, `producer/orders.py` | the random generator | `generate_orders` | producer |
| DLQ reader, `tools/read_dlq.py` | `count`, `idle` | poll loop | broker |
| Topic creation, `tools/create_topics.py` | exit code | one request per topic | broker |
| Configuration, `common/config.py` | an immutable snapshot | `_require` | everything |
| Schema, `common/schema.py`, `schemas/order.avsc` | none | builders of (de)serializers | Schema Registry |
| Logging, compose file, demo script | none that matters here | | |

What is hard here:

* **Crash and restart.** The process can die between any two statements. What
  it had read and not committed is read again, its memory (counters,
  `_attempts`, the DLQ buffer) is gone.
* **`commit()` without arguments** commits everything `poll()` has returned on
  all partitions. The loop is right only because every path round it that
  reads a record also finishes it and commits before the next `poll()`.
* **Asynchronous DLQ writes.** `publish` only enqueues; delivery, failed
  delivery, a full buffer and a flush timeout happen at other times.
* **Signals.** SIGINT clears a flag at any point of an iteration; on Windows a
  `KeyboardInterrupt` unwinds the loop at any point.
* **Retries around stateful work.** The simulator remembers attempts by orderId
  across messages, and the aggregate changes inside the retried callable.
* **Rebalances.** A member of the group can be expelled with a record in hand,
  during its backoffs, and not know it until it commits.
* **Retries of the client.** The producer's client is not idempotent: an order
  whose acknowledgement was lost is written twice, behind others.
* **Several programs.** Two runs of `create_topics` at once, settings that differ
  from shell to shell, two runs of the producer with the same ids, a reader that
  starts to count before it has a partition.
* **Cached metadata.** The producer's client decides by what it last heard from the
  broker whether a topic exists, and the topic may have been made since.
* **Edges.** An attempt budget of 0, a `NaN` price or rate, tombstones, a record the
  deserializer rejects, a timeout that is not a whole number of polls, or is `nan`.

What makes each component correct: the consumer handles every record at least
once, in order within its partition, repeats at most one after a crash, counts
each record once per process, and stops without leaving anything uncommitted;
the group as a whole does so too, with one owner per partition; the retry policy
keeps its budget and reports what happened; the DLQ report identifies the failed
record and its cause; the aggregator holds exactly the orders that succeeded; the
producer's exit code 0 means that no order was lost in silence, and records with
one id stay in order; `create_topics` may be run again, at any time; the reader
shows the DLQ from the beginning, and waits as long as it is told.

## 2. The modules

| Module | Models |
|---|---|
| `RetryPolicy` | the control of `RetryPolicy.execute` with any callable: one action per invocation and per sleep |
| `RetryTiming` | `RetryPolicy` with the delays of `backoff_for` |
| `OrderProcessing` | the unit of work: `validate` and `FailureSimulator.process`, as operators |
| `OrderConsumer` | `main()` of the consumer, the broker state it shares, the DLQ producer, crashes and restarts; extends the two modules above |
| `InOrderDelivery` | the abstract specification: in-order, at-least-once handling of every partition |
| `Aggregator` | the statistics of `aggregator.py`, one assignment per step, under an interrupt |
| `ConsumerGroup` | several consumers in one group with its coordinator: rebalances, expulsions, refused commits |
| `Cluster` | what all programs share: the resolution of settings, and the topics that exist |
| `TopicAdmin` | concurrent runs of `create_topics.py`; extends `Cluster` |
| `OrderProducer` | runs of `producer.py` with the generator and the client's thread; extends `Cluster` |
| `Intake` | the composition of `TopicAdmin` and `OrderProducer` against one broker |
| `DlqReader` | one run of `read_dlq.py` while reports arrive |
| `RetryPolicyProofs`, `RetryTimingProofs`, `OrderConsumerProofs`, `OrderReportProofs`, `AggregatorProofs`, `ConsumerGroupProofs`, `IntakeProofs`, `DlqReaderProofs` | theorems and proofs |
| `MCRetryTiming`, `MCOrderConsumer`, `MCConsumerGroup`, `MCAggregator`, `MCIntake`, `MCDlqReader` | instances for TLC |

### RetryPolicy and RetryTiming

`retryState` is the program counter of `execute()`: `idle` before the first
call, `call` at `fn()`, `sleep` at `self.sleep(delay)`, `done` after a return.
`attempt` is the loop variable and `outcome` the `RetryOutcome`. `results` is a
history variable: what each invocation did. Exceptions are the classes
`classify()` tells apart, with `Other` for any class it has no rule for. The
attempt budget is any integer, as on the command line: with 0 or less the loop
body never runs and the failure outcome carries no exception (`NoError`).
`GivesUp` is the condition of the two `break`s. `Failure` computes `attempts`
the way the code does, from the class of the last error and not from the loop
variable.

`RetryTiming` counts time in whole units and lets the jitter draw any value of
its band, so that a run covers every random generator.

### OrderConsumer

The variable `phase` says where `main()` is:

    down --Start--> poll --PollOrder--> work --CountProcessed/RouteToDlq--> commit --Commit--> poll
                     |  \--PollTombstone-------------------------------------^
                     +--LeaveLoop, PollUndecodable, errors--> flush --> close --> down

and from every phase but `down` a `Crash` leads to `down`. In `work` the retry
policy's actions run `process()` once per `call` state.

| State | In the code |
|---|---|
| `topic`, `committed`, `dlqTopic` | the broker: records per partition, the group's offsets, the delivered reports |
| `position` | the client's position per partition, moved by `poll()` |
| `current` | the origin of `msg`, as partition and offset |
| `seen` | `FailureSimulator._attempts` |
| `aggregated`, `count` | the orders in the aggregator and `aggregator.count` |
| `processed`, `failed`, `published` | the counters of the final log line |
| `outbox`, `answered` | reports in the buffer of the DLQ producer, and those of them that wait only for their delivery callback |
| `exit`, `outstanding` | why the `try` block was left, what `dlq.flush` returned |
| `resumed`, `routed`, `rejected`, `handled`, `faults` | history, for the properties and the bound |

A record is *handled* when the aggregator took it, when it was skipped as a
tombstone, or when its report was handed to the DLQ producer.

Abstractions, and why nothing the properties tell apart is lost:

* A poll, an attempt, a publish and a commit are one step each. Other actors
  (signals, crashes, deliveries) act between the steps. The `failed` counter
  moves in the same step as the publish; a full buffer (`RouteToDlqRaises`) and a
  `KeyboardInterrupt` before or after the `produce()` inside `publish`
  (`InterruptBeforeProduce`, `InterruptAfterProduce`) leave it half done. An
  interrupt in the middle of one of the other steps is taken before or after it,
  but for the one inside `add()`, which `Aggregator` takes apart.
* A report keeps its slot in the DLQ client's buffer until its delivery callback
  is served, in the `poll(0)` of a later publish or in the flush. The callbacks
  only log, so serving them is part of the publish or flush step.
* The DLQ topic is a set of reports, so that a duplicate with equal headers is
  one element. No property counts duplicates; at-least-once allows them.
* The message value is a field-wise abstraction: two sentinel products, blank
  or other; a price that is positive, not positive or NaN. The key is the
  orderId and is not read by the loop except to be passed on.
* The broker keeps the topic unchanged while the consumer runs. Records that
  arrive later are covered because a longer topic whose tail has not been
  polled behaves like a shorter one.
* An interrupt after the loop (which only Windows has) tears the process down
  like a crash and is one.

### InOrderDelivery

The abstract specification has `Handle(p)`, the record at the acknowledged
offset of `p` is handled, perhaps again, and `Acknowledge(p)`, the offset moves
past a handled record. `OrderConsumer` implements it under `acked <- committed`;
retries, restarts and shutdown are stuttering steps or a second `Handle`.

### Aggregator

`OrderConsumer` says which orders are added and how often; `Aggregator` says what
`add()` makes of them. `at` is the number of the next assignment: 1 to 5 are
those of `overall.update`, 6 is `setdefault`, 7 to 11 those of the product's
`update`. A `KeyboardInterrupt` is no `Exception`, so the retry policy does not
catch it; `main()` does, and prints the summary from what is there. `stats` holds
a `_Stat` for each key, `registered` the keys of `per_product`, and `orders` is
the history the batch mean is computed from: `PricesOf(key)` maps the places of a
key's orders in the stream to their prices.

Floats are replaced by exact arithmetic: averages are integers in units of
`1/Scale`, where `Scale` is a multiple of every count up to `MaxOrders`, so no
division has a remainder. Rounding errors are out of the model; NaN is in it.

### ConsumerGroup

`OrderConsumer` is one process that owns every partition. `ConsumerGroup` has any
number of them and leaves out what they do with a record: `phase` is `down`, `poll`,
`work` or `commit`, and `Work` stands for everything between poll and commit. The
coordinator has a `generation`; a member is `Valid` while the generation it was
assigned partitions in is the current one. The client serves its rebalance callback
in `poll()` only, so `Rebalance(S)` takes members that are there; those of the old
generation that are not in `S` are expelled. An expelled member goes on with the
record in hand, may even be handed one its client had fetched, and its commit is
refused: `commit()` raises, `main()` catches the `KafkaException` and ends. In
`poll()` it may instead learn that its partitions are lost and join again, or get
an error and end. The group implements `InOrderDelivery` like the single process.

### Cluster, TopicAdmin, OrderProducer and Intake

`Cluster` translates `config.py` for the two topic names: `load_dotenv` (a variable
of the shell wins, an empty one too), `Require` with its default, and `Complete`,
the check that raises. `partitions` is the cluster: partitions per topic name, 0
for a name that does not exist; the broker creates no topic by itself.

A run of `create_topics` is `new`, `waiting` for its futures, or `over`. The broker
answers for each topic by itself and in any order; an answer may be lost after the
topic was made, and a run may be killed with requests on their way. `Verdict` is
the loop over the futures.

A run of the producer is in `produce` at the head of its loop, `queued` between
`produce()` and the counter, `flush` in the finally clause, or `over` with `status`,
its exit code or 1 for an exception; -1 is a killed process. `buffer` holds the
orders that occupy the client's buffer, `served` those of them that wait only for
their callback; `InFlight` is the rest. The client's thread writes an order and gets
its acknowledgement (`Delivered`), or loses it and will write it again (`AckLost`),
or gives up (`DeliveryFails`), for a fault or because it believes that the topic does
not exist. What it believes is `metadata`: nothing at first, and then what it last
heard from the broker (`Refresh`), which it asks whenever it likes, so the belief may be
out of date. While it is that the topic is missing, `produce()` may raise too
(`ProduceRefused`).
`prepared` is a history variable of `Intake`: `create_topics` had ended with 0 for the
topic of the run when the run was started.
Records are stamped with the run and the offset of their order, for the properties.
Rates and draws are integers in units of `1/Scale`: the run takes every draw.

Abstractions:

* One log per topic instead of one per partition. The order within a partition is
  that of the log, so a property of all pairs in the log covers each partition.
* The five ordinary products are one, and prices are left out.
* Producer runs follow each other. What a killed run had in flight is not written
  later.
* An order given up was possibly written before (`AckLost`), and is still counted as
  given up: what the callback logs is all the program knows.
* The settings of a run name two different topics (`DistinctTopics`), which
  `create_topics` takes for granted.

### DlqReader

`readerPhase` is `poll`, `print` between the counter and the `print()`, or `over`.
The partition is `assigned` at some time, or never; the group has no committed
offset, so each assignment starts at the earliest report. `PollNone` may happen at
any time: `poll(1.0)` returns `None` also when a report did not come in time, which
the history variable `late` records. Time is in half seconds. `--timeout` is a float
and so may be `nan` or `inf`, which are constants here that are no numbers; the timeout
is `Finite` otherwise. (`-inf` acts like any negative number.) `idle` and its copy
`quiet` stop growing at the timeout, above which nothing depends on them: only a
reader with `--follow` gets there. With `nan` and `inf` nothing depends on them at all.

## 3. What is checked

Bounds are the CONSTANTs of each `.cfg`. Two partitions are enough for the
interaction `commit()` has between partitions, and two records in one partition
for what is behind a failing record. `MaxFaults` bounds crashes, signals,
interrupts, broker errors, rejected reports and flush timeouts together; three
are enough for a fault during the recovery from a fault during a shutdown.
`OutboxLimit = 1` makes the DLQ buffer fill up with the second failure.

| Run | Instance | What it shows |
|---|---|---|
| `timing` | 4 attempts, any exception on each; base 4, doubling, cap 12, 25% jitter, all draws | the budget is kept; the outcome tells what happened; one sleep between two attempts and none else; delays grow below the cap whatever the jitter, and from the cap on are the cap and its jitter |
| `consumer` | 3 topics with every kind of record, 3 attempts, FLAKY recovers on the third, 3 faults | the safety of the consumer and the refinement of `InOrderDelivery` |
| `aggregator` | 4 orders of 2 products, prices 2, 3, 7 or NaN, every sequence, interrupted anywhere | means, extremes and row sums of the summary |
| `consumer_live` | 2 attempts where FLAKY needs 3, two orders with one id in two partitions, 3 faults, fairness | every record is handled and committed: no head-of-line blocking, also when retries run out |
| `group` | 2 members, partitions of 2 and 1 records, 3 faults, fairness | the group handles every record, in order, whoever is expelled |
| `intake` | 2 runs of `create_topics`, 2 of the producer, at most 3 in a behaviour; 3 shells, an empty cluster, 4 command lines, a buffer for 2 orders, 1 fault; 580 000 states, two minutes | exit codes, counters, order and thresholds; every producer run ends |
| `reader` | up to 4 reports arriving at any time; timeouts of 0, 2 and 2.5 seconds, `nan`, `inf`, and `--follow`; 3 faults | what is shown, counted and waited for |

The properties of the run `timing`:

* `RetryBudget`, `OutcomeFaithful`: no call beyond the budget, none after success or a
  permanent error, and an outcome that tells what the last call did.
* `SleepsBetweenAttempts`: how often it sleeps.
* `BackoffGrows`, `SleepsBounded`: how long. Below the cap a later sleep is longer; from
  the cap on it is `max_delay` give or take the jitter of `max_delay`, so `max_delay`
  alone is no bound. With a cap of 12 the first two delays are below it and the third
  is not.

The properties of the run `consumer`:

* `NoRecordSkipped`: nothing below a committed offset was left unhandled.
* `RedeliveryWindow`: one record at most is read and not committed.
* `SessionAccounting`: at every point, and so in the final log line and the summary
  after the loop too, each record the process read is a tombstone, aggregated or
  routed, in one of these only, and all counters agree, except for one record in
  hand whose offset is still open. What can be off is stated case by case: after an
  interrupt between `execute()` and `processed += 1` the line says one processed
  less than the aggregate counts; after a `BufferError` from `publish`, or an interrupt
  before its `produce()`, one failed more than was routed; after an interrupt behind
  its `produce()`, one published less. After Ctrl+C caught as a signal nothing is
  open and all agree.
* `RetryCountHonest`: the reported number of attempts is the number of runs (but for
  negative budgets, with which nothing runs and the budget is reported).
* `OnlyHopelessRouted`: only what retries cannot help is dead-lettered.
* `ReportFidelity`: origin, error class and retry count of every report fit the
  record it points at.
* `GracefulStop`: after Ctrl+C, nothing is uncommitted.
* `CleanExitKeepsReports`: an exit with nothing outstanding loses no report
  without an error line.
* `CommittedMonotone`: committed offsets never move back nor jump.
* `ImplementsDelivery`: refinement of `InOrderDelivery`.

The properties of the run `aggregator`:

* `MeansAreBatchMeans`: the incremental mean of each key equals the mean
  recomputed from all prices, and is NaN from the first NaN on.
* `ExtremesAreKept`: minimum and maximum bound every price; a NaN that comes
  first stays for good, a later one is ignored.
* `RowsAddUp`: the rows of the products sum up to the row of all orders; during
  `add()`, and so after an interrupt, they may miss one order.

Budgets of zero and below are in no run: all of them have a positive budget. The
theorems on `RetryBudget`, `RetryCountHonest` and `ReportFidelity` hold for every
integer.

The properties of the run `group`:

* `NoRecordSkipped`: as above, for the group.
* `HandledInStep`: no member gets ahead of the group by more than the one record in
  hand, so a refused or lost commit repeats one record of a partition and no more.
* `OwnerInStep`: a partition has one reader whose commits count, and it stands where
  the group does.
* `CommittedMonotone`: the group's offsets move by one at a time.
* `DeliversEverything`: the fair version of `InOrderDelivery`, and so the refinement.

Two members are enough for one that expels and one that is expelled; with three
faults a member is expelled twice and a commit is lost in between.

The properties of the run `intake`:

* `AdminSuccessMeansTopics`, `AdminIdempotent`: what exit code 0 of `create_topics`
  says, and when it must be 0, with other runs before, after and at the same time.
* `ExitZeroAccounts`: exit code 0 of the producer means that each order is in the
  topic or was logged as failed. It does *not* mean that all were delivered.
* `DoneLineHonest`: the number in the last line.
* `SameKeyInOrder`: records with one id keep their order, over retries and over two
  runs that use the same ids. It does not rest on the partitioner alone: the client
  may reorder, and what saves the order is that ids within a run are distinct.
* `RatesHonoured`: the thresholds at both ends.
* `NoneUnknownAfterCreate`: a producer started after `create_topics` ended with 0 under
  the same topic name gives an order up for a fault of the broker only. For one that
  was running before, this is false: its client may still believe that the topic is
  missing when `create_topics` has ended. The statement without `prepared` is violated
  in the same instance.
* `ProducerEnds`: every run of the producer ends.

A buffer of two and runs of two orders let one order wait for its callback, one be in
flight, and the buffer be full. `MaxStarts = 3` has two runs of either program with
one of the other.

The properties of the run `reader`:

* `ShownInOrder`: the DLQ from its beginning without a gap, and again from the
  beginning when the client had to join anew.
* `TotalHonest`: the total is what was printed, or one more after Ctrl+C.
* `FullUnlessLate`: a reader that gives up has shown everything, unless a poll
  returned `None` although a report was there or no partition was.
* `GivesUpAfterSilence`: it waits for the timeout, to the next whole second, and for
  ever when that is `nan` or `inf`.
* `ReaderEnds`: without `--follow` it ends, if the timeout is neither of these and if
  reports cease to come and the partition is not lost again and again: each message
  sets `idle` back to 0, so a steady stream keeps the reader for ever. The bounds
  `Reports` and `MaxFaults` make the last two true of every behaviour TLC sees; the
  property states them as its premise.

Type invariants of the modules with proofs are theorems; those of `OrderConsumer`,
`Aggregator` and `Intake` are checked as well.

Four orders let a product have one to four, in any interleaving with the other.

`consumer_live` checks `DeliversEverything`, the fair version of
`InOrderDelivery`. **Fairness assumed**: `poll()` returns records there are; the
attempts, sleeps, commits and shutdown calls return (they are calls of one
sequential program, none of which waits for another component forever); the DLQ
client delivers buffered reports (its thread retries until the delivery
timeout, and giving up is a fault); and somebody starts the process again after
it ended. The last one is the operator's part: nothing in the repository
restarts the consumer. There is no fairness for faults, and their number is
finite.

`group` assumes the same of each member, and that a rebalance everybody waits for
takes place; there is none for expulsions. `intake` assumes only that the calls of
the producer return: `produce()` and `poll(0)` do not block, and `flush` returns after
its thirty seconds; there is no fairness for the broker. `reader` assumes that `poll`
returns within its second.

Deadlock is checked in `timing` and in the runs of `OrderConsumer`: a stopped consumer
can always be started. `Aggregator`, `Intake` and `DlqReader` stop when their last
program has, and the group when everything is committed.

### Disagreements found

Each is a run that TLC must find violated.

| Run | Statement in the repository | What the code does |
|---|---|---|
| `consumer_durable` | `consumer/consumer.py:213`, a committed failure has been durably written to the DLQ | `publish` enqueues and the commit does not wait; a crash loses the report |
| `consumer_decode` | `README.md:205`, deserialization failures go straight to the DLQ | the deserializer raises out of `poll()`, the process exits with 1 and reads the same record on the next start |
| `aggregator_summary` | `consumer/consumer.py:238`, after a `KeyboardInterrupt` the finally block "still closes the consumer and prints the summary rather than dumping a traceback" | between `count += 1` and the assignment of the extremes for a first order, the row counts and has no minimum; `format_summary()` raises and `close()` is skipped |
| `consumer_nan` | `consumer/consumer.py:51`, the price must be > 0 | `NaN <= 0` is false and NaN is aggregated |
| `reader_full` | `tools/read_dlq.py:7`, the tool "always shows the full DLQ contents from the beginning" | polls before the group has its partition count as idle; when joining takes five seconds the reader prints a total of 0 and ends |

## 4. What is proved

The theorems hold for every set of partitions, every topic contents, every
attempt budget (zero and negative ones too), any number of faults, of members and
of runs, any buffer limits, settings and command lines, from the `ASSUME`s the
modules state about their constants only.

`RetryPolicyProofs`: `RetryInv`, the conjunction of the type invariant,
`LoopCounter`, `RetryBudget` and `OutcomeFaithful`, is inductive. `RetryBudget`
alone is not: that there are no more results than the budget needs the relation
between loop variable and number of results, which `LoopCounter` gives.

`OrderConsumerProofs`: the invariant is `Inv`, that is `TypeOK`, `RetryInv` and
`Loop`, where `Loop` is `InHand`, `RedeliveryWindow` and `NoRecordSkipped`. `InHand`,
which is defined with the proofs, says how position, committed offsets and handled
records agree at each point of the loop.

* `RetryUsed`: the consumer changes the retry variables only through the
  actions of `RetryPolicy` and the reset of a new process, so the lemmas of
  `RetryPolicyProofs` carry over (`RetryStep`).
* `TypeStep` has one step per action.
* `LoopStep`: `StepKinds` sorts the actions by what they do to the loop's
  state, most being `Outside` the loop or `Aside` from it. `OneRead` says what a
  poll does, `OneCommitted` what a commit does. `NoRecordSkipped` is not
  inductive alone, because a commit writes `position`; `InHand` says that this
  is the old committed offset plus the one record in hand, which was handled.

`OrderReportProofs`: `Verdict` follows one order through the retries. Only an
order that counts attempts (FLAKY and valid) is ever tried twice, and the
simulator's counter is at least the policy's loop variable, whatever other orders
share its id; so an exhausted budget means that the order needed more, and a
permanent error can only come from the first attempt. `Reported` carries that
from the moment a report is made to the buffer and the topic. `Accounted` ties the
reports of one process to buffer and topic until it ends, and what the flush
returned to what the buffer still holds.

`Accounts`, in the same module, is `SessionAccounting` (there `Ledger`) with what makes it
inductive. `NotAhead`: the offset the process resumed from is not ahead of the
committed one, so the message in hand is among the records it read. `Exact`: while
the loop runs, the books are exact but for that message, which is in the aggregate
exactly when the policy has reported success, so neither a retry nor a dead letter
can count it a second time. The steps that leave the loop take at most this one open
entry along, and after the loop nothing is written any more.

`RetryTimingProofs`: the timed actions are those of `RetryPolicy`, so `RetryInv`
carries over, and with the delays left out `RetryTiming` implements `RetryPolicy`;
`SleepsBetweenAttempts` is inductive with it. `DrawsFit` adds that the n-th sleep is
a draw of `backoff_for(n)`, which follows from the number of sleeps and the loop
variable. `BackoffGrows` then needs that the bands of two consecutive delays do not
meet. That is `BandsApart`: a positive base delay and
`100 + Jitter < Multiplier * (100 - Jitter)`. It is a hypothesis of the theorem and no
assumption of the model, because the constructor accepts any values; the defaults of
`RetryPolicy.__init__` (doubling, 25%) satisfy it with 125 < 150, and with 34% it is
false. `SleepsBounded` needs no hypothesis.

`AggregatorProofs`: an update takes five assignments, and between them some fields
have seen the order in hand and some have not. `Behind(key, k)` says that the k-th
assignment of `key`'s update is still to come, `Seen(key, k)` is the prices that
assignment has seen, and `AggregatorInv` says that each field fits the prices its own
assignment has seen. None of the run's properties is inductive without this: they
speak of settled rows only, and a row becomes settled with its last assignment. The
mean is exact because `Scale` is a multiple of every count (`ExactMean`): what is added
to it, the difference of price and mean over the new count, has no remainder.
`RowsFit` says how far the ALL row is ahead at each assignment; to keep it the sum
over the products must be known to change by what one of them changed
(`SumChange`). The same invariant gives the positive side of the finding
`aggregator_summary`: `SummaryPrintsElsewhere` says that the row of a key whose first
order is inside `update()` is the only one that can lack its extremes.

Sums over sets and powers are recursive functions, which exist only by proof. Both are
shown to satisfy their recursion without an induction theorem (those of the library
take an operator, which the provers cannot instantiate): a least counterexample of
the statement exists by `WFMin`, for sets with respect to strict inclusion, and is
refuted.

`ConsumerGroupProofs`: `GroupInv` is `TypeOK` and `Sound`. A valid member stands where
the group does (`PlaceSound`), the partitions of valid members are disjoint
(`Exclusive`), and a member with a record in hand, expelled or not, has one that is
next in its partition or was committed by another (`HandSound`). None of the
properties is inductive without these: a commit writes the positions of its member,
and `Exclusive` with `PlaceSound` says that this moves one offset by one.

`IntakeProofs`: `AdminInv` says of each run that what it was told is so; it is kept
because topics are never deleted (`Stable`). `ProducerInv` has three parts. `LogInv`:
what is in the buffer or the topics is stamped with the ids and products of its run
(`StepKinds` sorts the steps by what they write). `AccountInv`: each order of the run
is written, given up or in flight, and `flush` returns 0 only with nothing in flight.
`CountInv`: the counter against the loop. `PreparedInv` is for `NoneUnknownAfterCreate`:
the topic of a prepared run exists, because what a run of `create_topics` that ended with
0 asked for stays, and the client of that run cannot have learnt otherwise, because it
asked later (`MetadataSteps`).

`DlqReaderProofs`: what the client is about to deliver `Continues` what was shown,
and idle time is the number of empty polls since the last message. With `nan` and
`inf` the loop is not left for it.

| Theorem | Property |
|---|---|
| `RetryTypeCorrect`, `BudgetKept`, `OutcomeTold` | `RetryTypeOK`, `RetryBudget`, `OutcomeFaithful` |
| `TypeCorrect` | `TypeOK` |
| `MessageInHand` | none: the message in hand at each point of the loop (`InHand`) |
| `AtLeastOnce` | `NoRecordSkipped` |
| `OneRedelivery` | `RedeliveryWindow` |
| `CommittedOffsetsMonotone` | `CommittedMonotone` |
| `StopsGracefully` | `GracefulStop` |
| `RefinesDelivery` | `ImplementsDelivery` |
| `EachRecordCountedOnce` | `SessionAccounting` |
| `AttemptsCounted` | `RetryCountHonest` |
| `ReportsFaithful`, `NoneGivenUpEarly` | `ReportFidelity`, `OnlyHopelessRouted` |
| `CleanExitLosesNothing` | `CleanExitKeepsReports` |
| `ConsumerUsesRetryPolicy` | none: the consumer's steps are those of `RetryPolicy` |
| `SleepsOnlyBetweenAttempts`, `BackoffsGrow`, `SleepsStayBounded` | `SleepsBetweenAttempts`, `BackoffGrows`, `SleepsBounded` |
| `TimingImplementsRetry` | none: `RetryTiming` implements `RetryPolicy` |
| `AggregatorTypes`, `IncrementalMeans`, `ExtremesHold`, `RowsSum` | `AggregatorTypeOK`, `MeansAreBatchMeans`, `ExtremesAreKept`, `RowsAddUp` |
| `SummaryPrintsElsewhere` | none: `InterruptedSummaryPrints` but for the one row that breaks it |
| `GroupTypes`, `GroupAtLeastOnce`, `GroupInStep`, `OwnersInStep` | `TypeOK`, `NoRecordSkipped`, `HandledInStep`, `OwnerInStep` of the group |
| `GroupCommitsMonotone`, `GroupRefinesDelivery` | `CommittedMonotone`, `ImplementsDelivery` of the group |
| `IntakeTypes`, `SuccessMeansTopics`, `CreateIsIdempotent` | `TypeOK`, `AdminSuccessMeansTopics`, `AdminIdempotent` |
| `ExitZeroTells`, `DoneLineTells`, `OrderPerKey`, `RatesAreHonoured` | `ExitZeroAccounts`, `DoneLineHonest`, `SameKeyInOrder`, `RatesHonoured` |
| `NoneUnknown` | `NoneUnknownAfterCreate` |
| `ReaderTypes`, `ReaderShowsInOrder`, `ReaderTotalHonest` | `TypeOK`, `ShownInOrder`, `TotalHonest` |
| `ReaderFullUnlessLate`, `ReaderWaitsItsTime` | `FullUnlessLate`, `GivesUpAfterSilence` |

Only model-checked: `DeliversEverything` (of the consumer and of the group),
`ProducerEnds` and `ReaderEnds`. They are liveness under fairness, which is out of the
prover's reach; the safety part of the first, `InOrderDelivery` without its fairness,
is `RefinesDelivery` and `GroupRefinesDelivery`. Every invariant and every
action property of a passing run is a theorem. That the arithmetic of the program is in floats is outside the
model, so the theorems on means and delays say nothing about rounding.

## 5. Plan

The plan the modules were written by is carried out. One item was dropped:
`OrderConsumer` as a refinement of one member of `ConsumerGroup`. A start of the
consumer would have to be a start and a rebalance at once, a restart would need a
generation the program does not have, and what `ConsumerGroup` leaves out of a record's
handling is what `OrderConsumer` is about. The two meet in `InOrderDelivery`, which both
are proved to implement.

What could be added: a tighter bound than `HandledInStep` on how often one record is
handled in a history of rebalances, and the settings other than the topic names.

## 6. Not modelled

Logging, and the layout of the summary and of a printed report; the throttle of the
producer, and the prices it draws; the settings other than the topic names, which are
resolved alike and only passed on; the Schema Registry protocol, which belongs to the
client library; the compose file and the demo script, which start these programs.
`execute()` reports one attempt for a permanent error that follows a transient one;
the consumer's unit of work never raises them in that order (`RetryCountHonest`), so
no run shows it. The broker is as reliable as its acknowledgements:
what it has acknowledged is not lost. The interim summary every N messages has
no effect on any other state.
