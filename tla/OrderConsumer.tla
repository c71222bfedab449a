---------------------------- MODULE OrderConsumer ----------------------------
(***************************************************************************)
(* The consumer process (main() of consumer/consumer.py) with the broker   *)
(* state it shares with the rest of the system: it polls the orders topic, *)
(* runs process() under the retry policy, routes what fails to the dead    *)
(* letter queue, and commits.  It is the only member of its group.         *)
(*                                                                         *)
(* The process can be killed between any two steps and is started again    *)
(* from the committed offsets.  The DLQ producer is asynchronous: publish  *)
(* leaves a report in the client's buffer (outbox) and the client's own    *)
(* thread gets it to the broker, or gives up on it, at any later time.     *)
(* The report keeps its place in the buffer until its delivery callback    *)
(* has been served, which happens in the poll(0) of a publish and in the   *)
(* flush.                                                                  *)
(*                                                                         *)
(* Offsets count from 0: the record of partition p at offset o is          *)
(* topic[p][o + 1], and <<p, o>> is its origin.                            *)
(***************************************************************************)
EXTENDS FiniteSets, Sequences, OrderProcessing, RetryPolicy

CONSTANTS
  Partitions,
  Topics,        \* the contents of the orders topic to consider
  OutboxLimit,   \* how many reports the DLQ producer's buffer holds
  MaxFaults,     \* bound on crashes, signals and broker errors in a behaviour
  NoMessage

ASSUME ConsumerAssumption ==
  /\ Topics \subseteq [Partitions -> Seq(RecordValue)]
  /\ OutboxLimit \in Nat \ {0}
  /\ MaxFaults \in Nat

VARIABLES
  \* the broker
  topic,        \* the orders topic
  committed,    \* per partition, the group's committed offset
  dlqTopic,     \* the reports in the orders.DLQ topic
  \* the consumer process
  phase,        \* where main() is
  running,      \* cleared by the SIGINT handler
  position,     \* per partition, the offset the next poll delivers
  current,      \* origin of the message in hand
  seen,         \* FailureSimulator._attempts
  aggregated,   \* origins of the orders the aggregator holds
  count,        \* aggregator.count
  processed, failed, published,   \* the counters of the final log line
  outbox,       \* reports in the DLQ producer's buffer
  answered,     \* those of them that wait only for their delivery callback
  exit,         \* why the process left the loop
  outstanding,  \* what dlq.flush returned
  \* history
  resumed,      \* per partition, where this process started
  routed,       \* origins this process handed to dlq.publish
  rejected,     \* origins of the reports the client gave up on, in this process
  handled,      \* origins handled at least once, by any process
  faults        \* faults so far

brokerVars  == <<topic, committed, dlqTopic>>
loopVars    == <<phase, running, position, current, exit, outstanding>>
workVars    == <<seen, aggregated, count>>
counterVars == <<processed, failed, published>>
dlqVars     == <<outbox, answered, routed, rejected>>
vars == <<brokerVars, loopVars, retryVars, workVars, counterVars, dlqVars,
          resumed, handled, faults>>

-----------------------------------------------------------------------------
RecordAt(origin) == topic[origin[1]][origin[2] + 1]

\* A DLQ record: the origin headers, x-error-class and x-retry-count.  The
\* payload is the order itself, found again through the origin.
Report ==
  [origin : Partitions \X Nat, error : Exceptions \cup {"NoError"}, retryCount : Int]

\* Mutant of ReportOf: the offset header is that of the record to poll next.
ReportOfNextOffset(origin) ==
  [origin |-> <<origin[1], position[origin[1]]>>,
   error |-> outcome.error, retryCount |-> outcome.attempts]

\* Mutant of ReportOf: the classification in place of the exception class.
ReportOfClassification(origin) ==
  [origin |-> origin, error |-> outcome.classification, retryCount |-> outcome.attempts]

\* build_headers for the message in hand.
ReportOf(origin) ==
  [origin |-> origin, error |-> outcome.error, retryCount |-> outcome.attempts]

Origins(reports) == {r.origin : r \in reports}

InLoop == phase \in {"poll", "work", "commit"}

\* Leaving the try block of main() for its finally clause.
LeaveTry(reason) ==
  /\ phase' = "flush"
  /\ exit' = reason

\* A step of the environment that the bound on faults counts.
Fault ==
  /\ faults < MaxFaults
  /\ faults' = faults + 1

-----------------------------------------------------------------------------
Init ==
  /\ topic \in Topics
  /\ committed = [p \in Partitions |-> 0]
  /\ dlqTopic = {}
  /\ phase = "down"
  /\ RetryInit
  /\ running = TRUE
  /\ seen = [id \in OrderIds |-> 0]
  /\ aggregated = {} /\ count = 0
  /\ processed = 0 /\ failed = 0 /\ published = 0
  /\ outbox = {} /\ answered = {} /\ routed = {} /\ rejected = {}
  /\ current = NoMessage
  /\ exit = "none" /\ outstanding = 0
  /\ position = committed /\ resumed = committed
  /\ handled = {}
  /\ faults = 0

\* What main() sets up before its loop; nothing of a previous process is left.
FreshMemory ==
  /\ RetryReset
  /\ running' = TRUE
  /\ seen' = [id \in OrderIds |-> 0]
  /\ aggregated' = {} /\ count' = 0
  /\ processed' = 0 /\ failed' = 0 /\ published' = 0
  /\ outbox' = {} /\ answered' = {} /\ routed' = {} /\ rejected' = {}
  /\ current' = NoMessage
  /\ exit' = "none" /\ outstanding' = 0

\* Mutant of Start: the new process ignores the committed offsets.
StartAtEarliest ==
  /\ phase = "down"
  /\ FreshMemory
  /\ position' = [p \in Partitions |-> 0]
  /\ resumed' = [p \in Partitions |-> 0]
  /\ phase' = "poll"
  /\ UNCHANGED <<brokerVars, handled, faults>>

\* The process is started (again), subscribes and resumes where the group is.
Start ==
  /\ phase = "down"
  /\ FreshMemory
  /\ position' = committed
  /\ resumed' = committed
  /\ phase' = "poll"
  /\ UNCHANGED <<brokerVars, handled, faults>>

-----------------------------------------------------------------------------
\* poll() takes the next record of a partition; the client's position moves
\* past it, whatever becomes of it.
Fetch(p) ==
  /\ phase = "poll" /\ running
  /\ position[p] < Len(topic[p])
  /\ position' = [position EXCEPT ![p] = @ + 1]

NextOrigin(p) == <<p, position[p]>>

\* poll() returns None, or the end-of-partition event: go round the loop.
PollIdle ==
  /\ phase = "poll" /\ running
  /\ UNCHANGED vars

\* A decoded order: the retry policy is entered with process().
PollOrder(p) ==
  /\ Fetch(p)
  /\ RecordAt(NextOrigin(p)) \in Order
  /\ current' = NextOrigin(p)
  /\ phase' = "work"
  /\ Execute
  /\ UNCHANGED <<brokerVars, running, exit, outstanding, workVars, counterVars,
                 dlqVars, resumed, handled, faults>>

\* Mutant of PollTombstone: continue without the commit.
PollTombstoneNoCommit(p) ==
  /\ Fetch(p)
  /\ RecordAt(NextOrigin(p)) = Tombstone
  /\ current' = NextOrigin(p)
  /\ handled' = handled \cup {NextOrigin(p)}
  /\ UNCHANGED <<brokerVars, phase, running, exit, outstanding, retryVars, workVars,
                 counterVars, dlqVars, resumed, faults>>

\* A null value is skipped, and its offset committed.
PollTombstone(p) ==
  /\ Fetch(p)
  /\ RecordAt(NextOrigin(p)) = Tombstone
  /\ current' = NextOrigin(p)
  /\ handled' = handled \cup {NextOrigin(p)}
  /\ phase' = "commit"
  /\ UNCHANGED <<brokerVars, running, exit, outstanding, retryVars, workVars,
                 counterVars, dlqVars, resumed, faults>>

\* The deserializer runs inside poll(), outside the retry policy: what it
\* raises is a KafkaException and ends the process.
PollUndecodable(p) ==
  /\ Fetch(p)
  /\ RecordAt(NextOrigin(p)) = Undecodable
  /\ LeaveTry("kafka_error")
  /\ UNCHANGED <<brokerVars, running, current, outstanding, retryVars, workVars,
                 counterVars, dlqVars, resumed, handled, faults>>

\* poll() reports a broker error.
PollFails ==
  /\ phase = "poll" /\ running
  /\ LeaveTry("kafka_error")
  /\ Fault
  /\ UNCHANGED <<brokerVars, running, position, current, outstanding, retryVars,
                 workVars, counterVars, dlqVars, resumed, handled>>

-----------------------------------------------------------------------------
\* What process() does to the order in hand on this attempt.
Result == process(RecordAt(current), seen)

\* process() gets to its last line and the aggregator takes the order.
AttemptSucceeds ==
  /\ phase = "work"
  /\ Result = "ok"
  /\ CallReturns
  /\ seen' = SeenAfter(RecordAt(current), seen)
  /\ aggregated' = aggregated \cup {current}
  /\ count' = count + 1
  /\ handled' = handled \cup {current}
  /\ UNCHANGED <<brokerVars, loopVars, counterVars, dlqVars, resumed, faults>>

\* Mutant of AttemptRaises: the aggregator is updated before the side effect.
AttemptRaisesAfterAdd ==
  /\ phase = "work"
  /\ Result # "ok"
  /\ CallRaises(Result)
  /\ seen' = SeenAfter(RecordAt(current), seen)
  /\ aggregated' = aggregated \cup {current}
  /\ count' = count + 1
  /\ UNCHANGED <<brokerVars, loopVars, counterVars, dlqVars, resumed, handled, faults>>

\* process() raises before it reaches the aggregator.
AttemptRaises ==
  /\ phase = "work"
  /\ Result # "ok"
  /\ CallRaises(Result)
  /\ seen' = SeenAfter(RecordAt(current), seen)
  /\ UNCHANGED <<brokerVars, loopVars, aggregated, count, counterVars, dlqVars,
                 resumed, handled, faults>>

\* The backoff sleep is over.
BackoffEnds ==
  /\ phase = "work"
  /\ SleepEnds
  /\ UNCHANGED <<brokerVars, loopVars, workVars, counterVars, dlqVars, resumed,
                 handled, faults>>

Decided(success) ==
  /\ phase = "work"
  /\ retryState = "done"
  /\ outcome.succeeded = success

\* The succeeded branch after execute().
CountProcessed ==
  /\ Decided(TRUE)
  /\ processed' = processed + 1
  /\ phase' = "commit"
  /\ UNCHANGED <<brokerVars, running, position, current, exit, outstanding, retryVars,
                 workVars, failed, published, dlqVars, resumed, handled, faults>>

\* Mutant of RouteToDlq: continue without the commit, as for a record to retry.
RouteToDlqNoCommit ==
  /\ Decided(FALSE)
  /\ Cardinality(outbox) < OutboxLimit
  /\ failed' = failed + 1
  /\ published' = published + 1
  /\ outbox' = (outbox \ answered) \cup {ReportOf(current)}
  /\ answered' = {}
  /\ routed' = routed \cup {current}
  /\ handled' = handled \cup {current}
  /\ phase' = "poll"
  /\ UNCHANGED <<brokerVars, running, position, current, exit, outstanding, retryVars,
                 workVars, processed, rejected, resumed, faults>>

\* The failed branch: publish enqueues the report, serves the callbacks that wait,
\* and returns.
RouteToDlq ==
  /\ Decided(FALSE)
  /\ Cardinality(outbox) < OutboxLimit
  /\ failed' = failed + 1
  /\ published' = published + 1
  /\ outbox' = (outbox \ answered) \cup {ReportOf(current)}
  /\ answered' = {}
  /\ routed' = routed \cup {current}
  /\ handled' = handled \cup {current}
  /\ phase' = "commit"
  /\ UNCHANGED <<brokerVars, running, position, current, exit, outstanding, retryVars,
                 workVars, processed, rejected, resumed, faults>>

\* Mutant of RouteToDlqRaises: the failing publish is logged and the loop goes on.
RouteToDlqSwallows ==
  /\ Decided(FALSE)
  /\ Cardinality(outbox) >= OutboxLimit
  /\ failed' = failed + 1
  /\ phase' = "commit"
  /\ UNCHANGED <<brokerVars, running, position, current, exit, outstanding, retryVars,
                 workVars, processed, published, dlqVars, resumed, handled, faults>>

\* The buffer is full: produce() raises BufferError, which main() does not catch.
RouteToDlqRaises ==
  /\ Decided(FALSE)
  /\ Cardinality(outbox) >= OutboxLimit
  /\ failed' = failed + 1
  /\ LeaveTry("exception")
  /\ UNCHANGED <<brokerVars, running, position, current, outstanding, retryVars,
                 workVars, processed, published, dlqVars, resumed, handled, faults>>

-----------------------------------------------------------------------------
\* commit() without arguments commits the position of every assigned partition.
Commit ==
  /\ phase = "commit"
  /\ committed' = position
  /\ phase' = "poll"
  /\ UNCHANGED <<topic, dlqTopic, running, position, current, exit, outstanding,
                 retryVars, workVars, counterVars, dlqVars, resumed, handled, faults>>

\* The synchronous commit raises.  The broker may have applied it all the same,
\* when it was the answer that got lost.
CommitFails ==
  /\ phase = "commit"
  /\ committed' \in {committed, position}
  /\ LeaveTry("kafka_error")
  /\ Fault
  /\ UNCHANGED <<topic, dlqTopic, running, position, current, outstanding, retryVars,
                 workVars, counterVars, dlqVars, resumed, handled>>

-----------------------------------------------------------------------------
\* Mutant of Signal: the handler raises out of the loop.
SignalRaises ==
  /\ InLoop /\ running
  /\ running' = FALSE
  /\ LeaveTry("signal")
  /\ Fault
  /\ UNCHANGED <<brokerVars, position, current, outstanding, retryVars, workVars,
                 counterVars, dlqVars, resumed, handled>>

\* SIGINT: the handler clears the flag, whatever main() is doing.
Signal ==
  /\ InLoop /\ running
  /\ running' = FALSE
  /\ Fault
  /\ UNCHANGED <<brokerVars, phase, position, current, exit, outstanding, retryVars,
                 workVars, counterVars, dlqVars, resumed, handled>>

\* The while condition is false.
LeaveLoop ==
  /\ phase = "poll" /\ ~running
  /\ LeaveTry("signal")
  /\ UNCHANGED <<brokerVars, running, position, current, outstanding, retryVars,
                 workVars, counterVars, dlqVars, resumed, handled, faults>>

\* KeyboardInterrupt, which Windows raises in spite of the handler, anywhere in
\* the try block.
Interrupt ==
  /\ InLoop
  /\ LeaveTry("interrupt")
  /\ Fault
  /\ UNCHANGED <<brokerVars, running, position, current, outstanding, retryVars,
                 workVars, counterVars, dlqVars, resumed, handled>>

\* The same between `failed += 1` and the produce() of the report.
InterruptBeforeProduce ==
  /\ Decided(FALSE)
  /\ failed' = failed + 1
  /\ LeaveTry("interrupt")
  /\ Fault
  /\ UNCHANGED <<brokerVars, running, position, current, outstanding, retryVars,
                 workVars, processed, published, dlqVars, resumed, handled>>

\* The same between produce() and `published += 1`.  The callbacks that wait are
\* served before it or by the flush that is next, which comes to the same.
InterruptAfterProduce ==
  /\ Decided(FALSE)
  /\ Cardinality(outbox) < OutboxLimit
  /\ failed' = failed + 1
  /\ outbox' = (outbox \ answered) \cup {ReportOf(current)}
  /\ answered' = {}
  /\ routed' = routed \cup {current}
  /\ handled' = handled \cup {current}
  /\ LeaveTry("interrupt")
  /\ Fault
  /\ UNCHANGED <<brokerVars, running, position, current, outstanding, retryVars,
                 workVars, processed, published, rejected, resumed>>

\* Mutant of FlushCompletes: poll(0) in place of flush().
FlushDoesNotWait ==
  /\ phase = "flush"
  /\ phase' = "close"
  /\ UNCHANGED <<brokerVars, running, position, current, exit, outstanding, retryVars,
                 workVars, counterVars, dlqVars, resumed, handled, faults>>

\* dlq.flush: every report was answered in time, and its callback served.
FlushCompletes ==
  /\ phase = "flush" /\ outbox = answered
  /\ outbox' = {} /\ answered' = {}
  /\ outstanding' = 0
  /\ phase' = "close"
  /\ UNCHANGED <<brokerVars, running, position, current, exit, retryVars, workVars,
                 counterVars, routed, rejected, resumed, handled, faults>>

\* dlq.flush: the ten seconds passed first.  This is logged, nothing more.
FlushTimesOut ==
  /\ phase = "flush" /\ outbox # answered
  /\ outbox' = outbox \ answered /\ answered' = {}
  /\ outstanding' = Cardinality(outbox \ answered)
  /\ phase' = "close"
  /\ Fault
  /\ UNCHANGED <<brokerVars, running, position, current, exit, retryVars, workVars,
                 counterVars, routed, rejected, resumed, handled>>

\* consumer.close() and the end of main().  The DLQ producer goes with the
\* process and so does what it still holds.
Close ==
  /\ phase = "close"
  /\ phase' = "down"
  /\ outbox' = {} /\ answered' = {}
  /\ UNCHANGED <<brokerVars, running, position, current, exit, outstanding, retryVars,
                 workVars, counterVars, routed, rejected, resumed, handled, faults>>

\* The process is killed.  Its other variables stay as they are, to be looked
\* at, until Start clears them.
Crash ==
  /\ phase # "down"
  /\ phase' = "down"
  /\ exit' = "crash"
  /\ outbox' = {} /\ answered' = {}
  /\ Fault
  /\ UNCHANGED <<brokerVars, running, position, current, outstanding, retryVars,
                 workVars, counterVars, routed, rejected, resumed, handled>>

-----------------------------------------------------------------------------
InFlight == outbox \ answered

\* The client's thread gets a report to the broker.
DlqDelivered(r) ==
  /\ r \in InFlight
  /\ answered' = answered \cup {r}
  /\ dlqTopic' = dlqTopic \cup {r}
  /\ UNCHANGED <<topic, committed, loopVars, retryVars, workVars, counterVars, outbox,
                 routed, rejected, resumed, handled, faults>>

\* The client gives up on a report; the callback will log the error.
DlqRejected(r) ==
  /\ r \in InFlight
  /\ answered' = answered \cup {r}
  /\ rejected' = rejected \cup {r.origin}
  /\ Fault
  /\ UNCHANGED <<brokerVars, loopVars, retryVars, workVars, counterVars, outbox,
                 routed, resumed, handled>>

-----------------------------------------------------------------------------
\* The steps of the process itself.
PollRecord == \E p \in Partitions : PollOrder(p) \/ PollTombstone(p) \/ PollUndecodable(p)

Work ==
  \/ AttemptSucceeds \/ AttemptRaises \/ BackoffEnds
  \/ CountProcessed \/ RouteToDlq \/ RouteToDlqRaises

Shutdown == LeaveLoop \/ FlushCompletes \/ Close

Faults ==
  \/ PollFails \/ CommitFails \/ Signal
  \/ Interrupt \/ InterruptBeforeProduce \/ InterruptAfterProduce
  \/ FlushTimesOut \/ Crash
  \/ \E r \in InFlight : DlqRejected(r)

Next ==
  \/ Start
  \/ PollIdle
  \/ PollRecord
  \/ Work
  \/ Commit
  \/ Shutdown
  \/ \E r \in InFlight : DlqDelivered(r)
  \/ Faults

Spec == Init /\ [][Next]_vars

\* poll returns the records there are, the calls the loop makes return, the DLQ
\* producer delivers what it can, and somebody starts the process again after
\* it ended.  No fairness for faults, and none for an idle poll.
Fairness ==
  /\ WF_vars(Start)
  /\ WF_vars(PollRecord)
  /\ WF_vars(Work)
  /\ WF_vars(Commit)
  /\ WF_vars(Shutdown)
  /\ WF_vars(\E r \in InFlight : DlqDelivered(r))

FairSpec == Spec /\ Fairness
-----------------------------------------------------------------------------
Record == Partitions \X Nat

\* Type correctness.
TypeOK ==
  /\ topic \in Topics
  /\ committed \in [Partitions -> Nat]
  /\ dlqTopic \in SUBSET Report
  /\ phase \in {"down", "poll", "work", "commit", "flush", "close"}
  /\ running \in BOOLEAN
  /\ position \in [Partitions -> Nat]
  /\ resumed \in [Partitions -> Nat]
  /\ current \in Record \cup {NoMessage}
  /\ RetryTypeOK
  /\ seen \in [OrderIds -> Nat]
  /\ aggregated \in SUBSET Record /\ handled \in SUBSET Record
  /\ routed \in SUBSET Record /\ rejected \in SUBSET Record
  /\ count \in Nat /\ processed \in Nat /\ failed \in Nat /\ published \in Nat
  /\ outstanding \in Nat /\ faults \in Nat
  /\ outbox \in SUBSET Report /\ IsFiniteSet(outbox) /\ answered \subseteq outbox
  /\ exit \in {"none", "signal", "interrupt", "kafka_error", "exception", "crash"}

\* At least once: every record below the committed offset of its partition was
\* handled by some process, whatever was killed, failed or raised in between
\* (consumer.py:66-71 and 219-223).
NoRecordSkipped ==
  \A p \in Partitions : \A o \in 0 .. committed[p] - 1 : <<p, o>> \in handled

\* A crash redelivers at most one record: the offset the client has read up to
\* is ahead of the committed one in at most one partition, by at most one
\* (consumer.py:142-146 and 229, the commits at the end of each iteration).
RedeliveryWindow ==
  /\ \A p \in Partitions : position[p] - committed[p] \in {0, 1}
  /\ \A p, q \in Partitions :
       position[p] # committed[p] /\ position[q] # committed[q] => p = q

\* Each process counts each record once, retries or not, and at no point, the final
\* log line and the summary after the loop included, do its numbers say more than
\* that (consumer.py:159-166, 171, 183, 262 and 263, dlq.py:161).  A record it read
\* is a tombstone, in the aggregate or dead-lettered, in one of them only, unless
\* its offset is still open: then the record is read again by the next process.
\* The counters agree with this, except for the message in hand, and only if that
\* is open, which it is not after a stop by signal:
\*   - it can be aggregated and not counted as processed, while execute() returns
\*     or when an interrupt comes before `processed += 1`;
\*   - it can be counted as failed without having been routed, when publish()
\*     raises because the buffer is full or is interrupted before its produce();
\*   - it can be routed without having been counted as published, when publish()
\*     is interrupted after its produce().
SessionAccounting ==
  LET read    == UNION {{p} \X (resumed[p] .. position[p] - 1) : p \in Partitions}
      settled == {r \in read : RecordAt(r) = Tombstone} \cup aggregated \cup routed
      open    == {r \in read : r[2] >= committed[r[1]]}
  IN  /\ aggregated \cap routed = {}
      /\ settled \subseteq read
      /\ read \ settled \subseteq open
      /\ count = Cardinality(aggregated)
      /\ \/ processed = count
         \/ processed = count - 1 /\ current \in open \cap aggregated
      /\ \/ failed = Cardinality(routed) /\ published = failed
         \/ /\ failed = Cardinality(routed) + 1 /\ published = failed - 1
            /\ current \in open \ settled
         \/ /\ failed = Cardinality(routed) /\ published = failed - 1
            /\ current \in open \cap routed

\* What outcome.attempts says is the number of times process() ran, but for a
\* negative budget, with which it never runs and the budget itself is reported.
\* The policy alone does not promise this, since it reports one attempt for every
\* permanent error: it holds here because no order fails first for a transient and
\* then for a permanent reason (retry.py:113 and 139-146 with failures.py:58-73).
RetryCountHonest ==
  phase = "work" /\ retryState = "done" =>
    \/ outcome.attempts = Len(results)
    \/ MaxAttempts < 0 /\ results = <<>> /\ outcome.attempts = MaxAttempts

\* An order no retry within the budget can help.
Hopeless(order) ==
  \/ ~validate(order)
  \/ order.product = POISON_PRODUCT
  \/ order.product = FLAKY_PRODUCT /\ FlakyAttempts >= MaxAttempts
  \/ MaxAttempts < 1

\* Only hopeless orders are dead-lettered: a FLAKY order that recovers within the
\* budget never is, after whatever crashes and redeliveries and with whatever
\* other orders carry its id (failures.py:65-73).
OnlyHopelessRouted == \A r \in routed \cup Origins(dlqTopic) : Hopeless(RecordAt(r))

\* The error and the number of attempts that an order is dead-lettered with.
Explains(order, error, attempts) ==
  \/ MaxAttempts < 1 /\ error = "NoError" /\ attempts = MaxAttempts
  \/ /\ MaxAttempts >= 1 /\ ~validate(order)
     /\ error = "ValidationError" /\ attempts = 1
  \/ /\ MaxAttempts >= 1 /\ validate(order) /\ order.product = POISON_PRODUCT
     /\ error = "PermanentError" /\ attempts = 1
  \/ /\ MaxAttempts >= 1 /\ CountsAttempt(order)
     /\ error = "TransientError" /\ attempts = MaxAttempts

\* A report in the DLQ, or on its way, points at the record that failed and not
\* at another one, and its headers tell why and after how many attempts
\* (dlq.py:66-80, consumer.py:190-198).
ReportFidelity ==
  \A r \in outbox \cup dlqTopic :
    r.origin \in handled /\ Explains(RecordAt(r.origin), r.error, r.retryCount)

\* After Ctrl+C nothing is left uncommitted: the message in hand was finished
\* first and will not be read again (consumer.py:108-118, README.md:121-122).
GracefulStop == exit = "signal" => position = committed

\* A process that came to its end without the flush reporting outstanding
\* messages leaves every report in the DLQ topic, except those whose delivery
\* callback logged an error (consumer.py:258-260, dlq.py:120-127).
CleanExitKeepsReports ==
  phase = "down" /\ exit \notin {"none", "crash"} /\ outstanding = 0
    => routed \ rejected \subseteq Origins(dlqTopic)

\* The committed offset of a partition never moves backwards, nor over more than
\* one record, not even across restarts.
CommittedMonotone ==
  [][\A p \in Partitions : committed'[p] - committed[p] \in {0, 1}]_committed

\* The consumer implements in-order, at-least-once handling: a restart, a retry
\* or a shutdown is at most one more handling of the record at the committed
\* offset.
Delivery == INSTANCE InOrderDelivery WITH acked <- committed

ImplementsDelivery == Delivery!DeliverySpec

\* And no record blocks those behind it: with every record decodable, each one is
\* handled and committed in the end (consumer.py:205-211).
DeliversEverything == Delivery!DeliveryFairSpec

-----------------------------------------------------------------------------
\* What the repository says and the code does not do; the runs of these
\* properties find the counterexample.

\* consumer.py:213-216: a record whose offset is committed after routing "is not
\* discarded -- it has been durably written to orders.DLQ".  When the process is
\* over, what it routed and committed is in the DLQ topic.
RoutedIsDurable ==
  phase = "down" =>
    \A r \in routed : r[2] < committed[r[1]] => r \in Origins(dlqTopic)

\* README.md:205: a deserialization failure goes straight to the DLQ.
DecodeFailuresReachDlq ==
  <>(\A p \in Partitions : \A o \in 0 .. Len(topic[p]) - 1 :
       RecordAt(<<p, o>>) = Undecodable => <<p, o>> \in Origins(dlqTopic))

\* consumer.py:50-51: no price that is not > 0 gets past validate.
AggregatedPricesPositive == \A r \in aggregated : RecordAt(r).price = "positive"
=============================================================================
