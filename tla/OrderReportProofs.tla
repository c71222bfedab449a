-------------------------- MODULE OrderReportProofs --------------------------
(***************************************************************************)
(* Proofs about what the consumer reports: the number of attempts, what is *)
(* dead-lettered and with which headers, what a clean exit leaves in the   *)
(* DLQ topic, and that each process counts each record once.               *)
(*                                                                         *)
(* Verdict follows one order through the retry policy: only an order that  *)
(* counts attempts (FLAKY and valid) is tried twice, and the simulator's   *)
(* counter is never behind the policy's loop variable.                     *)
(*                                                                         *)
(* Accounts adds to SessionAccounting (here Ledger) what makes it          *)
(* inductive: where the process resumed is not ahead of the committed      *)
(* offsets, so the message in hand is among the records it read; and while *)
(* the loop runs, the books are exact but for the message in hand, which   *)
(* is aggregated exactly when the retry policy has reported success.  The  *)
(* steps that leave the loop take one open entry along, and after the loop *)
(* nothing is written any more.                                            *)
(***************************************************************************)
EXTENDS OrderConsumerProofs

\* What the result of process() says of the order.
LEMMA ProcessMeans ==
  ASSUME NEW order, NEW attempts
  PROVE  LET result == process(order, attempts) IN
         \/ result = "ok"
         \/ result = "ValidationError" /\ ~validate(order)
         \/ /\ result = "PermanentError" /\ validate(order)
            /\ order.product = POISON_PRODUCT
         \/ /\ result = "TransientError" /\ CountsAttempt(order)
            /\ attempts[order.orderId] + 1 <= FlakyAttempts
<1>1. CASE ~validate(order)
  BY <1>1 DEF process
<1>2. CASE validate(order) /\ order.product = POISON_PRODUCT
  BY <1>2 DEF process, CountsAttempt, POISON_PRODUCT, FLAKY_PRODUCT
<1>3. CASE validate(order) /\ order.product # POISON_PRODUCT
  BY <1>3 DEF process
<1>. QED  BY <1>1, <1>2, <1>3

\* An order that counts attempts has a counter, and an attempt advances it.
LEMMA AttemptCounted ==
  ASSUME NEW order \in Order, CountsAttempt(order), NEW attempts \in [OrderIds -> Nat]
  PROVE  /\ order.orderId \in OrderIds
         /\ SeenAfter(order, attempts)[order.orderId] = attempts[order.orderId] + 1
<1>1. order.orderId \in OrderIds
  BY DEF CountsAttempt, validate, Order
<1>2. SeenAfter(order, attempts) = [attempts EXCEPT ![order.orderId] = @ + 1]
  BY DEF SeenAfter
<1>. QED  BY <1>1, <1>2

-----------------------------------------------------------------------------
Verdict ==
  LET order == RecordAt(current) IN
  phase = "work" =>
    /\ retryState \in {"call", "sleep", "done"}
    /\ retryState = "call" => attempt = 1 \/ CountsAttempt(order)
    /\ retryState = "call" /\ CountsAttempt(order) => seen[order.orderId] >= attempt - 1
    /\ retryState = "sleep" => CountsAttempt(order) /\ seen[order.orderId] >= attempt
    /\ retryState = "done" =>
         \/ outcome.attempts = Len(results)
         \/ MaxAttempts < 0 /\ results = <<>> /\ outcome.attempts = MaxAttempts
    /\ retryState = "done" /\ ~outcome.succeeded =>
         Hopeless(order) /\ Explains(order, outcome.error, outcome.attempts)

\* Nobody rewrites the topic.
LEMMA TopicFixed == [Next]_vars => UNCHANGED topic
BY StepKinds DEF Start, PollOrder, PollTombstone, PollUndecodable, AttemptSucceeds,
   AttemptRaises, BackoffEnds, CountProcessed, RouteToDlq, Commit, CommitFails, PublishFails,
   RouteToDlqRaises, InterruptBeforeProduce, InterruptAfterProduce, Outside, Aside, brokerVars

LEMMA VerdictOnEntry ==
  ASSUME Execute, phase' = "work", NEW order, order = RecordAt(current)',
         NEW id, id = order.orderId, CountsAttempt(order) => seen'[id] >= 0
  PROVE  Verdict'
<1>1. /\ attempt' = 1 /\ results' = <<>> /\ outcome' = Failure("NoError")
      /\ retryState' = IF MaxAttempts >= 1 THEN "call" ELSE "done"
  BY DEF Execute
<1>2. Failure("NoError") = [succeeded |-> FALSE, attempts |-> MaxAttempts,
                            error |-> "NoError", classification |-> "None"]
  BY DEF Failure, classify, TransientErrors, PermanentErrors
<1>3. CASE MaxAttempts >= 1
  BY <1>1, <1>3 DEF Verdict
<1>4. CASE ~(MaxAttempts >= 1)
  <2>1. retryState' = "done" /\ outcome'.attempts = MaxAttempts /\ outcome'.error = "NoError"
    BY <1>1, <1>2, <1>4
  <2>2. MaxAttempts < 1 /\ (MaxAttempts < 0 \/ MaxAttempts = 0)
    BY <1>4, MaxAttemptsAssumption
  <2>3. Hopeless(order) /\ Explains(order, outcome'.error, outcome'.attempts)
    BY <2>1, <2>2 DEF Hopeless, Explains
  <2>. QED  BY <1>1, <2>1, <2>2, <2>3 DEF Verdict
<1>. QED  BY <1>3, <1>4

\* The failure outcome of each kind of exception.
LEMMA FailureOf ==
  /\ \A exc \in {"PermanentError", "ValidationError"} :
       Failure(exc).attempts = 1 /\ Failure(exc).error = exc /\ ~Failure(exc).succeeded
  /\ /\ Failure("TransientError").attempts = MaxAttempts
     /\ Failure("TransientError").error = "TransientError"
     /\ ~Failure("TransientError").succeeded
BY DEF Failure, classify, TransientErrors, PermanentErrors

LEMMA VerdictOnRaise ==
  ASSUME Inv, Verdict, AttemptRaises
  PROVE  Verdict'
<1> DEFINE order == RecordAt(current)
<1>0. /\ phase = "work" /\ phase' = "work" /\ retryState = "call" /\ UNCHANGED attempt
      /\ order \in Order /\ RecordAt(current)' = order
      /\ seen \in [OrderIds -> Nat] /\ seen' = SeenAfter(order, seen)
      /\ attempt \in Nat \ {0} /\ attempt <= MaxAttempts
      /\ results \in Seq(Exceptions \cup {"ok"})
      /\ Len(results') = attempt /\ CallRaises(Result)
  <2>1. Result \in Exceptions
    BY ProcessResults DEF AttemptRaises, Result
  <2>. QED
    BY <2>1 DEF AttemptRaises, CallRaises, Inv, RetryInv, RetryTypeOK, LoopCounter, TypeOK, Loop,
       InHand, RecordAt, brokerVars, loopVars
<1>1. \/ Result = "ValidationError" /\ ~validate(order)
      \/ Result = "PermanentError" /\ validate(order) /\ order.product = POISON_PRODUCT
      \/ /\ Result = "TransientError" /\ CountsAttempt(order)
         /\ seen[order.orderId] + 1 <= FlakyAttempts
  BY ProcessMeans DEF AttemptRaises, Result
<1>2. CASE Result # "TransientError"
  <2>1. ~CountsAttempt(order)
    BY <1>1, <1>2 DEF CountsAttempt, POISON_PRODUCT, FLAKY_PRODUCT
  <2>2. attempt = 1
    BY <2>1, <1>0 DEF Verdict
  <2>3. GivesUp(Result)
    BY <1>1, <1>2 DEF GivesUp, classify, TransientErrors, PermanentErrors
  <2>4. retryState' = "done" /\ outcome' = Failure(Result)
    BY <1>0, <2>3 DEF CallRaises
  <2>5. outcome'.attempts = 1 /\ outcome'.error = Result
    BY <1>1, <1>2, <2>4, FailureOf
  <2>6. Hopeless(order) /\ Explains(order, outcome'.error, outcome'.attempts)
    BY <1>0, <1>1, <1>2, <2>2, <2>5 DEF Hopeless, Explains
  <2>. QED  BY <1>0, <2>2, <2>4, <2>5, <2>6 DEF Verdict
<1>3. CASE Result = "TransientError"
  <2>1. CountsAttempt(order) /\ seen[order.orderId] + 1 <= FlakyAttempts
    BY <1>1, <1>3
  <2>2. seen[order.orderId] >= attempt - 1 /\ seen[order.orderId] \in Nat
    BY <1>0, <2>1, AttemptCounted DEF Verdict
  <2>3. seen'[order.orderId] >= attempt
    BY <1>0, <2>1, <2>2, AttemptCounted
  <2>4. CASE GivesUp(Result)
    <3>0. classify(Result) = "transient"
      BY <1>3, ClassifySorts DEF Exceptions, TransientErrors
    <3>1. attempt = MaxAttempts
      BY <2>4, <3>0 DEF GivesUp
    <3>2. retryState' = "done" /\ outcome' = Failure(Result)
      BY <1>0, <2>4 DEF CallRaises
    <3>3. outcome'.attempts = MaxAttempts /\ outcome'.error = "TransientError"
      BY <1>3, <3>2, FailureOf
    <3>4. FlakyAttempts >= MaxAttempts /\ MaxAttempts >= 1
      <4>1. attempt \in Nat \ {0}
        BY <1>0
      <4>2. FlakyAttempts \in Int
        BY ProcessingAssumption
      <4>3. FlakyAttempts >= attempt
        <5>1. ASSUME NEW n \in Nat, n >= attempt - 1, n + 1 <= FlakyAttempts
              PROVE  FlakyAttempts >= attempt
          BY <5>1, <4>1, <4>2
        <5>. QED  BY <5>1, <2>1, <2>2
      <4>. QED  BY <4>1, <4>3, <3>1
    <3>5. Hopeless(order) /\ Explains(order, outcome'.error, outcome'.attempts)
      BY <2>1, <3>3, <3>4 DEF Hopeless, Explains, CountsAttempt
    <3>. QED  BY <1>0, <3>1, <3>2, <3>3, <3>5 DEF Verdict
  <2>5. CASE ~GivesUp(Result)
    <3>1. retryState' = "sleep"
      BY <1>0, <2>5 DEF CallRaises
    <3>. QED  BY <1>0, <3>1, <2>1, <2>3 DEF Verdict
  <2>. QED  BY <2>4, <2>5
<1>. QED  BY <1>2, <1>3

LEMMA VerdictStep == Inv /\ Verdict /\ [Next]_vars => Verdict'
<1>. SUFFICES ASSUME Inv, Verdict, [Next]_vars PROVE Verdict'
  OBVIOUS
<1>1. ASSUME NEW p \in Partitions, PollOrder(p) PROVE Verdict'
  <2>1. /\ Execute /\ phase' = "work" /\ seen' = seen
        /\ seen \in [OrderIds -> Nat] /\ RecordAt(current)' \in Order
    BY <1>1 DEF PollOrder, RecordAt, workVars, brokerVars, Inv, TypeOK
  <2>2. PICK order \in Order : order = RecordAt(current)'
    BY <2>1
  <2>3. CountsAttempt(order) => seen'[order.orderId] >= 0
    BY <2>1, AttemptCounted
  <2>. QED  BY <2>1, <2>2, <2>3, VerdictOnEntry
<1>2. CASE AttemptSucceeds
  <2>1. /\ retryState' = "done" /\ outcome'.succeeded
        /\ outcome'.attempts = attempt /\ Len(results') = attempt
    BY <1>2 DEF AttemptSucceeds, CallReturns, Success, Inv, RetryInv, RetryTypeOK, LoopCounter
  <2>. QED  BY <2>1 DEF Verdict
<1>3. CASE AttemptRaises
  BY <1>3, VerdictOnRaise
<1>4. CASE BackoffEnds
  <2>1. /\ phase = "work" /\ retryState = "sleep" /\ retryState' = "call"
        /\ attempt' = attempt + 1 /\ seen' = seen /\ RecordAt(current)' = RecordAt(current)
        /\ attempt \in Nat
    BY <1>4 DEF BackoffEnds, SleepEnds, brokerVars, loopVars, workVars, RecordAt, Inv, RetryInv,
                RetryTypeOK
  <2>. QED  BY <2>1 DEF Verdict
<1>5. CASE Aside
  BY <1>5 DEF Aside, retryVars, workVars, Verdict, RecordAt
<1>6. \/ Start \/ CountProcessed \/ RouteToDlq \/ Commit \/ CommitFails
      \/ PublishFails \/ InterruptAfterProduce \/ Outside
      \/ \E p \in Partitions : PollTombstone(p) \/ PollUndecodable(p)
      => phase' # "work"
  BY DEF Start, CountProcessed, RouteToDlq, Commit, CommitFails, PublishFails,
         RouteToDlqRaises, InterruptBeforeProduce, InterruptAfterProduce, Outside,
         PollTombstone, PollUndecodable, LeaveTry
<1>7. CASE phase' # "work"
  BY <1>7 DEF Verdict
<1>. QED  BY StepKinds, <1>1, <1>2, <1>3, <1>4, <1>5, <1>6, <1>7

LEMMA VerdictAlways == Spec => []Verdict
<1>1. Init => Verdict
  BY DEF Init, Verdict
<1>. QED  BY Invariance, <1>1, VerdictStep, PTL DEF Spec

\* For every mixture of orders and ids, the number of attempts in the outcome is the
\* number of times process() ran, and with a negative budget, which lets process()
\* run not once, it is that budget (retry.py:113 and 139-146).
THEOREM AttemptsCounted == Spec => []RetryCountHonest
<1>1. Verdict => RetryCountHonest
  BY DEF Verdict, RetryCountHonest
<1>. QED  BY VerdictAlways, <1>1, PTL

-----------------------------------------------------------------------------
\* Reported is what is true of every report, and of every record handed to the DLQ
\* producer: it follows from Verdict at the moment publish() builds the report.
Reported ==
  /\ \A r \in outbox \cup dlqTopic :
       /\ r.origin \in handled
       /\ Explains(RecordAt(r.origin), r.error, r.retryCount)
       /\ Hopeless(RecordAt(r.origin))
  /\ \A r \in routed : Hopeless(RecordAt(r))

\* Reports are made by publish() only; other steps move or drop them.
LEMMA ReportsMoved ==
  [Next]_vars => \/ RouteToDlq \/ InterruptAfterProduce
                 \/ /\ outbox' \subseteq outbox
                    /\ dlqTopic' \subseteq dlqTopic \cup outbox
                    /\ routed' \subseteq routed
<1>. DEFINE Moved == /\ outbox' \subseteq outbox
                    /\ dlqTopic' \subseteq dlqTopic \cup outbox
                    /\ routed' \subseteq routed
<1>. SUFFICES ASSUME [Next]_vars, ~(RouteToDlq \/ InterruptAfterProduce) PROVE Moved
  OBVIOUS
<1>. USE DEF brokerVars, dlqVars
<1>1. CASE Start
  BY <1>1 DEF Start, FreshMemory
<1>2. CASE PollRecord
  BY <1>2 DEF PollRecord, PollOrder, PollTombstone, PollUndecodable
<1>3. CASE Work
  BY <1>3 DEF Work, AttemptSucceeds, AttemptRaises, BackoffEnds, CountProcessed,
              RouteToDlqRaises
<1>4. CASE Commit \/ Shutdown
  BY <1>4 DEF Commit, Shutdown, LeaveLoop, FlushCompletes, Close
<1>5. CASE PollFails \/ CommitFails \/ Signal \/ Interrupt \/ InterruptBeforeProduce
  BY <1>5 DEF PollFails, CommitFails, Signal, Interrupt, InterruptBeforeProduce
<1>6. CASE FlushTimesOut \/ Crash
  BY <1>6 DEF FlushTimesOut, Crash
<1>7. ASSUME NEW r \in InFlight, DlqDelivered(r) \/ DlqRejected(r) PROVE Moved
  BY <1>7 DEF DlqDelivered, DlqRejected, InFlight
<1>8. CASE PollIdle \/ UNCHANGED vars
  BY <1>8 DEF PollIdle, vars
<1>. QED  BY <1>1, <1>2, <1>3, <1>4, <1>5, <1>6, <1>7, <1>8 DEF Next, Faults

\* What was handled stays handled.
LEMMA HandledGrows == [Next]_vars => handled \subseteq handled'
BY StepKinds DEF Start, PollOrder, PollTombstone, PollUndecodable, AttemptSucceeds,
   AttemptRaises, BackoffEnds, CountProcessed, RouteToDlq, Commit, CommitFails, PublishFails,
   RouteToDlqRaises, InterruptBeforeProduce, InterruptAfterProduce, Outside, Aside

LEMMA ReportedStep == Verdict /\ Reported /\ [Next]_vars => Reported'
<1>. SUFFICES ASSUME Verdict, Reported, [Next]_vars PROVE Reported'
  OBVIOUS
<1>1. handled \subseteq handled'
  BY HandledGrows
<1>2. CASE RouteToDlq \/ InterruptAfterProduce
  <2>1. /\ outbox' \subseteq outbox \cup {ReportOf(current)} /\ dlqTopic' = dlqTopic
        /\ routed' = routed \cup {current} /\ current \in handled'
    BY <1>2 DEF RouteToDlq, InterruptAfterProduce, brokerVars
  <2>2. /\ Hopeless(RecordAt(current))
        /\ Explains(RecordAt(current), outcome.error, outcome.attempts)
    BY <1>2 DEF RouteToDlq, InterruptAfterProduce, Decided, Verdict
  <2>. QED  BY <1>1, <2>1, <2>2, TopicFixed DEF Reported, ReportOf, RecordAt
<1>3. CASE /\ outbox' \subseteq outbox
           /\ dlqTopic' \subseteq dlqTopic \cup outbox
           /\ routed' \subseteq routed
  BY <1>1, <1>3, TopicFixed DEF Reported, RecordAt
<1>. QED  BY <1>2, <1>3, ReportsMoved

LEMMA ReportedAlways == Spec => []Reported
<1>1. Init => Reported
  BY DEF Init, Reported
<1>. QED  BY VerdictAlways, <1>1, ReportedStep, PTL DEF Spec

\* Every report points at the record that failed and tells why and after how many
\* attempts (dlq.py:66-80, consumer.py:190-198).
THEOREM ReportsFaithful == Spec => []ReportFidelity
<1>1. Reported => ReportFidelity
  BY DEF Reported, ReportFidelity
<1>. QED  BY ReportedAlways, <1>1, PTL

\* No order that the retries could have helped is ever dead-lettered
\* (failures.py:65-73).
THEOREM NoneGivenUpEarly == Spec => []OnlyHopelessRouted
<1>1. Reported => OnlyHopelessRouted
  BY DEF Reported, OnlyHopelessRouted, Origins
<1>. QED  BY ReportedAlways, <1>1, PTL

-----------------------------------------------------------------------------
\* Until the process ends, a report whose delivery did not fail is on its way or
\* in the DLQ topic; what flush() returned is what the buffer still holds.
OnItsWay == routed \ rejected \subseteq Origins(InFlight) \cup Origins(dlqTopic)

Accounted ==
  /\ phase # "down" => OnItsWay
  /\ phase = "close" => outstanding = Cardinality(outbox)
  /\ CleanExitKeepsReports

\* The steps that leave reports, buffer and exit alone.
Elsewhere ==
  /\ UNCHANGED <<dlqVars, dlqTopic>>
  /\ \/ phase # "down" /\ phase' \notin {"close", "down"}
     \/ UNCHANGED <<phase, exit, outstanding>>

LEMMA ReportSteps ==
  [Next]_vars =>
    \/ Start \/ RouteToDlq \/ InterruptAfterProduce
    \/ FlushCompletes \/ FlushTimesOut \/ Close \/ Crash
    \/ \E r \in InFlight : DlqDelivered(r) \/ DlqRejected(r)
    \/ Elsewhere
<1>. USE DEF brokerVars, dlqVars, loopVars, Elsewhere
<1>1. PollRecord => Elsewhere
  BY DEF PollRecord, PollOrder, PollTombstone, PollUndecodable, Fetch, LeaveTry
<1>2. Work => RouteToDlq \/ Elsewhere
  BY DEF Work, AttemptSucceeds, AttemptRaises, BackoffEnds, CountProcessed,
         RouteToDlqRaises, Decided, LeaveTry
<1>3. \/ Commit \/ LeaveLoop \/ CommitFails \/ PollFails \/ Interrupt
      \/ InterruptBeforeProduce
      => Elsewhere
  BY DEF Commit, LeaveLoop, CommitFails, PollFails, Interrupt, InterruptBeforeProduce,
         Decided, InLoop, LeaveTry
<1>4. PollIdle \/ Signal \/ UNCHANGED vars => Elsewhere
  BY DEF PollIdle, Signal, vars
<1>. QED  BY <1>1, <1>2, <1>3, <1>4 DEF Next, Shutdown, Faults

LEMMA AccountedStep == TypeOK /\ Accounted /\ [Next]_vars => Accounted'
<1>. SUFFICES ASSUME TypeOK, Accounted, [Next]_vars PROVE Accounted'
  OBVIOUS
<1>. USE DEF Accounted, OnItsWay, CleanExitKeepsReports, InFlight, Origins,
             brokerVars, dlqVars, loopVars
<1>1. CASE Start
  BY <1>1 DEF Start, FreshMemory
<1>2. CASE RouteToDlq \/ InterruptAfterProduce
  <2>1. Origins(InFlight)' = Origins(InFlight) \cup {current}
    <3>1. InFlight' = InFlight \cup {ReportOf(current)}
      BY <1>2 DEF RouteToDlq, InterruptAfterProduce
    <3>2. ReportOf(current).origin = current
      BY DEF ReportOf
    <3>. QED  BY <3>1, <3>2 DEF Origins
  <2>. QED  BY <1>2, <2>1 DEF RouteToDlq, InterruptAfterProduce, Decided, LeaveTry
<1>3. CASE FlushCompletes
  <2>1. Origins(InFlight) = {}
    BY <1>3 DEF FlushCompletes
  <2>2. outstanding' = Cardinality(outbox')
    BY <1>3, FS_EmptySet DEF FlushCompletes
  <2>. QED  BY <1>3, <2>1, <2>2 DEF FlushCompletes
<1>4. CASE FlushTimesOut
  BY <1>4 DEF FlushTimesOut
<1>5. CASE Close
  <2>1. ASSUME outstanding = 0 PROVE Origins(InFlight) = {}
    <3>1. outbox = {}
      BY <1>5, <2>1, FS_EmptySet DEF Close, TypeOK
    <3>. QED  BY <3>1
  <2>. QED  BY <1>5, <2>1 DEF Close
<1>6. CASE Crash
  BY <1>6 DEF Crash
<1>7. ASSUME NEW r \in InFlight, DlqDelivered(r) PROVE Accounted'
  <2>1. /\ InFlight' = InFlight \ {r} /\ dlqTopic' = dlqTopic \cup {r}
        /\ UNCHANGED <<phase, exit, outstanding, routed, rejected, outbox>>
    BY <1>7 DEF DlqDelivered
  <2>. QED  BY <2>1
<1>8. ASSUME NEW r \in InFlight, DlqRejected(r) PROVE Accounted'
  <2>1. /\ InFlight' = InFlight \ {r} /\ rejected' = rejected \cup {r.origin}
        /\ UNCHANGED <<phase, exit, outstanding, routed, dlqTopic, outbox>>
    BY <1>8 DEF DlqRejected
  <2>. QED  BY <2>1
<1>9. CASE Elsewhere
  BY <1>9 DEF Elsewhere
<1>. QED  BY ReportSteps, <1>1, <1>2, <1>3, <1>4, <1>5, <1>6, <1>7, <1>8, <1>9

\* An exit without a word about outstanding messages or a failed delivery loses no
\* report (consumer.py:258-260, dlq.py:120-127).
THEOREM CleanExitLosesNothing == Spec => []CleanExitKeepsReports
<1>1. Init => Accounted
  BY DEF Init, Accounted, CleanExitKeepsReports
<1>2. Accounted => CleanExitKeepsReports
  BY DEF Accounted
<1>. QED  BY TypeCorrect, <1>1, AccountedStep, <1>2, PTL DEF Spec

-----------------------------------------------------------------------------
\* The records this process has read, those it has done with, and those the next
\* process reads again.
Read == UNION {{p} \X (resumed[p] .. position[p] - 1) : p \in Partitions}

Settled == {r \in Read : RecordAt(r) = Tombstone} \cup aggregated \cup routed

Open == {r \in Read : r[2] >= committed[r[1]]}

\* While the loop runs: the books, the counters and the message in hand.
Books ==
  /\ aggregated \cap routed = {}
  /\ Settled \subseteq Read
  /\ Read \ Settled \subseteq IF phase = "work" THEN {current} ELSE {}

Counters ==
  /\ IsFiniteSet(aggregated) /\ IsFiniteSet(routed)
  /\ count = Cardinality(aggregated)
  /\ failed = Cardinality(routed) /\ published = failed
  /\ processed = IF phase = "work" /\ current \in aggregated THEN count - 1 ELSE count

MessageAggregated ==
  phase = "work" =>
    IF retryState = "done" /\ outcome.succeeded
    THEN current \in aggregated
    ELSE current \notin aggregated \cup routed

Exact == Books /\ Counters /\ MessageAggregated

\* At every point, after the loop too.
Ledger ==
  /\ aggregated \cap routed = {}
  /\ Settled \subseteq Read
  /\ Read \ Settled \subseteq Open
  /\ count = Cardinality(aggregated)
  /\ \/ processed = count
     \/ processed = count - 1 /\ current \in Open \cap aggregated
  /\ \/ failed = Cardinality(routed) /\ published = failed
     \/ /\ failed = Cardinality(routed) + 1 /\ published = failed - 1
        /\ current \in Open \ Settled
     \/ /\ failed = Cardinality(routed) /\ published = failed - 1
        /\ current \in Open \cap routed

NotAhead == \A p \in Partitions : resumed[p] <= committed[p]

Accounts == NotAhead /\ Ledger /\ (InLoop => Exact)

LEMMA ReadMembers ==
  ASSUME NEW r
  PROVE  r \in Read <=> \E p \in Partitions : \E o \in resumed[p] .. position[p] - 1 :
                            r = <<p, o>>
BY DEF Read

\* A poll adds one record to those that were read, and a new one.
LEMMA ReadGrows ==
  ASSUME Inv, NotAhead,
         NEW p \in Partitions, Fetch(p), UNCHANGED resumed
  PROVE  Read' = Read \cup {NextOrigin(p)} /\ NextOrigin(p) \notin Read
<1>1. /\ position = committed /\ position \in [Partitions -> Nat]
      /\ resumed \in [Partitions -> Nat] /\ resumed[p] <= position[p]
      /\ position' = [position EXCEPT ![p] = @ + 1]
  BY DEF Inv, Loop, InHand, TypeOK, Fetch, NotAhead
<1>2. resumed[p] .. position'[p] - 1 = (resumed[p] .. position[p] - 1) \cup {position[p]}
  BY <1>1
<1>3. \A q \in Partitions \ {p} : position'[q] = position[q]
  BY <1>1
<1>4. NextOrigin(p) = <<p, position[p]>>
  BY DEF NextOrigin
<1>5. ASSUME NEW r PROVE r \in Read' <=> r \in Read \cup {NextOrigin(p)}
  <2>1. r \in Read' <=> \E q \in Partitions : \E o \in resumed[q] .. position'[q] - 1 :
                            r = <<q, o>>
    BY DEF Read
  <2>. QED  BY <2>1, <1>2, <1>3, <1>4, ReadMembers
<1>6. NextOrigin(p) \notin Read
  BY <1>1, <1>4, ReadMembers
<1>. QED  BY <1>5, <1>6

\* The message in hand was read by this process, is not committed, and is no
\* tombstone.
LEMMA CurrentOpen ==
  ASSUME Inv, NotAhead, phase = "work"
  PROVE  current \in Open /\ current \in Read /\ RecordAt(current) # Tombstone
<1>1. /\ current = <<current[1], current[2]>> /\ current[1] \in Partitions
      /\ current[2] \in Nat
      /\ current[2] = committed[current[1]] /\ committed \in [Partitions -> Nat]
      /\ position = [committed EXCEPT ![current[1]] = @ + 1]
      /\ resumed \in [Partitions -> Nat] /\ resumed[current[1]] <= committed[current[1]]
  BY DEF Inv, Loop, InHand, TypeOK, Record, NotAhead
<1>2. current[2] \in resumed[current[1]] .. position[current[1]] - 1
  BY <1>1
<1>3. RecordAt(current) \in Order
  BY DEF Inv, Loop, InHand
<1>4. current \in Read
  BY <1>1, <1>2, ReadMembers
<1>5. current[2] >= committed[current[1]]
  BY <1>1
<1>6. current \in Open
  BY <1>4, <1>5 DEF Open
<1>. QED  BY <1>3, <1>4, <1>6, ProcessingAssumption

\* What the loop knows is more than what holds everywhere.
LoopLedger == Inv /\ NotAhead /\ InLoop /\ Exact => Ledger

LEMMA LoopLedgerHolds == LoopLedger
<1>. SUFFICES ASSUME Inv, NotAhead, InLoop, Exact PROVE Ledger
  BY DEF LoopLedger
<1>1. /\ aggregated \cap routed = {} /\ Settled \subseteq Read
      /\ count = Cardinality(aggregated) /\ count \in Nat
      /\ failed = Cardinality(routed) /\ published = failed
  BY DEF Exact, Books, Counters, Inv, TypeOK
<1>2. CASE phase = "work"
  <2>1. current \in Open
    BY <1>2, CurrentOpen
  <2>2. Read \ Settled \subseteq Open
    BY <1>2, <2>1 DEF Exact, Books
  <2>3. processed = IF current \in aggregated THEN count - 1 ELSE count
    BY <1>2 DEF Exact, Counters
  <2>. QED  BY <1>1, <2>1, <2>2, <2>3 DEF Ledger
<1>3. CASE phase # "work"
  <2>1. Read \ Settled = {} /\ processed = count
    BY <1>3 DEF Exact, Books, Counters
  <2>. QED  BY <1>1, <2>1 DEF Ledger
<1>. QED  BY <1>2, <1>3

LEMMA LoopLedgerNext == LoopLedger'
BY LoopLedgerHolds, PTL

-----------------------------------------------------------------------------
\* The steps inside the loop.
LEMMA ExactOnStart == Inv /\ Start => Exact' /\ NotAhead'
<1>. SUFFICES ASSUME Inv, Start PROVE Exact' /\ NotAhead'
  OBVIOUS
<1>1. /\ resumed' = committed' /\ position' = committed' /\ phase' = "poll"
      /\ aggregated' = {} /\ routed' = {} /\ count' = 0 /\ processed' = 0
      /\ failed' = 0 /\ published' = 0 /\ committed' \in [Partitions -> Nat]
  BY DEF Start, FreshMemory, brokerVars, Inv, TypeOK
<1>2. Read' = {}
  BY <1>1 DEF Read
<1>3. Books'
  BY <1>1, <1>2 DEF Books, Settled
<1>4. Counters' /\ MessageAggregated'
  BY <1>1, FS_EmptySet DEF Counters, MessageAggregated
<1>. QED  BY <1>1, <1>3, <1>4 DEF Exact, NotAhead

LEMMA ExactOnPoll ==
  ASSUME Inv, NotAhead, Exact, NEW p \in Partitions, PollOrder(p) \/ PollTombstone(p)
  PROVE  Exact' /\ NotAhead'
<1>. USE DEF brokerVars, workVars, counterVars, dlqVars
<1>0. /\ Fetch(p) /\ phase = "poll" /\ phase' \in {"work", "commit"}
      /\ current' = NextOrigin(p)
      /\ UNCHANGED <<topic, committed, resumed, aggregated, count, counterVars, routed>>
  BY DEF PollOrder, PollTombstone, Fetch
<1>1. Books /\ Counters /\ NotAhead'
  BY <1>0 DEF Exact, NotAhead
<1>2. Read' = Read \cup {current'} /\ current' \notin Read
  BY <1>0, ReadGrows
<1>3. \A r \in Read' : RecordAt(r)' = RecordAt(r)
  BY <1>0 DEF RecordAt
<1>4. current' \notin aggregated' \cup routed'
  BY <1>0, <1>1, <1>2 DEF Books, Settled
<1>5. Settled' = Settled \cup {r \in {current'} : RecordAt(r)' = Tombstone}
  BY <1>0, <1>2, <1>3 DEF Settled
<1>6. Counters'
  BY <1>0, <1>1, <1>4 DEF Counters
<1>7. CASE PollOrder(p)
  <2>1. phase' = "work" /\ (retryState' # "done" \/ ~outcome'.succeeded)
    BY <1>7 DEF PollOrder, Execute, Failure
  <2>2. Books'
    <3>1. Settled' \subseteq Read'
      BY <1>1, <1>2, <1>5 DEF Books
    <3>2. Read' \ Settled' \subseteq {current'}
      BY <1>0, <1>1, <1>2, <1>5 DEF Books
    <3>. QED  BY <1>0, <1>1, <2>1, <3>1, <3>2 DEF Books
  <2>. QED  BY <1>0, <1>1, <1>4, <1>6, <2>1, <2>2 DEF Exact, MessageAggregated
<1>8. CASE PollTombstone(p)
  <2>1. phase' = "commit" /\ RecordAt(current)' = Tombstone
    BY <1>8 DEF PollTombstone, RecordAt
  <2>2. Books'
    <3>1. Settled' = Settled \cup {current'}
      BY <1>5, <2>1 DEF RecordAt
    <3>. QED  BY <1>0, <1>1, <1>2, <2>1, <3>1 DEF Books
  <2>. QED  BY <1>0, <1>1, <1>6, <2>1, <2>2 DEF Exact, MessageAggregated
<1>. QED  BY <1>7, <1>8

\* The order in hand enters the aggregate or the DLQ producer's buffer.
LEMMA SettledGrows ==
  ASSUME Inv, NotAhead, phase = "work", UNCHANGED <<topic, position, resumed>>,
         \/ aggregated' = aggregated \cup {current} /\ routed' = routed
         \/ aggregated' = aggregated /\ routed' = routed \cup {current}
  PROVE  current \in Read /\ Read' = Read /\ Settled' = Settled \cup {current}
<1>1. current \in Read /\ Read' = Read /\ \A r \in Read : RecordAt(r)' = RecordAt(r)
  BY CurrentOpen DEF Read, RecordAt
<1>. QED  BY <1>1 DEF Settled

LEMMA ExactOnSuccess == Inv /\ NotAhead /\ Exact /\ AttemptSucceeds => Exact' /\ NotAhead'
<1>. SUFFICES ASSUME Inv, NotAhead, Exact, AttemptSucceeds PROVE Exact' /\ NotAhead'
  OBVIOUS
<1>. USE DEF brokerVars, loopVars, counterVars, dlqVars
<1>1. /\ Books /\ Counters /\ NotAhead'
      /\ phase = "work" /\ phase' = "work" /\ current' = current
      /\ aggregated' = aggregated \cup {current} /\ routed' = routed
      /\ count' = count + 1
      /\ retryState' = "done" /\ outcome'.succeeded
      /\ UNCHANGED <<topic, position, resumed, committed, processed, failed, published>>
      /\ count \in Nat
  BY DEF AttemptSucceeds, CallReturns, Success, Exact, NotAhead, Inv, TypeOK
<1>2. current \notin aggregated /\ current \notin routed
  BY DEF AttemptSucceeds, CallReturns, Exact, MessageAggregated
<1>3. current \in Read /\ Read' = Read /\ Settled' = Settled \cup {current}
  BY <1>1, SettledGrows
<1>4. Books'
  BY <1>1, <1>2, <1>3 DEF Books
<1>5. Counters'
  <2>1. IsFiniteSet(aggregated') /\ Cardinality(aggregated') = count'
    BY <1>1, <1>2, FS_AddElement DEF Counters
  <2>2. processed' = count' - 1 /\ current' \in aggregated'
    BY <1>1, <1>2 DEF Counters
  <2>. QED  BY <1>1, <2>1, <2>2 DEF Counters
<1>. QED  BY <1>1, <1>4, <1>5 DEF Exact, MessageAggregated

LEMMA ExactOnRoute == Inv /\ NotAhead /\ Exact /\ RouteToDlq => Exact' /\ NotAhead'
<1>. SUFFICES ASSUME Inv, NotAhead, Exact, RouteToDlq PROVE Exact' /\ NotAhead'
  OBVIOUS
<1>. USE DEF brokerVars, workVars
<1>1. /\ Books /\ Counters /\ NotAhead'
      /\ phase = "work" /\ phase' = "commit" /\ current' = current
      /\ routed' = routed \cup {current} /\ UNCHANGED <<aggregated, count, processed>>
      /\ failed' = failed + 1 /\ published' = published + 1
      /\ UNCHANGED <<topic, position, resumed, committed>>
      /\ failed \in Nat
  BY DEF RouteToDlq, Decided, Exact, NotAhead, Inv, TypeOK
<1>2. current \notin aggregated /\ current \notin routed
  BY DEF RouteToDlq, Decided, Exact, MessageAggregated
<1>3. current \in Read /\ Read' = Read /\ Settled' = Settled \cup {current}
  BY <1>1, SettledGrows
<1>4. Books'
  BY <1>1, <1>2, <1>3 DEF Books
<1>5. Counters'
  BY <1>1, <1>2, FS_AddElement DEF Counters
<1>. QED  BY <1>1, <1>4, <1>5 DEF Exact, MessageAggregated

\* Steps that read, count and commit nothing.
Unread ==
  UNCHANGED <<topic, position, resumed, committed, current, aggregated, count, counterVars,
              routed>>

LEMMA UnreadKeeps == Unread => /\ Read' = Read /\ Settled' = Settled /\ Open' = Open
                               /\ (NotAhead => NotAhead')
BY DEF Unread, Read, Settled, Open, RecordAt, NotAhead

\* An attempt that fails, a sleep, and what happens beside the loop.
LEMMA ExactBetween ==
  ASSUME NotAhead, Exact, AttemptRaises \/ BackoffEnds \/ Aside
  PROVE  Exact' /\ NotAhead'
<1>. USE DEF brokerVars, loopVars, workVars, counterVars, dlqVars, retryVars
<1>1. /\ Unread /\ phase' = phase
      /\ \/ phase = "work" /\ retryState # "done"
            /\ (retryState' # "done" \/ ~outcome'.succeeded)
         \/ UNCHANGED <<retryState, outcome>>
  BY DEF Unread, AttemptRaises, CallRaises, Failure, BackoffEnds, SleepEnds, Aside
<1>2. Books'
  BY <1>1, UnreadKeeps DEF Unread, Exact, Books
<1>3. Counters' /\ MessageAggregated'
  BY <1>1 DEF Unread, Exact, Counters, MessageAggregated
<1>. QED  BY <1>1, <1>2, <1>3, UnreadKeeps DEF Exact

LEMMA ExactOnCount == Inv /\ NotAhead /\ Exact /\ CountProcessed => Exact' /\ NotAhead'
<1>. SUFFICES ASSUME Inv, NotAhead, Exact, CountProcessed PROVE Exact' /\ NotAhead'
  OBVIOUS
<1>. USE DEF brokerVars, workVars, dlqVars
<1>1. /\ UNCHANGED <<topic, position, resumed, committed, current, aggregated,
                     count, failed, published, routed>>
      /\ phase = "work" /\ phase' = "commit" /\ processed' = processed + 1
      /\ current \in aggregated /\ Books /\ Counters /\ count \in Nat
  BY DEF CountProcessed, Decided, Exact, MessageAggregated, Inv, TypeOK
<1>2. Read' = Read /\ Settled' = Settled
  BY <1>1 DEF Read, Settled, RecordAt
<1>3. Books'
  BY <1>1, <1>2 DEF Books, Settled
<1>4. Counters'
  BY <1>1 DEF Counters
<1>. QED  BY <1>1, <1>3, <1>4 DEF Exact, MessageAggregated, NotAhead

\* A commit moves the committed offsets up to the position or leaves them.
LEMMA NotAheadOnCommit ==
  ASSUME Inv, NotAhead, UNCHANGED resumed, committed' \in {committed, position}
  PROVE  NotAhead'
<1>1. \A p \in Partitions : committed[p] <= position[p] /\ resumed[p] \in Nat
                            /\ committed[p] \in Nat /\ position[p] \in Nat
  BY DEF Inv, TypeOK, Loop, RedeliveryWindow
<1>. QED  BY <1>1 DEF NotAhead

LEMMA ExactOnCommit == Inv /\ NotAhead /\ Exact /\ Commit => Exact' /\ NotAhead'
<1>. SUFFICES ASSUME Inv, NotAhead, Exact, Commit PROVE Exact' /\ NotAhead'
  OBVIOUS
<1>. USE DEF workVars, counterVars, dlqVars
<1>1. /\ UNCHANGED <<topic, position, resumed, current, aggregated, count, counterVars,
                     routed>>
      /\ phase = "commit" /\ phase' = "poll" /\ Books /\ Counters
      /\ committed' = position
  BY DEF Commit, Exact
<1>2. Read' = Read /\ Settled' = Settled
  BY <1>1 DEF Read, Settled, RecordAt
<1>3. Books' /\ Counters'
  BY <1>1, <1>2 DEF Books, Counters
<1>. QED  BY <1>1, <1>3, NotAheadOnCommit DEF Exact, MessageAggregated

-----------------------------------------------------------------------------
\* The steps that leave the loop.  A record the deserializer rejects is read and
\* stays open.
LEMMA LedgerOnUndecodable ==
  ASSUME Inv, NotAhead, Exact, NEW p \in Partitions, PollUndecodable(p)
  PROVE  Ledger' /\ NotAhead'
<1>. USE DEF brokerVars, workVars, counterVars, dlqVars
<1>1. /\ Fetch(p) /\ phase = "poll" /\ Books /\ Counters
      /\ UNCHANGED <<topic, committed, resumed, aggregated, count, counterVars, routed>>
      /\ position = committed /\ committed \in [Partitions -> Nat]
  BY DEF PollUndecodable, Fetch, Exact, Inv, Loop, InHand, TypeOK
<1>2. Read' = Read \cup {NextOrigin(p)}
  BY <1>1, ReadGrows
<1>3. NextOrigin(p) \in Open'
  BY <1>1, <1>2 DEF Open, NextOrigin
<1>4. \A r \in Read' : RecordAt(r)' = RecordAt(r)
  BY <1>1 DEF RecordAt
<1>5. Settled' \subseteq Read' /\ Settled \subseteq Settled'
  BY <1>1, <1>2, <1>4 DEF Settled, Books
<1>6. Read' \ Settled' \subseteq Open'
  BY <1>1, <1>2, <1>3, <1>5 DEF Books
<1>. QED  BY <1>1, <1>5, <1>6 DEF Ledger, Books, Counters, NotAhead

\* publish() ends before its produce().
LEMMA LedgerOnPublishFails ==
  ASSUME Inv, NotAhead, Exact, PublishFails
  PROVE  Ledger' /\ NotAhead'
<1>. USE DEF brokerVars, workVars, dlqVars
<1>1. /\ Decided(FALSE) /\ failed' = failed + 1
      /\ UNCHANGED <<topic, position, resumed, committed, current, aggregated, count,
                     processed, published, routed>>
      /\ failed \in Nat /\ Books /\ Counters
  BY DEF PublishFails, RouteToDlqRaises, InterruptBeforeProduce, Exact, Inv, TypeOK
<1>2. /\ Read' = Read /\ Settled' = Settled /\ Open' = Open /\ NotAhead'
  BY <1>1 DEF Read, Settled, Open, RecordAt, NotAhead
<1>3. phase = "work" /\ current \notin aggregated \cup routed
  BY <1>1 DEF Decided, Exact, MessageAggregated
<1>4. current \in Open /\ current \in Read /\ RecordAt(current) # Tombstone
  BY <1>3, CurrentOpen
<1>5. current \in Open \ Settled
  BY <1>3, <1>4 DEF Settled
<1>6. /\ aggregated' \cap routed' = {} /\ Settled' \subseteq Read'
      /\ Read' \ Settled' \subseteq Open'
  BY <1>1, <1>2, <1>3, <1>4 DEF Books
<1>7. count' = Cardinality(aggregated') /\ processed' = count'
  BY <1>1, <1>3 DEF Counters
<1>8. failed' = Cardinality(routed') + 1 /\ published' = failed' - 1
  BY <1>1 DEF Counters
<1>. QED  BY <1>1, <1>2, <1>5, <1>6, <1>7, <1>8 DEF Ledger

\* publish() ends between its produce() and the counter.
LEMMA LedgerOnInterruptedPublish ==
  ASSUME Inv, NotAhead, Exact, InterruptAfterProduce
  PROVE  Ledger' /\ NotAhead'
<1>. USE DEF brokerVars, workVars
<1>1. /\ Decided(FALSE) /\ phase = "work" /\ failed' = failed + 1
      /\ routed' = routed \cup {current}
      /\ UNCHANGED <<topic, position, resumed, committed, current, aggregated, count,
                     processed, published>>
      /\ failed \in Nat /\ Books /\ Counters
  BY DEF InterruptAfterProduce, Decided, Exact, Inv, TypeOK
<1>2. current \notin aggregated \cup routed
  BY <1>1 DEF Decided, Exact, MessageAggregated
<1>3. current \in Open /\ Read' = Read /\ Settled' = Settled \cup {current}
      /\ current \in Read
  BY <1>1, SettledGrows, CurrentOpen
<1>4. Open' = Open /\ NotAhead'
  BY <1>1, <1>3 DEF Open, NotAhead
<1>5. /\ aggregated' \cap routed' = {} /\ Settled' \subseteq Read'
      /\ Read' \ Settled' \subseteq Open'
  BY <1>1, <1>2, <1>3, <1>4 DEF Books
<1>6. count' = Cardinality(aggregated') /\ processed' = count'
  BY <1>1, <1>2 DEF Counters
<1>7. failed' = Cardinality(routed') /\ published' = failed' - 1
  <2>1. Cardinality(routed') = Cardinality(routed) + 1
    BY <1>1, <1>2, FS_AddElement DEF Counters
  <2>. QED  BY <1>1, <2>1 DEF Counters
<1>8. current' \in Open' \cap routed'
  BY <1>1, <1>3, <1>4
<1>. QED  BY <1>1, <1>3, <1>4, <1>5, <1>6, <1>7, <1>8 DEF Ledger

\* The commit raises: nothing is in hand that is not settled.
LEMMA LedgerOnCommitFails ==
  ASSUME Inv, NotAhead, Exact, CommitFails
  PROVE  Ledger' /\ NotAhead'
<1>. USE DEF workVars, counterVars, dlqVars
<1>1. /\ UNCHANGED <<topic, position, resumed, current, aggregated, count, counterVars,
                     routed>>
      /\ phase = "commit" /\ Books /\ Counters
      /\ committed' \in {committed, position}
  BY DEF CommitFails, Exact
<1>2. Read' = Read /\ Settled' = Settled
  BY <1>1 DEF Read, Settled, RecordAt
<1>3. Read \ Settled = {}
  BY <1>1 DEF Books
<1>. QED  BY <1>1, <1>2, <1>3, NotAheadOnCommit DEF Ledger, Books, Counters

LEMMA AccountsStep == Inv /\ Inv' /\ Accounts /\ [Next]_vars => Accounts'
<1>. SUFFICES ASSUME Inv, Inv', Accounts, [Next]_vars PROVE Accounts'
  OBVIOUS
<1>. USE DEF Accounts
<1>1. ASSUME InLoop, InLoop', Exact', NotAhead' PROVE Accounts'
  BY <1>1, LoopLedgerNext DEF LoopLedger
<1>2. CASE Start
  <2>1. InLoop'
    BY <1>2 DEF Start, InLoop
  <2>2. Exact' /\ NotAhead'
    BY <1>2, ExactOnStart
  <2>. QED  BY <2>1, <2>2, LoopLedgerNext DEF LoopLedger
<1>3. ASSUME NEW p \in Partitions, PollOrder(p) \/ PollTombstone(p) PROVE Accounts'
  <2>1. InLoop /\ InLoop'
    BY <1>3 DEF PollOrder, PollTombstone, Fetch, InLoop
  <2>. QED  BY <1>1, <1>3, <2>1, ExactOnPoll
<1>4. CASE \/ AttemptSucceeds \/ RouteToDlq \/ AttemptRaises \/ BackoffEnds
           \/ CountProcessed \/ Commit
  <2>1. InLoop /\ InLoop'
    BY <1>4 DEF AttemptSucceeds, RouteToDlq, AttemptRaises, BackoffEnds, CountProcessed,
                Commit, Decided, InLoop, loopVars
  <2>2. Exact' /\ NotAhead'
    BY <1>4, <2>1, ExactOnSuccess, ExactOnRoute, ExactBetween, ExactOnCount, ExactOnCommit
  <2>. QED  BY <1>1, <2>1, <2>2
<1>5. ASSUME NEW p \in Partitions, PollUndecodable(p) PROVE Accounts'
  <2>1. InLoop /\ ~InLoop'
    BY <1>5 DEF PollUndecodable, Fetch, LeaveTry, InLoop
  <2>. QED  BY <1>5, <2>1, LedgerOnUndecodable
<1>6. CASE PublishFails \/ InterruptAfterProduce \/ CommitFails
  <2>1. InLoop /\ ~InLoop'
    BY <1>6 DEF PublishFails, RouteToDlqRaises, InterruptBeforeProduce,
                InterruptAfterProduce, CommitFails, Decided, LeaveTry, InLoop
  <2>. QED  BY <1>6, <2>1, LedgerOnPublishFails, LedgerOnInterruptedPublish,
               LedgerOnCommitFails
<1>7. CASE Outside
  <2>1. Unread /\ ~InLoop'
    BY <1>7 DEF Outside, Unread, InLoop, workVars
  <2>2. Ledger'
    BY <2>1, UnreadKeeps DEF Ledger, Unread, counterVars
  <2>. QED  BY <2>1, <2>2, UnreadKeeps
<1>8. CASE Aside
  <2>1. Unread /\ phase' = phase
    BY <1>8 DEF Aside, Unread, workVars
  <2>2. Ledger'
    BY <2>1, UnreadKeeps DEF Ledger, Unread, counterVars
  <2>3. InLoop' = InLoop
    BY <2>1 DEF InLoop
  <2>. QED  BY <1>8, <2>1, <2>2, <2>3, UnreadKeeps, ExactBetween
<1>. QED  BY StepKinds, <1>2, <1>3, <1>4, <1>5, <1>6, <1>7, <1>8

\* Every process counts every record it reads once: tombstone, aggregated or
\* dead-lettered, and never two of them; and whenever the loop is left, its numbers
\* are right but for one record that is read again (consumer.py:159-166, 171, 183
\* and 262).
THEOREM EachRecordCountedOnce == Spec => []SessionAccounting
<1>1. Init => Accounts
  <2>. SUFFICES ASSUME Init PROVE Accounts
    OBVIOUS
  <2>1. Read = {}
    BY DEF Init, Read
  <2>2. Cardinality({}) = 0
    BY FS_EmptySet
  <2>. QED  BY <2>1, <2>2 DEF Init, Accounts, NotAhead, Ledger, Settled, InLoop
<1>2. Inv /\ Inv' /\ Accounts /\ [Next]_vars => Accounts'
  BY AccountsStep
<1>3. Accounts => SessionAccounting
  BY DEF Accounts, Ledger, SessionAccounting, Settled, Read, Open
<1>. QED  BY Invariance, <1>1, <1>2, <1>3, PTL DEF Spec
=============================================================================
