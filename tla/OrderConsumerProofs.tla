------------------------- MODULE OrderConsumerProofs -------------------------
(***************************************************************************)
(* Proofs about OrderConsumer for every set of partitions, every topic     *)
(* contents, every attempt budget and every number of faults.              *)
(*                                                                         *)
(* The argument: RetryInv is kept because the consumer only moves the      *)
(* retry variables through the actions of RetryPolicy; InHand ties what    *)
(* the client has read to what is committed and handled at each point of   *)
(* the loop; NoRecordSkipped, RedeliveryWindow and the refinement of       *)
(* InOrderDelivery follow from it step by step.                            *)
(***************************************************************************)
EXTENDS OrderConsumer, RetryPolicyProofs, FiniteSetTheorems

-----------------------------------------------------------------------------
\* process() succeeds or raises an exception classify() knows of.
LEMMA ProcessResults ==
  ASSUME NEW order, NEW attempts
  PROVE  process(order, attempts) \in Exceptions \cup {"ok"}
BY DEF process, Exceptions, TransientErrors, PermanentErrors

\* FailureSimulator._attempts keeps its type.
LEMMA SeenTypes ==
  ASSUME NEW order, NEW attempts \in [OrderIds -> Nat]
  PROVE  SeenAfter(order, attempts) \in [OrderIds -> Nat]
<1>1. CASE order.orderId \in OrderIds
  <2>1. attempts[order.orderId] + 1 \in Nat
    BY <1>1
  <2>. QED  BY <2>1, <1>1 DEF SeenAfter
<1>2. CASE order.orderId \notin OrderIds
  <2>1. [attempts EXCEPT ![order.orderId] = @ + 1] = attempts
    BY <1>2
  <2>. QED  BY <2>1 DEF SeenAfter
<1>. QED  BY <1>1, <1>2

LEMMA RetryResetInv == RetryReset => RetryInv'
<1>. SUFFICES ASSUME RetryReset PROVE RetryInv'
  OBVIOUS
<1>1. RetryTypeOK'
  BY OutcomeTypes DEF RetryReset, RetryTypeOK
<1>2. LoopCounter' /\ RetryBudget' /\ OutcomeFaithful'
  BY DEF RetryReset, LoopCounter, RetryBudget, OutcomeFaithful
<1>. QED  BY <1>1, <1>2 DEF RetryInv

\* The consumer goes through the actions of the retry policy, starts one anew or
\* leaves its variables alone; process() raises only what the policy can classify.
RetryUse == RetryNext \/ RetryReset

LEMMA RetryUsed == [Next]_vars => [RetryUse]_retryVars
<1>. SUFFICES ASSUME [Next]_vars PROVE RetryUse \/ UNCHANGED retryVars
  OBVIOUS
<1>1. CASE Start
  BY <1>1 DEF Start, FreshMemory, RetryUse
<1>2. ASSUME NEW p \in Partitions, PollOrder(p) PROVE RetryUse
  BY <1>2 DEF PollOrder, RetryUse, RetryNext
<1>3. CASE AttemptSucceeds
  BY <1>3 DEF AttemptSucceeds, RetryUse, RetryNext
<1>4. CASE AttemptRaises
  <2>1. Result \in Exceptions
    BY <1>4, ProcessResults DEF AttemptRaises, Result
  <2>. QED  BY <1>4, <2>1 DEF AttemptRaises, RetryUse, RetryNext
<1>5. CASE BackoffEnds
  BY <1>5 DEF BackoffEnds, RetryUse, RetryNext
<1>6. \/ Start \/ (\E p \in Partitions : PollOrder(p))
      \/ AttemptSucceeds \/ AttemptRaises \/ BackoffEnds \/ UNCHANGED retryVars
  BY DEF Next, vars, PollIdle, PollRecord, PollTombstone, PollUndecodable, Work,
         CountProcessed, RouteToDlq, RouteToDlqRaises, Commit, Shutdown, LeaveLoop,
         FlushCompletes, Close, DlqDelivered, Faults, PollFails, CommitFails, Signal,
         Interrupt, InterruptBeforeProduce, InterruptAfterProduce, FlushTimesOut, Crash,
         DlqRejected
<1>. QED  BY <1>1, <1>2, <1>3, <1>4, <1>5, <1>6

LEMMA RetryStep == RetryInv /\ [Next]_vars => RetryInv'
<1>. SUFFICES ASSUME RetryInv, [RetryUse]_retryVars PROVE RetryInv'
  BY RetryUsed
<1>. QED  BY RetryResetInv, ExecuteInv, CallReturnsInv, CallRaisesInv, SleepEndsInv,
             RetryUnchangedInv DEF RetryUse, RetryNext

-----------------------------------------------------------------------------
\* The report of the message in hand is a DLQ record.
LEMMA ReportTypes ==
  ASSUME RetryTypeOK, NEW origin \in Record
  PROVE  ReportOf(origin) \in Report
BY DEF RetryTypeOK, RetryOutcome, ReportOf, Report, Record

\* What the types have to say about the step of a partition's position.
LEMMA FetchTypes ==
  ASSUME TypeOK, NEW p \in Partitions, Fetch(p)
  PROVE  /\ position' \in [Partitions -> Nat]
         /\ NextOrigin(p) \in Record
BY DEF TypeOK, Fetch, NextOrigin, Record

\* The message in hand.  Between two messages nothing is read and uncommitted.
\* Until the commit at the end of its iteration, the message in hand is the one
\* record read past the committed offsets, it was a decoded order while work was
\* being done on it, and it has been handled by the time the policy reports
\* success and by the time the commit is reached (consumer.py:126-229).
InHand ==
  /\ phase = "poll" => position = committed
  /\ phase \in {"work", "commit"} =>
       /\ current \in Record
       /\ current[2] = committed[current[1]]
       /\ current[2] < Len(topic[current[1]])
       /\ position = [committed EXCEPT ![current[1]] = @ + 1]
  /\ phase = "work" => RecordAt(current) \in Order
  /\ phase = "commit" => current \in handled
  /\ phase = "work" /\ retryState = "done" /\ outcome.succeeded => current \in handled

LEMMA TypeInit == Init => TypeOK
<1>1. Init => RetryTypeOK
  BY RetryInitInv DEF Init, RetryInv
<1>. QED  BY <1>1, FS_EmptySet DEF Init, TypeOK

LEMMA TypeStep == TypeOK /\ RetryInv' /\ InHand /\ [Next]_vars => TypeOK'
<1>. SUFFICES ASSUME TypeOK, RetryInv', InHand, [Next]_vars PROVE TypeOK'
  OBVIOUS
<1>. USE DEF TypeOK, brokerVars, loopVars, workVars, counterVars, dlqVars
<1>0. RetryTypeOK'
  BY DEF RetryInv
<1>1. CASE Start
  BY <1>0, <1>1, FS_EmptySet DEF Start, FreshMemory
<1>2. CASE PollIdle
  BY <1>0, <1>2 DEF PollIdle, vars
<1>3. ASSUME NEW p \in Partitions, PollOrder(p) PROVE TypeOK'
  BY <1>0, <1>3, FetchTypes DEF PollOrder
<1>4. ASSUME NEW p \in Partitions, PollTombstone(p) PROVE TypeOK'
  BY <1>0, <1>4, FetchTypes DEF PollTombstone
<1>5. ASSUME NEW p \in Partitions, PollUndecodable(p) PROVE TypeOK'
  BY <1>0, <1>5, FetchTypes DEF PollUndecodable, LeaveTry
<1>6. CASE AttemptSucceeds
  <2>1. current \in Record
    BY <1>6 DEF AttemptSucceeds, InHand
  <2>2. seen' \in [OrderIds -> Nat]
    BY <1>6, SeenTypes DEF AttemptSucceeds
  <2>. QED  BY <1>0, <1>6, <2>1, <2>2 DEF AttemptSucceeds
<1>7. CASE AttemptRaises
  <2>1. seen' \in [OrderIds -> Nat]
    BY <1>7, SeenTypes DEF AttemptRaises
  <2>. QED  BY <1>0, <1>7, <2>1 DEF AttemptRaises
<1>8. CASE BackoffEnds
  BY <1>0, <1>8 DEF BackoffEnds
<1>9. CASE CountProcessed
  BY <1>0, <1>9 DEF CountProcessed
<1>10. CASE RouteToDlq
  <2>1. current \in Record
    BY <1>10 DEF RouteToDlq, Decided, InHand
  <2>2. outbox' \in SUBSET Report
    BY <1>10, <2>1, ReportTypes DEF RouteToDlq
  <2>3. IsFiniteSet(outbox')
    BY <1>10, FS_Difference, FS_AddElement DEF RouteToDlq
  <2>. QED  BY <1>0, <1>10, <2>1, <2>2, <2>3 DEF RouteToDlq
<1>11. CASE RouteToDlqRaises
  BY <1>0, <1>11 DEF RouteToDlqRaises, LeaveTry
<1>12. CASE Commit
  BY <1>0, <1>12 DEF Commit
<1>13. CASE CommitFails
  BY <1>0, <1>13 DEF CommitFails, LeaveTry, Fault
<1>14. CASE LeaveLoop
  BY <1>0, <1>14 DEF LeaveLoop, LeaveTry
<1>15. CASE FlushCompletes
  BY <1>0, <1>15, FS_EmptySet DEF FlushCompletes
<1>16. CASE Close
  BY <1>0, <1>16, FS_EmptySet DEF Close
<1>17. CASE PollFails
  BY <1>0, <1>17 DEF PollFails, LeaveTry, Fault
<1>18. CASE Signal
  <2>0. faults' \in Nat
    BY <1>18 DEF Signal, Fault
  <2>1. running' \in BOOLEAN
    BY <1>18, Zenon DEF Signal
  <2>2. UNCHANGED <<brokerVars, phase, position, current, exit, outstanding, workVars,
                    counterVars, dlqVars, resumed, handled>>
    BY <1>18 DEF Signal
  <2>. QED  BY <1>0, <2>0, <2>1, <2>2
<1>19. CASE Interrupt
  BY <1>0, <1>19 DEF Interrupt, LeaveTry, Fault
<1>20. CASE FlushTimesOut
  <2>1. IsFiniteSet(outbox \ answered)
    BY FS_Difference
  <2>. QED  BY <1>0, <1>20, <2>1, FS_CardinalityType DEF FlushTimesOut, Fault
<1>21. CASE Crash
  BY <1>0, <1>21, FS_EmptySet DEF Crash, Fault
<1>22. ASSUME NEW r \in InFlight, DlqDelivered(r) PROVE TypeOK'
  BY <1>0, <1>22 DEF DlqDelivered, InFlight
<1>23. ASSUME NEW r \in InFlight, DlqRejected(r) PROVE TypeOK'
  <2>1. r.origin \in Record
    BY DEF Report, Record, InFlight
  <2>. QED  BY <1>0, <1>23, <2>1 DEF DlqRejected, InFlight, Fault
<1>24. CASE UNCHANGED vars
  BY <1>0, <1>24 DEF vars
<1>25. CASE InterruptBeforeProduce
  BY <1>0, <1>25 DEF InterruptBeforeProduce, LeaveTry, Fault
<1>26. CASE InterruptAfterProduce
  <2>1. current \in Record
    BY <1>26 DEF InterruptAfterProduce, Decided, InHand
  <2>2. outbox' \in SUBSET Report
    BY <1>26, <2>1, ReportTypes DEF InterruptAfterProduce
  <2>3. IsFiniteSet(outbox')
    BY <1>26, FS_Difference, FS_AddElement DEF InterruptAfterProduce
  <2>. QED  BY <1>0, <1>26, <2>1, <2>2, <2>3 DEF InterruptAfterProduce, LeaveTry, Fault
<1>. QED
  BY <1>1, <1>2, <1>3, <1>4, <1>5, <1>6, <1>7, <1>8, <1>9, <1>10, <1>11, <1>12, <1>13,
     <1>14, <1>15, <1>16, <1>17, <1>18, <1>19, <1>20, <1>21, <1>22, <1>23, <1>24, <1>25,
     <1>26
  DEF Next, PollRecord, Work, Shutdown, Faults

-----------------------------------------------------------------------------
\* The steps that leave the loop, or go on outside it, and count nothing.
Outside ==
  /\ phase' \notin {"poll", "work", "commit"}
  /\ UNCHANGED <<topic, committed, position, current, handled, resumed, workVars,
                 counterVars, routed>>

\* publish() ends before its produce(): the order is counted as failed, no more.
PublishFails == RouteToDlqRaises \/ InterruptBeforeProduce

\* The steps that touch nothing the loop looks at.
Aside ==
  UNCHANGED <<topic, committed, position, current, handled, phase, retryVars, workVars,
              counterVars, routed, resumed>>

LEMMA StepKinds ==
  [Next]_vars =>
    \/ Start
    \/ \E p \in Partitions : PollOrder(p) \/ PollTombstone(p) \/ PollUndecodable(p)
    \/ AttemptSucceeds \/ AttemptRaises \/ BackoffEnds
    \/ CountProcessed \/ RouteToDlq
    \/ Commit \/ CommitFails
    \/ PublishFails \/ InterruptAfterProduce
    \/ Outside
    \/ Aside
<1>. SUFFICES ASSUME Next
              PROVE  \/ Start \/ PollRecord \/ Work \/ Commit \/ CommitFails
                     \/ PublishFails \/ InterruptAfterProduce
                     \/ Outside \/ Aside
  <2>1. UNCHANGED vars => Aside
    BY DEF vars, brokerVars, loopVars, dlqVars, Aside
  <2>. QED  BY <2>1 DEF PollRecord, Work, PublishFails
<1>1. PollFails \/ Interrupt \/ FlushTimesOut \/ Crash => Outside
  BY DEF PollFails, Interrupt, FlushTimesOut, Crash, LeaveTry, Outside, brokerVars,
         dlqVars
<1>2. Shutdown => Outside
  BY DEF Shutdown, LeaveLoop, FlushCompletes, Close, LeaveTry, Outside, brokerVars,
         dlqVars
<1>3. PollIdle \/ Signal => Aside
  BY DEF PollIdle, Signal, Aside, vars, brokerVars, loopVars, dlqVars
<1>4. \A r \in InFlight : DlqDelivered(r) \/ DlqRejected(r) => Aside
  BY DEF DlqDelivered, DlqRejected, Aside, brokerVars, loopVars
<1>. QED  BY <1>1, <1>2, <1>3, <1>4 DEF Next, Faults, PublishFails

\* Loop is inductive: with the types and the retry invariant, what InHand says of
\* the message in hand is kept, and every record the commit passes was handled.
Loop == InHand /\ RedeliveryWindow /\ NoRecordSkipped

Inv == TypeOK /\ RetryInv /\ Loop

LEMMA LoopInit == Init => Loop
BY DEF Init, Loop, InHand, RedeliveryWindow, NoRecordSkipped

\* A step that moves neither position nor committed offset and forgets nothing
\* that was handled keeps two of the three parts.
LEMMA OffsetsUnmoved ==
  ASSUME Loop, UNCHANGED <<committed, position>>, handled \subseteq handled'
  PROVE  RedeliveryWindow' /\ NoRecordSkipped'
BY DEF Loop, RedeliveryWindow, NoRecordSkipped

\* The step of poll(): one record of one partition is read and not committed.
LEMMA OneRead ==
  ASSUME Inv, NEW p \in Partitions, Fetch(p), UNCHANGED <<topic, committed>>,
         handled \subseteq handled'
  PROVE  /\ NextOrigin(p) = <<p, committed[p]>>
         /\ committed[p] \in Nat /\ committed[p] < Len(topic[p])
         /\ position' = [committed EXCEPT ![p] = @ + 1]
         /\ RedeliveryWindow' /\ NoRecordSkipped'
<1>1. position = committed
  BY DEF Inv, Loop, InHand, Fetch
<1>2. /\ NextOrigin(p) = <<p, committed[p]>>
      /\ committed \in [Partitions -> Nat] /\ committed[p] < Len(topic[p])
      /\ position' = [committed EXCEPT ![p] = @ + 1]
  BY <1>1 DEF Fetch, NextOrigin, Inv, TypeOK
<1>3. RedeliveryWindow'
  BY <1>2 DEF RedeliveryWindow
<1>4. NoRecordSkipped'
  BY DEF Inv, Loop, NoRecordSkipped
<1>. QED  BY <1>2, <1>3, <1>4

\* Moving the committed offsets up to the position passes the message in hand
\* and nothing else.
LEMMA OneCommitted ==
  ASSUME Inv, phase = "commit", committed' = position, UNCHANGED <<topic, position, handled>>
  PROVE  RedeliveryWindow' /\ NoRecordSkipped'
<1>1. /\ position \in [Partitions -> Nat] /\ committed \in [Partitions -> Nat]
      /\ current = <<current[1], committed[current[1]]>> /\ current[1] \in Partitions
      /\ current \in handled
      /\ position = [committed EXCEPT ![current[1]] = @ + 1]
  BY DEF Inv, TypeOK, Loop, InHand, Record
<1>2. RedeliveryWindow'
  BY <1>1 DEF RedeliveryWindow
<1>3. ASSUME NEW p \in Partitions, NEW o \in 0 .. position[p] - 1
      PROVE  <<p, o>> \in handled
  <2>1. CASE o < committed[p]
    BY <2>1, <1>1 DEF Inv, Loop, NoRecordSkipped
  <2>2. CASE o >= committed[p]
    <3>1. p = current[1] /\ o = committed[p]
      BY <2>2, <1>1
    <3>. QED  BY <3>1, <1>1
  <2>. QED  BY <2>1, <2>2, <1>1
<1>4. NoRecordSkipped'
  BY <1>3 DEF NoRecordSkipped
<1>. QED  BY <1>2, <1>4

LEMMA LoopStep == Inv /\ [Next]_vars => Loop'
<1>. SUFFICES ASSUME Inv, [Next]_vars PROVE Loop'
  OBVIOUS
<1>. USE DEF brokerVars, loopVars, workVars, counterVars, dlqVars
<1>1. CASE Start
  <2>1. RedeliveryWindow'
    BY <1>1 DEF Start, RedeliveryWindow, Inv, TypeOK
  <2>2. NoRecordSkipped'
    BY <1>1 DEF Start, NoRecordSkipped, Inv, Loop
  <2>3. InHand'
    BY <1>1 DEF Start, InHand
  <2>. QED  BY <2>1, <2>2, <2>3 DEF Loop
<1>2. ASSUME NEW p \in Partitions, PollOrder(p) PROVE Loop'
  <2>1. retryState' # "done" \/ ~outcome'.succeeded
    BY <1>2 DEF PollOrder, Execute, Failure
  <2>2. RecordAt(current)' \in Order
    BY <1>2 DEF PollOrder, RecordAt
  <2>3. InHand'
    BY <1>2, <2>1, <2>2, OneRead DEF PollOrder, InHand, Record
  <2>. QED  BY <1>2, <2>3, OneRead DEF PollOrder, Loop
<1>3. ASSUME NEW p \in Partitions, PollTombstone(p) PROVE Loop'
  <2>1. InHand'
    BY <1>3, OneRead DEF PollTombstone, InHand, Record
  <2>. QED  BY <1>3, <2>1, OneRead DEF PollTombstone, Loop
<1>4. ASSUME NEW p \in Partitions, PollUndecodable(p) PROVE Loop'
  <2>1. InHand'
    BY <1>4 DEF PollUndecodable, LeaveTry, InHand
  <2>. QED  BY <1>4, <2>1, OneRead DEF PollUndecodable, Loop
<1>5. CASE AttemptSucceeds
  <2>1. InHand'
    BY <1>5 DEF AttemptSucceeds, Inv, Loop, InHand, RecordAt
  <2>. QED  BY <1>5, <2>1, OffsetsUnmoved DEF AttemptSucceeds, Loop, Inv
<1>6. CASE AttemptRaises
  <2>1. retryState' # "done" \/ ~outcome'.succeeded
    BY <1>6 DEF AttemptRaises, CallRaises, Failure
  <2>2. InHand'
    BY <1>6, <2>1 DEF AttemptRaises, Inv, Loop, InHand, RecordAt
  <2>. QED  BY <1>6, <2>2, OffsetsUnmoved DEF AttemptRaises, Loop, Inv
<1>7. CASE BackoffEnds
  <2>1. InHand'
    BY <1>7 DEF BackoffEnds, SleepEnds, Inv, Loop, InHand, RecordAt
  <2>. QED  BY <1>7, <2>1, OffsetsUnmoved DEF BackoffEnds, Loop, Inv
<1>8. CASE CountProcessed
  <2>1. InHand'
    BY <1>8 DEF CountProcessed, Decided, Inv, Loop, InHand
  <2>. QED  BY <1>8, <2>1, OffsetsUnmoved DEF CountProcessed, Loop, Inv
<1>9. CASE RouteToDlq
  <2>1. InHand'
    BY <1>9 DEF RouteToDlq, Decided, Inv, Loop, InHand
  <2>. QED  BY <1>9, <2>1, OffsetsUnmoved DEF RouteToDlq, Loop, Inv
<1>10. CASE Commit
  <2>1. InHand'
    BY <1>10 DEF Commit, InHand
  <2>. QED  BY <1>10, <2>1, OneCommitted DEF Commit, Loop
<1>11. CASE CommitFails
  <2>1. InHand'
    BY <1>11 DEF CommitFails, LeaveTry, InHand
  <2>2. CASE committed' = committed
    BY <1>11, <2>1, <2>2, OffsetsUnmoved DEF CommitFails, Loop, Inv
  <2>3. CASE committed' = position
    BY <1>11, <2>1, <2>3, OneCommitted DEF CommitFails, Loop
  <2>. QED  BY <1>11, <2>2, <2>3 DEF CommitFails
<1>12. CASE Outside
  <2>1. InHand'
    BY <1>12 DEF Outside, InHand
  <2>. QED  BY <1>12, <2>1, OffsetsUnmoved DEF Outside, Loop, Inv
<1>13. CASE Aside
  <2>1. InHand'
    BY <1>13 DEF Aside, retryVars, Inv, Loop, InHand, RecordAt
  <2>. QED  BY <1>13, <2>1, OffsetsUnmoved DEF Aside, Loop, Inv
<1>14. CASE PublishFails
  <2>. USE DEF PublishFails, RouteToDlqRaises, InterruptBeforeProduce
  <2>1. InHand'
    BY <1>14 DEF LeaveTry, InHand
  <2>. QED  BY <1>14, <2>1, OffsetsUnmoved DEF Loop, Inv
<1>15. CASE InterruptAfterProduce
  <2>1. InHand'
    BY <1>15 DEF InterruptAfterProduce, LeaveTry, InHand
  <2>. QED  BY <1>15, <2>1, OffsetsUnmoved DEF InterruptAfterProduce, Loop, Inv
<1>. QED
  BY StepKinds, <1>1, <1>2, <1>3, <1>4, <1>5, <1>6, <1>7, <1>8, <1>9, <1>10, <1>11,
     <1>12, <1>13, <1>14, <1>15

-----------------------------------------------------------------------------
THEOREM Invariance == Spec => []Inv
<1>1. Init => Inv
  BY TypeInit, RetryInitInv, LoopInit DEF Init, Inv
<1>2. Inv /\ [Next]_vars => Inv'
  BY RetryStep, TypeStep, LoopStep DEF Inv, Loop
<1>. QED  BY <1>1, <1>2, PTL DEF Spec

\* Every variable of the consumer, the broker and the retry policy keeps its type.
THEOREM TypeCorrect == Spec => []TypeOK
<1>1. Inv => TypeOK
  BY DEF Inv
<1>. QED  BY Invariance, <1>1, PTL

\* At-least-once: for any number of partitions, records, crashes, failing commits
\* and signals, nothing is committed that was not handled (consumer.py:66-71).
THEOREM AtLeastOnce == Spec => []NoRecordSkipped
<1>1. Inv => NoRecordSkipped
  BY DEF Inv, Loop
<1>. QED  BY Invariance, <1>1, PTL

\* Wherever the process dies, one record at most is read again
\* (consumer.py:142-146 and 229).
THEOREM OneRedelivery == Spec => []RedeliveryWindow
<1>1. Inv => RedeliveryWindow
  BY DEF Inv, Loop
<1>. QED  BY Invariance, <1>1, PTL

\* What the loop knows of the message in hand at each of its points.
THEOREM MessageInHand == Spec => []InHand
<1>1. Inv => InHand
  BY DEF Inv, Loop
<1>. QED  BY Invariance, <1>1, PTL

\* The retry policy is used as it is meant to be: its budget holds for every
\* message the consumer processes (consumer.py:168).
THEOREM ConsumerKeepsBudget == Spec => []RetryBudget
<1>1. Inv => RetryBudget
  BY DEF Inv, RetryInv
<1>. QED  BY Invariance, <1>1, PTL

-----------------------------------------------------------------------------
\* The two steps that write the committed offsets write the position.
LEMMA CommittedMoves ==
  [Next]_vars => \/ UNCHANGED committed
                 \/ (Commit \/ CommitFails) /\ committed' = position /\ phase = "commit"
<1>. SUFFICES ASSUME [Next]_vars, ~UNCHANGED committed
              PROVE  (Commit \/ CommitFails) /\ committed' = position /\ phase = "commit"
  OBVIOUS
<1>1. Commit \/ CommitFails
  BY StepKinds DEF Start, PollOrder, PollTombstone, PollUndecodable, AttemptSucceeds,
     AttemptRaises, BackoffEnds, CountProcessed, RouteToDlq, PublishFails,
     RouteToDlqRaises, InterruptBeforeProduce, InterruptAfterProduce, Outside, Aside, brokerVars
<1>. QED  BY <1>1 DEF Commit, CommitFails

\* A committed offset never moves back and never jumps, restarts included
\* (consumer.py:229 with enable.auto.commit off, 71).
THEOREM CommittedOffsetsMonotone == Spec => CommittedMonotone
<1>1. ASSUME Inv, [Next]_vars
      PROVE  [\A p \in Partitions : committed'[p] - committed[p] \in {0, 1}]_committed
  BY <1>1, CommittedMoves DEF Inv, Loop, RedeliveryWindow
<1>. QED  BY Invariance, <1>1, PTL DEF Spec, CommittedMonotone

-----------------------------------------------------------------------------
\* After Ctrl+C: the loop is only left by its condition, between two messages.
StopInv == (InLoop => exit = "none") /\ GracefulStop

LEMMA StopStep == Inv /\ StopInv /\ [Next]_vars => StopInv'
<1>. SUFFICES ASSUME Inv, StopInv, [Next]_vars PROVE StopInv'
  OBVIOUS
<1>. USE DEF StopInv, GracefulStop, InLoop, brokerVars, loopVars
<1>1. CASE Start
  BY <1>1 DEF Start, FreshMemory
<1>2. CASE PollRecord
  BY <1>2 DEF PollRecord, PollOrder, PollTombstone, PollUndecodable, Fetch, LeaveTry
<1>3. CASE Work
  BY <1>3 DEF Work, AttemptSucceeds, AttemptRaises, BackoffEnds, CountProcessed,
              RouteToDlq, RouteToDlqRaises, Decided, LeaveTry
<1>4. CASE Commit \/ CommitFails
  BY <1>4 DEF Commit, CommitFails, LeaveTry
<1>5. CASE LeaveLoop
  BY <1>5 DEF LeaveLoop, LeaveTry, Inv, Loop, InHand
<1>6. CASE FlushCompletes \/ FlushTimesOut \/ Close \/ Crash
  BY <1>6 DEF FlushCompletes, FlushTimesOut, Close, Crash
<1>7. CASE PollFails \/ Interrupt \/ InterruptBeforeProduce \/ InterruptAfterProduce
  BY <1>7 DEF PollFails, Interrupt, InterruptBeforeProduce, InterruptAfterProduce, LeaveTry
<1>8. CASE PollIdle \/ Signal \/ UNCHANGED vars
  BY <1>8 DEF PollIdle, Signal, vars
<1>9. ASSUME NEW r \in InFlight, DlqDelivered(r) \/ DlqRejected(r) PROVE StopInv'
  BY <1>9 DEF DlqDelivered, DlqRejected
<1>. QED
  BY <1>1, <1>2, <1>3, <1>4, <1>5, <1>6, <1>7, <1>8, <1>9 DEF Next, Shutdown, Faults

\* A process stopped with Ctrl+C leaves nothing uncommitted
\* (consumer.py:108-118, README.md:121-122).
THEOREM StopsGracefully == Spec => []GracefulStop
<1>1. Init => StopInv
  BY DEF Init, StopInv, InLoop, GracefulStop
<1>2. StopInv => GracefulStop
  BY DEF StopInv
<1>. QED  BY Invariance, <1>1, StopStep, <1>2, PTL DEF Spec

-----------------------------------------------------------------------------
\* Refinement: handling the message in hand is Handle, moving the committed
\* offsets is Acknowledge, all the rest is invisible.
LEMMA HandleStep ==
  ASSUME Inv, NEW p \in Partitions, committed[p] < Len(topic[p]),
         handled' = handled \cup {<<p, committed[p]>>}, UNCHANGED <<topic, committed>>
  PROVE  Delivery!DeliveryNext
BY DEF Delivery!DeliveryNext, Delivery!Handle

LEMMA HandleInHand ==
  ASSUME Inv, phase = "work", handled' = handled \cup {current},
         UNCHANGED <<topic, committed>>
  PROVE  Delivery!DeliveryNext
<1>1. /\ current[1] \in Partitions /\ current = <<current[1], committed[current[1]]>>
      /\ committed[current[1]] < Len(topic[current[1]])
  BY DEF Inv, Loop, InHand, Record
<1>. QED  BY <1>1, HandleStep

LEMMA AcknowledgeStep ==
  ASSUME Inv, phase = "commit", committed' = position, UNCHANGED <<topic, handled>>
  PROVE  Delivery!DeliveryNext
<1>1. /\ current[1] \in Partitions /\ current = <<current[1], committed[current[1]]>>
      /\ committed[current[1]] < Len(topic[current[1]]) /\ current \in handled
      /\ committed' = [committed EXCEPT ![current[1]] = @ + 1]
  BY DEF Inv, Loop, InHand, Record
<1>2. Delivery!Acknowledge(current[1])
  BY <1>1 DEF Delivery!Acknowledge
<1>. QED  BY <1>1, <1>2 DEF Delivery!DeliveryNext

LEMMA DeliveryStep ==
  Inv /\ [Next]_vars => [Delivery!DeliveryNext]_(Delivery!deliveryVars)
<1>. SUFFICES ASSUME Inv, [Next]_vars
              PROVE  Delivery!DeliveryNext \/ UNCHANGED <<topic, committed, handled>>
  BY DEF Delivery!deliveryVars
<1>. USE DEF brokerVars
<1>1. CASE AttemptSucceeds
  BY <1>1, HandleInHand DEF AttemptSucceeds
<1>2. CASE RouteToDlq \/ InterruptAfterProduce
  BY <1>2, HandleInHand DEF RouteToDlq, InterruptAfterProduce, Decided
<1>3. ASSUME NEW p \in Partitions, PollTombstone(p)
      PROVE  Delivery!DeliveryNext
  <2>1. NextOrigin(p) = <<p, committed[p]>> /\ committed[p] < Len(topic[p])
    BY <1>3, OneRead DEF PollTombstone
  <2>. QED  BY <1>3, <2>1, HandleStep DEF PollTombstone
<1>4. CASE Commit
  BY <1>4, AcknowledgeStep DEF Commit
<1>5. CASE CommitFails
  BY <1>5, AcknowledgeStep DEF CommitFails
<1>6. ASSUME NEW p \in Partitions, PollOrder(p) \/ PollUndecodable(p)
      PROVE  UNCHANGED <<topic, committed, handled>>
  BY <1>6 DEF PollOrder, PollUndecodable
<1>7. CASE \/ Start \/ AttemptRaises \/ BackoffEnds \/ CountProcessed
           \/ PublishFails
  BY <1>7 DEF Start, AttemptRaises, BackoffEnds, CountProcessed, PublishFails,
              RouteToDlqRaises, InterruptBeforeProduce
<1>8. CASE Outside \/ Aside
  BY <1>8 DEF Outside, Aside
<1>. QED  BY StepKinds, <1>1, <1>2, <1>3, <1>4, <1>5, <1>6, <1>7, <1>8

\* Seen from the retry policy, the consumer is one user of it: it calls execute(),
\* answers with what process() did, and starts over with a process
\* (consumer.py:102 and 168), and no other step of it, crash, signal or shutdown
\* touches what the policy remembers.
THEOREM ConsumerUsesRetryPolicy == Spec => RetryInit /\ [][RetryUse]_retryVars
<1>1. Init => RetryInit
  BY DEF Init
<1>. QED  BY <1>1, RetryUsed, PTL DEF Spec

\* The consumer, with its restarts, retries, dead letters and shutdowns,
\* implements in-order at-least-once handling of every partition.
THEOREM RefinesDelivery == Spec => ImplementsDelivery
<1>1. Init => Delivery!DeliveryInit
  BY DEF Init, Delivery!DeliveryInit
<1>. QED  BY Invariance, <1>1, DeliveryStep, PTL
          DEF Spec, ImplementsDelivery, Delivery!DeliverySpec
=============================================================================
