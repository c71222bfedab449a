------------------------------- MODULE Intake -------------------------------
(***************************************************************************)
(* create_topics and the producer against one broker: who needs a topic    *)
(* and who makes it, with settings each run resolves for itself.           *)
(***************************************************************************)
EXTENDS TopicAdmin, OrderProducer

CONSTANTS
  KnownTopics,   \* what the cluster may hold at first
  MaxStarts      \* bound on the programs started in a behaviour

ASSUME IntakeAssumption == KnownTopics \subseteq [TopicNames -> Nat]

VARIABLE prepared   \* history: create_topics had ended with 0 for the topic of the
                    \* producer's run when that run was started

vars == <<partitions, faults, adminVars, producerVars, prepared>>

\* create_topics ended with 0 for this topic.
CreatedFor(name) ==
  \E a \in AdminRuns :
    adminPhase[a] = "over" /\ exit_code[a] = 0 /\ adminSettings[a].orders_topic = name

Init ==
  /\ partitions \in KnownTopics
  /\ faults = 0
  /\ AdminInit
  /\ ProducerInit
  /\ prepared = FALSE

Starts == run + Cardinality({a \in AdminRuns : adminPhase[a] # "new"})

Next ==
  /\ \/ AdminNext /\ UNCHANGED producerVars
     \/ ProducerNext /\ UNCHANGED adminVars
  /\ prepared' = IF run' = run THEN prepared ELSE CreatedFor(orders_topic')
  /\ Starts' <= MaxStarts

Spec == Init /\ [][Next]_vars

\* The calls the producer makes return: produce and poll at once, flush after
\* its timeout at the latest.  No fairness for the broker or the client's thread.
FairSpec == Spec /\ WF_vars(ProducerStep /\ UNCHANGED <<adminVars, prepared>>)
-----------------------------------------------------------------------------
TypeOK == AdminTypeOK /\ ProducerTypeOK /\ prepared \in BOOLEAN

\* With auto-creation off, create_topics is what makes the producer's topic exist
\* (create_topics.py:5-9).  A producer started after it ended with 0 under the same
\* settings gives no order up but for a fault of the broker, although its client
\* decides from metadata it has cached.  For one that was running before, this would
\* be false: its client can believe that the topic is missing and give an order up
\* just after create_topics has ended.
NoneUnknownAfterCreate ==
  [][run' = run /\ given_up' # given_up /\ prepared => faults' # faults]_vars
=============================================================================
