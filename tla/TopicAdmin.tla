----------------------------- MODULE TopicAdmin -----------------------------
(***************************************************************************)
(* Runs of tools/create_topics.py, several of them at a time.  A run sends *)
(* one request for its two topics, which the broker answers topic by       *)
(* topic, waits for both answers and then lists the topics.                *)
(***************************************************************************)
EXTENDS Cluster

CONSTANT AdminRuns

\* The two settings name two topics, which nothing in the code checks.
ASSUME DistinctTopics == \A s \in Resolved : s.orders_topic # s.dlq_topic

VARIABLES
  adminPhase,      \* where main() of the run is
  adminSettings,   \* the settings it was started with
  answer,          \* how the future of each of its topics is resolved
  exit_code,       \* what it returns, or is going to
  disturbed        \* history: the runs that had a fault

adminVars == <<adminPhase, adminSettings, answer, exit_code, disturbed>>

\* Mutant of NumPartitions: only the dead letter queue's topic is asked for.
NumPartitionsDlqOnly == [dlq_topic |-> 1]

\* settings.orders_partitions and settings.dlq_partitions.
NumPartitions == [orders_topic |-> 3, dlq_topic |-> 1]

Requests == DOMAIN NumPartitions
NameOf(a, t) == adminSettings[a][t]

NoAnswers == [t \in Requests |-> "pending"]

AdminInit ==
  /\ adminPhase = [a \in AdminRuns |-> "new"]
  /\ adminSettings = [a \in AdminRuns |-> CHOOSE s \in Resolved : TRUE]
  /\ answer = [a \in AdminRuns |-> NoAnswers]
  /\ exit_code = [a \in AdminRuns |-> 0]
  /\ disturbed = {}

\* The run ends, and its futures with it.
AdminOver(a, code) ==
  /\ adminPhase' = [adminPhase EXCEPT ![a] = "over"]
  /\ exit_code' = [exit_code EXCEPT ![a] = code]
  /\ answer' = [answer EXCEPT ![a] = NoAnswers]

\* The module is imported, which resolves the settings, and main() sends the
\* request.
AdminStart(a, s) ==
  /\ adminPhase[a] = "new"
  /\ Complete(s)
  /\ adminSettings' = [adminSettings EXCEPT ![a] = s]
  /\ adminPhase' = [adminPhase EXCEPT ![a] = "waiting"]
  /\ UNCHANGED <<partitions, faults, answer, exit_code, disturbed>>

\* An empty setting: the import raises ValueError.
AdminRefuses(a, s) ==
  /\ adminPhase[a] = "new"
  /\ ~Complete(s)
  /\ adminSettings' = [adminSettings EXCEPT ![a] = s]
  /\ AdminOver(a, 1)
  /\ UNCHANGED <<partitions, faults, disturbed>>

Pending(a, t) == adminPhase[a] = "waiting" /\ answer[a][t] = "pending"

\* The cluster with these topics of a run created, unless they were there.
Created(a, topics) ==
  [n \in TopicNames |->
     LET asked == {t \in topics : NameOf(a, t) = n}
     IN  IF asked = {} \/ Exists(n) THEN partitions[n]
         ELSE NumPartitions[CHOOSE t \in asked : TRUE]]

\* The broker creates a topic, or answers TOPIC_ALREADY_EXISTS.
CreateTopic(a, t) ==
  /\ Pending(a, t)
  /\ answer' = [answer EXCEPT ![a][t] = IF Exists(NameOf(a, t)) THEN "exists" ELSE "created"]
  /\ partitions' = Created(a, {t})
  /\ UNCHANGED <<faults, adminPhase, adminSettings, exit_code, disturbed>>

\* The future raises something else: the broker refused, or did its part and the
\* answer was lost.
CreateFails(a, t) ==
  /\ Pending(a, t)
  /\ answer' = [answer EXCEPT ![a][t] = "failed"]
  /\ partitions' \in {partitions, Created(a, {t})}
  /\ disturbed' = disturbed \cup {a}
  /\ Fault
  /\ UNCHANGED <<adminPhase, adminSettings, exit_code>>

\* Mutant of Verdict: only the last future decides.
VerdictOfLast(a) == IF answer[a]["dlq_topic"] = "failed" THEN 1 ELSE 0

\* Mutant of Verdict: a topic that is there already is an error.
VerdictNewOnly(a) == IF \A t \in Requests : answer[a][t] = "created" THEN 0 ELSE 1

\* exit_code after the loop over the futures.
Verdict(a) == IF \E t \in Requests : answer[a][t] = "failed" THEN 1 ELSE 0

\* Both futures are resolved, list_topics returns, and so does main().
AdminReturns(a) ==
  /\ adminPhase[a] = "waiting"
  /\ \A t \in Requests : answer[a][t] # "pending"
  /\ AdminOver(a, Verdict(a))
  /\ UNCHANGED <<partitions, faults, adminSettings, disturbed>>

\* list_topics raises, which main() does not catch, or the run is killed, perhaps
\* with its requests on their way.
AdminFails(a) ==
  /\ adminPhase[a] = "waiting"
  /\ \E late \in SUBSET {t \in Requests : answer[a][t] = "pending"} :
       partitions' = Created(a, late)
  /\ AdminOver(a, 1)
  /\ disturbed' = disturbed \cup {a}
  /\ Fault
  /\ UNCHANGED adminSettings

AdminStep(a) ==
  \/ \E s \in Resolved : AdminStart(a, s) \/ AdminRefuses(a, s)
  \/ \E t \in Requests : CreateTopic(a, t) \/ CreateFails(a, t)
  \/ AdminReturns(a) \/ AdminFails(a)

AdminNext == \E a \in AdminRuns : AdminStep(a)
-----------------------------------------------------------------------------
AdminTypeOK ==
  /\ partitions \in [TopicNames -> Nat] /\ faults \in Nat
  /\ adminPhase \in [AdminRuns -> {"new", "waiting", "over"}]
  /\ adminSettings \in [AdminRuns -> Resolved]
  /\ answer \in [AdminRuns -> [Requests -> {"pending", "created", "exists", "failed"}]]
  /\ exit_code \in [AdminRuns -> {0, 1}]
  /\ disturbed \subseteq AdminRuns

\* A run that ends with 0 leaves both topics there, whichever of several runs
\* created them and in whatever order the broker answered (create_topics.py:44-58).
AdminSuccessMeansTopics ==
  \A a \in AdminRuns : adminPhase[a] = "over" /\ exit_code[a] = 0 =>
    \A t \in Requests : Exists(NameOf(a, t))

\* "Idempotent: safe to re-run" (create_topics.py:1): a run that nothing disturbed
\* and whose settings are complete ends with 0, with other runs before it, after a
\* run that was killed half way, and at the same time.
AdminIdempotent ==
  \A a \in AdminRuns \ disturbed :
    adminPhase[a] = "over" /\ Complete(adminSettings[a]) => exit_code[a] = 0
=============================================================================
