------------------------------- MODULE Cluster -------------------------------
(***************************************************************************)
(* What the programs of the pipeline have in common: the settings each of  *)
(* them resolves for itself when it is started (common/config.py), and the *)
(* topics that exist at the broker, where auto-creation is off.  Of the    *)
(* settings, the two topic names are kept.                                 *)
(***************************************************************************)
EXTENDS Integers

CONSTANTS
  TopicNames,   \* the names a setting may have
  Shells,       \* what may be exported in the shell a program is started from
  DotEnvs,      \* what may be in the file .env at that time
  Unset,        \* a variable that is not there
  MaxFaults     \* bound on the faults of the environment

Variables == {"ORDERS_TOPIC", "DLQ_TOPIC"}
Environments == [Variables -> TopicNames \cup {"", Unset}]

ASSUME ClusterAssumption ==
  /\ {"orders", "orders.DLQ"} \subseteq TopicNames
  /\ "" \notin TopicNames /\ Unset \notin TopicNames
  /\ Shells \subseteq Environments /\ Shells # {}
  /\ DotEnvs \subseteq Environments /\ DotEnvs # {}
  /\ MaxFaults \in Nat

VARIABLES
  partitions,   \* per topic name, its number of partitions; 0 is no such topic
  faults        \* faults so far

Exists(name) == partitions[name] # 0

\* A step of the environment that the bound on faults counts.
Fault ==
  /\ faults < MaxFaults
  /\ faults' = faults + 1

\* load_dotenv(override=False): a variable of the shell wins, an empty one too.
load_dotenv(shell, dotenv) ==
  [v \in Variables |-> IF shell[v] # Unset THEN shell[v] ELSE dotenv[v]]

\* _require, without the check that follows it: the default is for a missing
\* variable only.
Require(environ, v, default) == IF environ[v] = Unset THEN default ELSE environ[v]

\* Settings.from_env, on the environment load_dotenv leaves.
from_env(environ) ==
  [orders_topic |-> Require(environ, "ORDERS_TOPIC", "orders"),
   dlq_topic    |-> Require(environ, "DLQ_TOPIC", "orders.DLQ")]

\* No value is empty, so that the import of common.config does not raise.
Complete(settings) == settings.orders_topic # "" /\ settings.dlq_topic # ""

Settings == [orders_topic : TopicNames, dlq_topic : TopicNames]

\* What the settings of a program started now can be, before the check.
Resolved == {from_env(load_dotenv(s, d)) : s \in Shells, d \in DotEnvs}
=============================================================================
