---------------------------- MODULE ConsumerGroup ----------------------------
(***************************************************************************)
(* Several consumers (main() of consumer/consumer.py) in one group, with   *)
(* the group coordinator.  A member learns of a rebalance only in poll():  *)
(* the client serves its rebalance callback there.  The coordinator waits  *)
(* for every member to get there, and expels one that takes too long, as   *)
(* the backoffs of a large --max-attempts do.  An expelled member does not *)
(* know it.  It may still be handed a record its client had fetched, and   *)
(* what stops it is that the coordinator refuses its commit.               *)
(*                                                                         *)
(* What a member does between poll and commit is one step here; see        *)
(* OrderConsumer for its parts.  Records are decodable.                    *)
(***************************************************************************)
EXTENDS Integers, Sequences

CONSTANTS
  Members,
  Partitions,
  Topics,       \* the contents of the orders topic to consider
  NoMessage,
  MaxFaults     \* bound on expulsions, failed commits and ended processes

ASSUME GroupAssumption ==
  /\ \A t \in Topics : DOMAIN t = Partitions /\ \A p \in Partitions : Len(t[p]) \in Nat
  /\ MaxFaults \in Nat

VARIABLES
  \* the broker
  topic,        \* the orders topic
  committed,    \* per partition, the group's committed offset
  generation,   \* the generation of the group
  \* per member
  phase,        \* where its main() is
  joined,       \* the generation it was last assigned partitions in; 0 is none
  held,         \* the partitions its client believes it has
  position,     \* per partition, the offset its next poll delivers
  current,      \* the origin of its message in hand
  \* history
  handled,      \* origins handled at least once
  faults        \* faults so far

brokerVars == <<topic, committed, generation>>
memberVars == <<phase, joined, held, position, current>>
vars == <<brokerVars, memberVars, handled, faults>>

Up(m) == phase[m] # "down"
Valid(m) == joined[m] = generation   \* the coordinator takes its commits

Fault ==
  /\ faults < MaxFaults
  /\ faults' = faults + 1

Goes(m, to) == phase' = [phase EXCEPT ![m] = to]
-----------------------------------------------------------------------------
Init ==
  /\ topic \in Topics
  /\ committed = [p \in Partitions |-> 0]
  /\ generation = 1
  /\ phase = [m \in Members |-> "down"]
  /\ joined = [m \in Members |-> 0]
  /\ held = [m \in Members |-> {}]
  /\ position = [m \in Members |-> committed]
  /\ current = [m \in Members |-> NoMessage]
  /\ handled = {}
  /\ faults = 0

\* A consumer is started and subscribes.
Start(m) ==
  /\ phase[m] = "down"
  /\ Goes(m, "poll")
  /\ UNCHANGED <<brokerVars, joined, held, position, current, handled, faults>>

\* A member is gone, by a signal, an error or a crash.
Gone(m) ==
  /\ Goes(m, "down")
  /\ joined' = [joined EXCEPT ![m] = 0]
  /\ held' = [held EXCEPT ![m] = {}]
  /\ UNCHANGED <<position, current>>

Leave(m) ==
  /\ Up(m)
  /\ Gone(m)
  /\ Fault
  /\ UNCHANGED <<brokerVars, handled>>

-----------------------------------------------------------------------------
\* Somebody joined, or a partition has no member that reads it.
Unbalanced(S) ==
  \/ \E m \in S : ~Valid(m)
  \/ \E p \in Partitions : \A m \in Members : ~(Valid(m) /\ p \in held[m])

\* Mutant of Assigned: a client goes on where it was.
AssignedKeepingPosition(m) == position[m]

\* The positions of a member after an assignment: where the group is.
Assigned(m) == committed

\* The members in S, all of them in poll(), get the partitions in a new generation.
\* Those left out that had a part in the old one are expelled.
Rebalance(S) ==
  /\ S # {} /\ \A m \in S : phase[m] = "poll"
  /\ Unbalanced(S)
  /\ generation' = generation + 1
  /\ \E owner \in [Partitions -> S] :
       held' = [m \in Members |->
                  IF m \in S THEN {p \in Partitions : owner[p] = m} ELSE held[m]]
  /\ joined' = [m \in Members |-> IF m \in S THEN generation' ELSE joined[m]]
  /\ position' = [m \in Members |-> IF m \in S THEN Assigned(m) ELSE position[m]]
  /\ UNCHANGED <<topic, committed, phase, current, handled>>

Expelled(S) == {m \in Members : Valid(m)} \ S

\* Everybody came in time.
RebalanceInTime(S) == Rebalance(S) /\ Expelled(S) = {} /\ UNCHANGED faults

\* Somebody did not.
RebalanceExpels(S) == Rebalance(S) /\ Expelled(S) # {} /\ Fault

\* An expelled member learns that its partitions are lost, and will join again.
Revoked(m) ==
  /\ phase[m] = "poll" /\ ~Valid(m) /\ held[m] # {}
  /\ held' = [held EXCEPT ![m] = {}]
  /\ UNCHANGED <<brokerVars, phase, joined, position, current, handled, faults>>

\* Or poll() reports it, as an error that ends main(): the member was expelled for
\* max.poll.interval.ms.
PollRefused(m) ==
  /\ phase[m] = "poll" /\ ~Valid(m) /\ held[m] # {}
  /\ Gone(m)
  /\ UNCHANGED <<brokerVars, handled, faults>>

-----------------------------------------------------------------------------
\* poll() takes a record its client has fetched.
Fetch(m, p) ==
  /\ phase[m] = "poll" /\ p \in held[m]
  /\ position[m][p] < Len(topic[p])
  /\ position' = [position EXCEPT ![m][p] = @ + 1]
  /\ current' = [current EXCEPT ![m] = <<p, position[m][p]>>]
  /\ Goes(m, "work")

\* Mutant of Poll: enable.auto.commit, the position is committed as it moves.
PollAutoCommits(m, p) ==
  /\ Fetch(m, p)
  /\ committed' = IF Valid(m) THEN [committed EXCEPT ![p] = position[m][p] + 1] ELSE committed
  /\ UNCHANGED <<topic, generation, joined, held, handled, faults>>

\* poll() returns a record, also to a member that was expelled meanwhile.
Poll(m, p) ==
  /\ Fetch(m, p)
  /\ UNCHANGED <<brokerVars, joined, held, handled, faults>>

\* Mutant of Work: the loop continues without the commit.
WorkNoCommit(m) ==
  /\ phase[m] = "work"
  /\ handled' = handled \cup {current[m]}
  /\ Goes(m, "poll")
  /\ UNCHANGED <<brokerVars, joined, held, position, current, faults>>

\* The record is aggregated, skipped as a tombstone or dead-lettered, after any
\* number of attempts and backoffs.
Work(m) ==
  /\ phase[m] = "work"
  /\ handled' = handled \cup {current[m]}
  /\ Goes(m, "commit")
  /\ UNCHANGED <<brokerVars, joined, held, position, current, faults>>

\* The offsets as commit() without arguments of member m makes them.
CommittedBy(m) ==
  [p \in Partitions |-> IF p \in held[m] THEN position[m][p] ELSE committed[p]]

\* Mutant of Commit: partitions by assign() and not by subscribe(), for which the
\* coordinator does not look at the generation.
CommitUnfenced(m) ==
  /\ phase[m] = "commit"
  /\ committed' = CommittedBy(m)
  /\ Goes(m, "poll")
  /\ UNCHANGED <<topic, generation, joined, held, position, current, handled, faults>>

Commit(m) ==
  /\ phase[m] = "commit" /\ Valid(m)
  /\ committed' = CommittedBy(m)
  /\ Goes(m, "poll")
  /\ UNCHANGED <<topic, generation, joined, held, position, current, handled, faults>>

\* The commit of a valid member raises; the broker may have applied it.
CommitFails(m) ==
  /\ phase[m] = "commit" /\ Valid(m)
  /\ committed' \in {committed, CommittedBy(m)}
  /\ Gone(m)
  /\ Fault
  /\ UNCHANGED <<topic, generation, handled>>

\* Mutant of CommitRefused: the error is logged and the loop goes on.
CommitRefusedLogs(m) ==
  /\ phase[m] = "commit" /\ ~Valid(m)
  /\ Goes(m, "poll")
  /\ UNCHANGED <<brokerVars, joined, held, position, current, handled, faults>>

\* The coordinator refuses the commit of an expelled member: main() leaves its
\* loop with a KafkaException, and closes.
CommitRefused(m) ==
  /\ phase[m] = "commit" /\ ~Valid(m)
  /\ Gone(m)
  /\ UNCHANGED <<brokerVars, handled, faults>>

-----------------------------------------------------------------------------
MemberStep(m) ==
  \/ \E p \in Partitions : Poll(m, p)
  \/ Revoked(m) \/ PollRefused(m) \/ Work(m) \/ Commit(m) \/ CommitRefused(m)

Next ==
  \/ \E m \in Members : Start(m) \/ MemberStep(m) \/ CommitFails(m) \/ Leave(m)
  \/ \E S \in SUBSET Members : RebalanceInTime(S) \/ RebalanceExpels(S)

Spec == Init /\ [][Next]_vars

\* Somebody starts each consumer again after it ended, the calls it makes return,
\* and a rebalance everybody waits for takes place.
Fairness ==
  /\ \A m \in Members : WF_vars(Start(m)) /\ WF_vars(MemberStep(m))
  /\ WF_vars(\E S \in SUBSET Members : RebalanceInTime(S))

FairSpec == Spec /\ Fairness
-----------------------------------------------------------------------------
Origin == Partitions \X Nat

TypeOK ==
  /\ topic \in Topics
  /\ committed \in [Partitions -> Nat]
  /\ generation \in Nat \ {0}
  /\ phase \in [Members -> {"down", "poll", "work", "commit"}]
  /\ joined \in [Members -> Nat]
  /\ held \in [Members -> SUBSET Partitions]
  /\ position \in [Members -> [Partitions -> Nat]]
  /\ current \in [Members -> Origin \cup {NoMessage}]
  /\ handled \in SUBSET Origin
  /\ faults \in Nat

\* At least once, for the group: every record below a committed offset was handled
\* by some member, whoever was expelled, restarted or left in between.
NoRecordSkipped ==
  \A p \in Partitions : \A o \in 0 .. committed[p] - 1 : <<p, o>> \in handled

\* No member gets ahead of the group: what is handled is committed, or is the next
\* record of its partition.  So a record whose commit was refused or lost is the
\* only one of its partition that is handled again by its next owner
\* (consumer.py:229 with 242-244: a refused commit ends the process).
HandledInStep == \A r \in handled : r[2] <= committed[r[1]]

\* A partition has one reader whose commits count, and that reader is where the
\* group is: its client's position is the committed offset, but for the message it
\* has in hand (consumer.py:66-72, 106 and 229).
OwnerInStep ==
  \A m \in Members : Valid(m) => \A p \in held[m] :
    /\ \A n \in Members \ {m} : Valid(n) => p \notin held[n]
    /\ position[m][p] = committed[p] +
         IF phase[m] \in {"work", "commit"} /\ current[m] = <<p, committed[p]>> THEN 1 ELSE 0

\* The committed offset of a partition moves by one record at a time and never
\* back, from whichever members the commits come.
CommittedMonotone ==
  [][\A p \in Partitions : committed'[p] - committed[p] \in {0, 1}]_committed

\* The group as a whole implements in-order, at-least-once handling: what an expelled
\* member does is at most one more handling of a record.
Delivery == INSTANCE InOrderDelivery WITH acked <- committed

ImplementsDelivery == Delivery!DeliverySpec

\* Every record is handled and committed in the end, by one member or another.
DeliversEverything == Delivery!DeliveryFairSpec
=============================================================================
