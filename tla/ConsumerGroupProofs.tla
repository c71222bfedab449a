------------------------- MODULE ConsumerGroupProofs -------------------------
(***************************************************************************)
(* Proofs about ConsumerGroup for every set of members, every set of       *)
(* partitions, every topic contents and every number of faults.            *)
(*                                                                         *)
(* The argument: a member whose generation is that of the group is where   *)
(* the group is, and no other member of that generation holds its          *)
(* partitions; one that was expelled is nowhere ahead of the group, and    *)
(* has at most the record in hand that is next in its partition.  So a     *)
(* commit the coordinator takes moves one offset by one, over a record     *)
(* that was handled, and what an expelled member handles is the next       *)
(* record or one that was handled before.                                  *)
(***************************************************************************)
EXTENDS ConsumerGroup, TLAPS

Busy(m) == phase[m] \in {"work", "commit"}
Hand(m, p) == Busy(m) /\ current[m][1] = p

\* The message in hand of a member, expelled or not.
HandSound(m) ==
  Busy(m) =>
    /\ current[m] \in Origin
    /\ current[m][1] \in held[m]
    /\ current[m][2] < Len(topic[current[m][1]])
    /\ current[m][2] <= committed[current[m][1]]
    /\ position[m][current[m][1]] = current[m][2] + 1
    /\ phase[m] = "commit" => current[m] \in handled

\* Where its client reads, which for a valid member is where the group is.
PlaceSound(m) ==
  \A p \in held[m] :
    /\ Hand(m, p) \/ position[m][p] <= committed[p]
    /\ Valid(m) => IF Hand(m, p) THEN current[m][2] = committed[p]
                   ELSE position[m][p] = committed[p]

Exclusive ==
  \A m, n \in Members : m # n /\ Valid(m) /\ Valid(n) => held[m] \cap held[n] = {}

Sound ==
  /\ \A m \in Members : joined[m] <= generation
  /\ \A m \in Members : HandSound(m)
  /\ \A m \in Members : PlaceSound(m)
  /\ Exclusive
  /\ NoRecordSkipped
  /\ HandledInStep

GroupInv == TypeOK /\ Sound

-----------------------------------------------------------------------------
LEMMA GoneTypes ==
  ASSUME TypeOK, NEW m \in Members, Gone(m)
  PROVE  /\ phase' \in [Members -> {"down", "poll", "work", "commit"}]
         /\ joined' \in [Members -> Nat]
         /\ held' \in [Members -> SUBSET Partitions]
         /\ position' = position /\ current' = current
BY DEF TypeOK, Gone, Goes

LEMMA CommittedByTypes ==
  ASSUME TypeOK, NEW m \in Members
  PROVE  CommittedBy(m) \in [Partitions -> Nat]
BY DEF TypeOK, CommittedBy

LEMMA TypeStep == GroupInv /\ [Next]_vars => TypeOK'
<1>. SUFFICES ASSUME GroupInv, [Next]_vars PROVE TypeOK'
  OBVIOUS
<1>. USE DEF TypeOK
<1>0. TypeOK
  BY DEF GroupInv
<1>1. ASSUME NEW m \in Members, Start(m) PROVE TypeOK'
  BY <1>0, <1>1 DEF Start, Goes, brokerVars
<1>2. ASSUME NEW m \in Members, NEW p \in Partitions, Poll(m, p) PROVE TypeOK'
  <2>1. position[m][p] \in Nat /\ position[m][p] + 1 \in Nat
    BY <1>0
  <2>2. position' \in [Members -> [Partitions -> Nat]]
    BY <1>0, <1>2, <2>1 DEF Poll, Fetch
  <2>3. current' \in [Members -> Origin \cup {NoMessage}]
    BY <1>0, <1>2, <2>1 DEF Poll, Fetch, Origin
  <2>. QED  BY <1>0, <1>2, <2>2, <2>3 DEF Poll, Fetch, Goes, brokerVars
<1>3. ASSUME NEW m \in Members, Revoked(m) PROVE TypeOK'
  BY <1>0, <1>3 DEF Revoked, brokerVars
<1>4. ASSUME NEW m \in Members, Gone(m), topic' = topic, committed' \in [Partitions -> Nat],
             generation' = generation, handled' = handled, faults' \in Nat
      PROVE  TypeOK'
  BY <1>0, <1>4, GoneTypes
<1>5. ASSUME NEW m \in Members, Work(m) PROVE TypeOK'
  <2>1. current[m] \in Origin
    BY <1>5 DEF GroupInv, Sound, HandSound, Busy, Work
  <2>. QED  BY <1>0, <1>5, <2>1 DEF Work, Goes, brokerVars
<1>6. ASSUME NEW m \in Members, Commit(m) PROVE TypeOK'
  BY <1>0, <1>6, CommittedByTypes DEF Commit, Goes
<1>7. ASSUME NEW S \in SUBSET Members, Rebalance(S), faults' \in Nat PROVE TypeOK'
  <2>1. generation' \in Nat \ {0}
    BY <1>0, <1>7 DEF Rebalance
  <2>2. held' \in [Members -> SUBSET Partitions]
    BY <1>0, <1>7 DEF Rebalance
  <2>3. joined' \in [Members -> Nat]
    BY <1>0, <1>7, <2>1 DEF Rebalance
  <2>4. position' \in [Members -> [Partitions -> Nat]]
    BY <1>0, <1>7 DEF Rebalance, Assigned
  <2>. QED  BY <1>0, <1>7, <2>1, <2>2, <2>3, <2>4 DEF Rebalance
<1>8. ASSUME NEW m \in Members, CommitFails(m) \/ Leave(m) \/ PollRefused(m) \/ CommitRefused(m)
      PROVE  TypeOK'
  <2>1. committed' \in [Partitions -> Nat]
    BY <1>0, <1>8, CommittedByTypes DEF CommitFails, Leave, PollRefused, CommitRefused, brokerVars
  <2>2. faults' \in Nat
    BY <1>0, <1>8 DEF CommitFails, Leave, PollRefused, CommitRefused, Fault
  <2>. QED
    BY <1>4, <1>8, <2>1, <2>2 DEF CommitFails, Leave, PollRefused, CommitRefused, brokerVars
<1>9. ASSUME NEW S \in SUBSET Members, RebalanceInTime(S) \/ RebalanceExpels(S) PROVE TypeOK'
  <2>1. faults' \in Nat
    BY <1>0, <1>9 DEF RebalanceInTime, RebalanceExpels, Fault
  <2>. QED  BY <1>7, <1>9, <2>1 DEF RebalanceInTime, RebalanceExpels
<1>10. CASE UNCHANGED vars
  BY <1>0, <1>10 DEF vars, brokerVars, memberVars
<1>. QED
  BY <1>1, <1>2, <1>3, <1>5, <1>6, <1>8, <1>9, <1>10 DEF Next, MemberStep

-----------------------------------------------------------------------------
\* A commit the coordinator takes moves the offset of one partition by one, over
\* the message in hand.
LEMMA CommitMoves ==
  ASSUME GroupInv, NEW m \in Members, phase[m] = "commit", Valid(m)
  PROVE  /\ current[m] \in Origin
         /\ current[m][1] \in held[m]
         /\ current[m][2] = committed[current[m][1]]
         /\ current[m][2] < Len(topic[current[m][1]])
         /\ current[m] \in handled
         /\ CommittedBy(m) = [committed EXCEPT ![current[m][1]] = @ + 1]
<1>1. /\ current[m] \in Origin /\ current[m][1] \in held[m] /\ current[m] \in handled
      /\ current[m][2] < Len(topic[current[m][1]])
      /\ position[m][current[m][1]] = current[m][2] + 1
  BY DEF GroupInv, Sound, HandSound, Busy
<1>2. \A p \in held[m] : IF current[m][1] = p THEN current[m][2] = committed[p]
                          ELSE position[m][p] = committed[p]
  BY DEF GroupInv, Sound, PlaceSound, Hand, Busy
<1>3. current[m][2] = committed[current[m][1]]
  BY <1>1, <1>2
<1>4. committed \in [Partitions -> Nat] /\ held[m] \subseteq Partitions
  BY DEF GroupInv, TypeOK
<1>5. ASSUME NEW p \in Partitions
      PROVE  CommittedBy(m)[p] = [committed EXCEPT ![current[m][1]] = @ + 1][p]
  BY <1>1, <1>2, <1>3, <1>4 DEF CommittedBy
<1>6. CommittedBy(m) = [committed EXCEPT ![current[m][1]] = @ + 1]
  BY <1>4, <1>5 DEF CommittedBy
<1>. QED  BY <1>1, <1>3, <1>6

\* A member that is started holds nothing the group counts on.
LEMMA StartSound ==
  ASSUME GroupInv, NEW m \in Members, Start(m)
  PROVE  Sound'
<1>. USE DEF Start, Goes, brokerVars, GroupInv, Sound, TypeOK
<1>1. \A n \in Members : Busy(n)' <=> Busy(n)
  BY DEF Busy
<1>2. \A n \in Members : joined'[n] <= generation'
  OBVIOUS
<1>3. \A n \in Members : HandSound(n)'
  BY <1>1 DEF HandSound, Busy
<1>4. \A n \in Members : PlaceSound(n)'
  BY <1>1 DEF PlaceSound, Hand, Valid
<1>5. Exclusive' /\ NoRecordSkipped' /\ HandledInStep'
  BY DEF Exclusive, NoRecordSkipped, HandledInStep, Valid
<1>. QED  BY <1>2, <1>3, <1>4, <1>5

\* A member that loses its partitions has less to keep.
LEMMA RevokedSound ==
  ASSUME GroupInv, NEW m \in Members, Revoked(m)
  PROVE  Sound'
<1>. USE DEF Revoked, brokerVars, GroupInv, Sound, TypeOK
<1>1. \A n \in Members : Busy(n)' <=> Busy(n)
  BY DEF Busy
<1>2. \A n \in Members : joined'[n] <= generation'
  OBVIOUS
<1>3. \A n \in Members : HandSound(n)'
  BY <1>1 DEF HandSound, Busy
<1>4. \A n \in Members : PlaceSound(n)'
  BY <1>1 DEF PlaceSound, Hand, Valid
<1>5. Exclusive' /\ NoRecordSkipped' /\ HandledInStep'
  BY DEF Exclusive, NoRecordSkipped, HandledInStep, Valid
<1>. QED  BY <1>2, <1>3, <1>4, <1>5

\* A member that leaves changes nothing but itself.
LEMMA GoneSound ==
  ASSUME GroupInv, NEW m \in Members, Gone(m), UNCHANGED <<brokerVars, handled>>
  PROVE  Sound'
<1>. USE DEF Gone, Goes, brokerVars, GroupInv, Sound, TypeOK
<1>1. ~Busy(m)' /\ \A n \in Members \ {m} : Busy(n)' <=> Busy(n)
  BY DEF Busy
<1>2. \A n \in Members : joined'[n] <= generation'
  OBVIOUS
<1>3. \A n \in Members : HandSound(n)'
  BY <1>1 DEF HandSound, Busy
<1>4. \A n \in Members : PlaceSound(n)'
  BY <1>1 DEF PlaceSound, Hand, Valid
<1>5. Exclusive' /\ NoRecordSkipped' /\ HandledInStep'
  BY DEF Exclusive, NoRecordSkipped, HandledInStep, Valid
<1>. QED  BY <1>2, <1>3, <1>4, <1>5

\* A poll takes the record the member's client is at.
LEMMA PollSound ==
  ASSUME GroupInv, NEW m \in Members, NEW p \in Partitions, Poll(m, p)
  PROVE  Sound'
<1>. USE DEF Poll, Fetch, Goes, brokerVars, GroupInv, Sound, TypeOK
<1>1. ~Busy(m) /\ Busy(m)' /\ \A n \in Members \ {m} : Busy(n)' <=> Busy(n)
  BY DEF Busy
<1>2. \A n \in Members : joined'[n] <= generation'
  OBVIOUS
<1>3. /\ p \in held[m] /\ position[m][p] \in Nat /\ position[m][p] <= committed[p]
      /\ current'[m] = <<p, position[m][p]>> /\ position'[m][p] = position[m][p] + 1
      /\ Valid(m) => position[m][p] = committed[p]
  BY <1>1 DEF PlaceSound, Hand
<1>4. HandSound(m)'
  BY <1>3 DEF HandSound, Busy, Origin
<1>5. \A n \in Members \ {m} : HandSound(n)'
  BY <1>1 DEF HandSound, Busy
<1>6. PlaceSound(m)'
  <2>. SUFFICES ASSUME NEW q \in held[m]
                PROVE  /\ Hand(m, q)' \/ position'[m][q] <= committed[q]
                       /\ Valid(m) => IF Hand(m, q)' THEN current'[m][2] = committed[q]
                                      ELSE position'[m][q] = committed[q]
    BY DEF PlaceSound, Valid
  <2>1. CASE q = p
    BY <1>1, <1>3, <2>1 DEF Hand
  <2>2. CASE q # p
    <3>1. ~Hand(m, q) /\ ~Hand(m, q)' /\ position'[m][q] = position[m][q]
      BY <1>1, <1>3, <2>2 DEF Hand
    <3>. QED  BY <3>1 DEF PlaceSound
  <2>. QED  BY <2>1, <2>2
<1>7. \A n \in Members \ {m} : PlaceSound(n)'
  BY <1>1 DEF PlaceSound, Hand, Valid
<1>8. Exclusive' /\ NoRecordSkipped' /\ HandledInStep'
  BY DEF Exclusive, NoRecordSkipped, HandledInStep, Valid
<1>. QED  BY <1>2, <1>4, <1>5, <1>6, <1>7, <1>8

\* What is handled is the next record of its partition, or an earlier one.
LEMMA WorkSound ==
  ASSUME GroupInv, NEW m \in Members, Work(m)
  PROVE  Sound'
<1>. USE DEF Work, Goes, brokerVars, GroupInv, Sound, TypeOK
<1>1. Busy(m) /\ \A n \in Members : Busy(n)' <=> Busy(n)
  BY DEF Busy
<1>2. \A n \in Members : joined'[n] <= generation'
  OBVIOUS
<1>3. \A n \in Members : HandSound(n)'
  BY <1>1 DEF HandSound, Busy
<1>4. \A n \in Members : PlaceSound(n)'
  BY <1>1 DEF PlaceSound, Hand, Valid
<1>5. Exclusive' /\ NoRecordSkipped'
  BY DEF Exclusive, NoRecordSkipped, Valid
<1>6. HandledInStep'
  BY <1>1 DEF HandledInStep, HandSound
<1>. QED  BY <1>2, <1>3, <1>4, <1>5, <1>6

\* The member that commits goes on, or ends because the answer was lost.
LEMMA CommittedSound ==
  ASSUME GroupInv, NEW m \in Members, phase[m] = "commit", Valid(m),
         committed' = CommittedBy(m), UNCHANGED <<topic, generation, handled>>,
         \/ Goes(m, "poll") /\ UNCHANGED <<joined, held, position, current>>
         \/ Gone(m)
  PROVE  Sound'
<1>. DEFINE q == current[m][1]
<1>1. /\ q \in Partitions /\ q \in held[m] /\ current[m] = <<q, committed[q]>>
      /\ current[m] \in handled /\ current[m][2] = committed[q]
      /\ position[m][q] = committed[q] + 1
      /\ committed' = [committed EXCEPT ![q] = @ + 1]
  BY CommitMoves DEF Origin, GroupInv, Sound, HandSound, Busy
<1>2. /\ committed'[q] = committed[q] + 1
      /\ \A p \in Partitions : committed[p] <= committed'[p] /\ (p # q => committed'[p] = committed[p])
  BY <1>1 DEF GroupInv, TypeOK
<1>3. /\ ~Busy(m)' /\ \A n \in Members \ {m} : Busy(n)' <=> Busy(n)
      /\ \A n \in Members : joined'[n] <= joined[n]
      /\ \A n \in Members : Valid(n)' => Valid(n)
      /\ position' = position /\ current' = current
      /\ \A n \in Members \ {m} : held'[n] = held[n] /\ phase'[n] = phase[n]
      /\ held'[m] \subseteq held[m]
  BY DEF Busy, Goes, Gone, GroupInv, TypeOK, Valid
<1>. HIDE DEF q
<1>4. \A n \in Members : joined'[n] <= generation'
  BY <1>3 DEF GroupInv, Sound, TypeOK, Gone
<1>5. \A n \in Members : HandSound(n)'
  <2>. SUFFICES ASSUME NEW n \in Members \ {m}, Busy(n) PROVE HandSound(n)'
    BY <1>3 DEF HandSound
  <2>1. HandSound(n)
    BY DEF GroupInv, Sound
  <2>2. current[n] \in Origin /\ current[n][1] \in Partitions /\ current[n][2] \in Nat
    BY <2>1 DEF HandSound, Origin
  <2>3. current[n][2] <= committed'[current[n][1]]
    BY <1>1, <1>2, <2>1, <2>2 DEF HandSound, GroupInv, TypeOK
  <2>. QED  BY <1>3, <2>1, <2>2, <2>3 DEF HandSound
<1>6. PlaceSound(m)'
  <2>. SUFFICES ASSUME NEW p \in held[m] PROVE position[m][p] = committed'[p]
    BY <1>3 DEF PlaceSound, Hand, GroupInv, TypeOK
  <2>1. CASE p = q
    BY <1>1, <1>2, <2>1
  <2>2. CASE p # q
    <3>1. ~Hand(m, p) /\ p \in Partitions
      BY <2>2 DEF Hand, q, GroupInv, TypeOK
    <3>. QED  BY <1>2, <2>2, <3>1 DEF PlaceSound, GroupInv, Sound
  <2>. QED  BY <2>1, <2>2
<1>7. ASSUME NEW n \in Members \ {m} PROVE PlaceSound(n)'
  <2>1. Valid(n) => q \notin held[n]
    BY <1>1 DEF GroupInv, Sound, Exclusive
  <2>2. \A p \in held[n] : p \in Partitions
    BY DEF GroupInv, TypeOK
  <2>3. \A p \in held[n] : Hand(n, p)' <=> Hand(n, p)
    BY <1>3 DEF Hand
  <2>4. PlaceSound(n)
    BY DEF GroupInv, Sound
  <2>5. \A p \in held[n] : position[n][p] \in Nat /\ committed[p] \in Nat /\ committed'[p] \in Nat
    BY <1>1, <1>2, <2>2 DEF GroupInv, TypeOK
  <2>. QED  BY <1>2, <1>3, <2>1, <2>2, <2>3, <2>4, <2>5 DEF PlaceSound
<1>8. Exclusive'
  BY <1>3 DEF Exclusive, GroupInv, Sound
<1>9. NoRecordSkipped'
  <2>. SUFFICES ASSUME NEW p \in Partitions, NEW o \in 0 .. committed'[p] - 1
                PROVE  <<p, o>> \in handled
    BY DEF NoRecordSkipped
  <2>1. o \in 0 .. committed[p] - 1 \/ (p = q /\ o = committed[q])
    BY <1>2 DEF GroupInv, TypeOK
  <2>. QED  BY <1>1, <2>1 DEF GroupInv, Sound, NoRecordSkipped
<1>10. HandledInStep'
  BY <1>2 DEF HandledInStep, GroupInv, Sound, TypeOK, Origin
<1>. QED  BY <1>4, <1>5, <1>6, <1>7, <1>8, <1>9, <1>10 DEF Sound

\* A new generation makes every member that is not in it invalid.
LEMMA RebalanceSound ==
  ASSUME GroupInv, NEW S \in SUBSET Members, Rebalance(S)
  PROVE  Sound'
<1>. USE DEF GroupInv, Sound, TypeOK
<1>1. PICK owner \in [Partitions -> S] :
        held' = [m \in Members |->
                   IF m \in S THEN {p \in Partitions : owner[p] = m} ELSE held[m]]
  BY DEF Rebalance
<1>2. /\ generation' = generation + 1 /\ UNCHANGED <<topic, committed, phase, current, handled>>
      /\ \A m \in S : ~Busy(m) /\ joined'[m] = generation' /\ position'[m] = committed
      /\ \A m \in Members \ S : /\ joined'[m] = joined[m] /\ position'[m] = position[m]
                               /\ held'[m] = held[m]
      /\ \A m \in S : held'[m] = {p \in Partitions : owner[p] = m}
  BY <1>1 DEF Rebalance, Busy, Assigned
<1>3. \A m \in Members : Busy(m)' <=> Busy(m)
  BY <1>2 DEF Busy
<1>4. \A m \in Members : Valid(m)' <=> m \in S
  BY <1>2 DEF Valid
<1>5. \A m \in Members : joined'[m] <= generation'
  BY <1>2
<1>6. \A m \in Members : HandSound(m)'
  BY <1>2, <1>3 DEF HandSound, Busy
<1>7. ASSUME NEW m \in Members PROVE PlaceSound(m)'
  <2>1. CASE m \in S
    BY <1>2, <1>3, <2>1 DEF PlaceSound, Hand
  <2>2. CASE m \notin S
    BY <1>2, <1>3, <1>4, <2>2 DEF PlaceSound, Hand
  <2>. QED  BY <2>1, <2>2
<1>8. Exclusive'
  BY <1>2, <1>4 DEF Exclusive
<1>9. NoRecordSkipped' /\ HandledInStep'
  BY <1>2 DEF NoRecordSkipped, HandledInStep
<1>. QED  BY <1>5, <1>6, <1>7, <1>8, <1>9

LEMMA GroupStep == GroupInv /\ [Next]_vars => GroupInv'
<1>. SUFFICES ASSUME GroupInv, [Next]_vars PROVE Sound'
  BY TypeStep DEF GroupInv
<1>1. ASSUME NEW m \in Members, CommitFails(m) PROVE Sound'
  <2>1. CASE committed' = committed
    BY <1>1, <2>1, GoneSound DEF CommitFails, brokerVars
  <2>2. CASE committed' = CommittedBy(m)
    BY <1>1, <2>2, CommittedSound DEF CommitFails
  <2>. QED  BY <1>1, <2>1, <2>2 DEF CommitFails
<1>2. ASSUME NEW m \in Members, Leave(m) \/ PollRefused(m) \/ CommitRefused(m) PROVE Sound'
  BY <1>2, GoneSound DEF Leave, PollRefused, CommitRefused
<1>3. ASSUME NEW m \in Members, Commit(m) PROVE Sound'
  BY <1>3, CommittedSound DEF Commit
<1>4. CASE UNCHANGED vars
  BY <1>4 DEF vars, brokerVars, memberVars, GroupInv, Sound, HandSound, PlaceSound, Exclusive,
       NoRecordSkipped, HandledInStep, Busy, Hand, Valid
<1>. QED
  BY <1>1, <1>2, <1>3, <1>4, StartSound, RevokedSound, PollSound, WorkSound, RebalanceSound
     DEF Next, MemberStep, RebalanceInTime, RebalanceExpels

LEMMA GroupStart == Init => GroupInv
<1>. SUFFICES ASSUME Init PROVE GroupInv
  OBVIOUS
<1>1. TypeOK
  BY DEF Init, TypeOK, Origin
<1>2. Sound
  BY DEF Init, Sound, HandSound, PlaceSound, Exclusive, NoRecordSkipped, HandledInStep, Busy, Hand, Valid
<1>. QED  BY <1>1, <1>2 DEF GroupInv

LEMMA GroupInvariance == Spec => []GroupInv
BY GroupStart, GroupStep, PTL DEF Spec

-----------------------------------------------------------------------------
\* Type correctness of the group.
THEOREM GroupTypes == Spec => []TypeOK
<1>1. GroupInv => TypeOK
  BY DEF GroupInv
<1>. QED  BY GroupInvariance, <1>1, PTL

\* No record is skipped by a group of any size, with any number of expulsions,
\* restarts and failed commits.
THEOREM GroupAtLeastOnce == Spec => []NoRecordSkipped
<1>1. GroupInv => NoRecordSkipped
  BY DEF GroupInv, Sound
<1>. QED  BY GroupInvariance, <1>1, PTL

\* No member, expelled or not, handles more than the next record.
THEOREM GroupInStep == Spec => []HandledInStep
<1>1. GroupInv => HandledInStep
  BY DEF GroupInv, Sound
<1>. QED  BY GroupInvariance, <1>1, PTL

\* One valid reader for each partition, and it reads where the group is.
THEOREM OwnersInStep == Spec => []OwnerInStep
<1>1. GroupInv => OwnerInStep
  <2>. SUFFICES ASSUME GroupInv, NEW m \in Members, Valid(m), NEW p \in held[m]
                PROVE  /\ \A n \in Members \ {m} : Valid(n) => p \notin held[n]
                       /\ position[m][p] = committed[p] +
                            IF phase[m] \in {"work", "commit"} /\ current[m] = <<p, committed[p]>>
                            THEN 1 ELSE 0
    BY DEF OwnerInStep
  <2>1. \A n \in Members \ {m} : Valid(n) => p \notin held[n]
    BY DEF GroupInv, Sound, Exclusive
  <2>2. p \in Partitions /\ committed[p] \in Nat
    BY DEF GroupInv, TypeOK
  <2>3. CASE Hand(m, p)
    <3>1. current[m] \in Origin /\ current[m][1] = p /\ position[m][p] = current[m][2] + 1
      BY <2>3 DEF Hand, GroupInv, Sound, HandSound
    <3>2. current[m][2] = committed[p]
      BY <2>3 DEF GroupInv, Sound, PlaceSound
    <3>3. current[m] = <<p, committed[p]>>
      BY <3>1, <3>2 DEF Origin
    <3>. QED  BY <2>1, <2>2, <2>3, <3>1, <3>2, <3>3 DEF Hand, Busy
  <2>4. CASE ~Hand(m, p)
    <3>1. position[m][p] = committed[p]
      BY <2>4 DEF GroupInv, Sound, PlaceSound
    <3>2. ~(phase[m] \in {"work", "commit"} /\ current[m] = <<p, committed[p]>>)
      BY <2>4 DEF Hand, Busy
    <3>. QED  BY <2>1, <2>2, <3>1, <3>2
  <2>. QED  BY <2>3, <2>4
<1>. QED  BY GroupInvariance, <1>1, PTL

\* What a step does to the committed offsets: nothing, or one record of one
\* partition, a handled one.
LEMMA CommittedKinds ==
  ASSUME GroupInv, [Next]_vars
  PROVE  \/ committed' = committed
         \/ /\ UNCHANGED <<topic, handled>>
            /\ \E p \in Partitions :
                 /\ committed[p] < Len(topic[p]) /\ <<p, committed[p]>> \in handled
                 /\ committed' = [committed EXCEPT ![p] = @ + 1]
<1>1. ASSUME NEW m \in Members, phase[m] = "commit", Valid(m), committed' = CommittedBy(m)
      PROVE  \E p \in Partitions :
                 /\ committed[p] < Len(topic[p]) /\ <<p, committed[p]>> \in handled
                 /\ committed' = [committed EXCEPT ![p] = @ + 1]
  <2>1. current[m][1] \in Partitions /\ current[m] = <<current[m][1], committed[current[m][1]]>>
    BY <1>1, CommitMoves DEF Origin
  <2>. QED  BY <1>1, <2>1, CommitMoves
<1>. QED
  BY <1>1 DEF Next, MemberStep, Start, Leave, Rebalance, RebalanceInTime, RebalanceExpels, Revoked,
     PollRefused, Poll, Work, Commit, CommitFails, CommitRefused, brokerVars, vars

\* Committed offsets move by single records and never back, whoever commits.
THEOREM GroupCommitsMonotone == Spec => CommittedMonotone
<1>1. GroupInv /\ [Next]_vars =>
        [\A p \in Partitions : committed'[p] - committed[p] \in {0, 1}]_committed
  <2>. SUFFICES ASSUME GroupInv, [Next]_vars, committed' # committed
                PROVE  \A p \in Partitions : committed'[p] - committed[p] \in {0, 1}
    OBVIOUS
  <2>1. PICK q \in Partitions : committed' = [committed EXCEPT ![q] = @ + 1]
    BY CommittedKinds
  <2>2. committed \in [Partitions -> Nat]
    BY DEF GroupInv, TypeOK
  <2>. QED  BY <2>1, <2>2
<1>. QED  BY GroupInvariance, <1>1, PTL DEF Spec, CommittedMonotone

\* A step of the group is a step of the abstract delivery, or none of its business.
LEMMA GroupDeliveryStep ==
  GroupInv /\ [Next]_vars => [Delivery!DeliveryNext]_(Delivery!deliveryVars)
<1>. SUFFICES ASSUME GroupInv, [Next]_vars
              PROVE  Delivery!DeliveryNext \/ UNCHANGED <<topic, committed, handled>>
  BY DEF Delivery!deliveryVars
<1>0. UNCHANGED topic
  BY DEF Next, MemberStep, Start, Leave, Rebalance, RebalanceInTime, RebalanceExpels, Revoked,
     PollRefused, Poll, Work, Commit, CommitFails, CommitRefused, brokerVars, vars
<1>1. CASE committed' # committed
  <2>1. PICK p \in Partitions :
          /\ committed[p] < Len(topic[p]) /\ <<p, committed[p]>> \in handled
          /\ committed' = [committed EXCEPT ![p] = @ + 1]
    BY <1>1, CommittedKinds
  <2>2. Delivery!Acknowledge(p)
    BY <1>0, <1>1, <2>1, CommittedKinds DEF Delivery!Acknowledge
  <2>. QED  BY <2>2 DEF Delivery!DeliveryNext
<1>2. ASSUME NEW m \in Members, Work(m) PROVE Delivery!DeliveryNext \/ handled' = handled
  <2>1. /\ current[m] \in Origin /\ current[m][2] <= committed[current[m][1]]
        /\ current[m][2] < Len(topic[current[m][1]])
    BY <1>2 DEF Work, Busy, GroupInv, Sound, HandSound
  <2>. DEFINE p == current[m][1]
              o == current[m][2]
  <2>2. p \in Partitions /\ o \in Nat /\ current[m] = <<p, o>> /\ committed[p] \in Nat
    BY <2>1 DEF Origin, GroupInv, TypeOK
  <2>3. CASE o = committed[p]
    <3>1. Delivery!Handle(p)
      BY <1>2, <2>1, <2>2, <2>3 DEF Work, brokerVars, Delivery!Handle
    <3>. QED  BY <2>2, <3>1 DEF Delivery!DeliveryNext
  <2>4. CASE o # committed[p]
    <3>1. o \in 0 .. committed[p] - 1
      BY <2>1, <2>2, <2>4
    <3>2. current[m] \in handled
      BY <2>2, <3>1 DEF GroupInv, Sound, NoRecordSkipped
    <3>. QED  BY <1>2, <3>2 DEF Work
  <2>. QED  BY <2>3, <2>4
<1>3. CASE committed' = committed
  <2>1. (\E m \in Members : Work(m)) \/ handled' = handled
    BY DEF Next, MemberStep, Start, Leave, Rebalance, RebalanceInTime, RebalanceExpels, Revoked,
       PollRefused, Poll, Commit, CommitFails, CommitRefused, vars
  <2>. QED  BY <1>0, <1>2, <1>3, <2>1
<1>. QED  BY <1>1, <1>3

\* The group implements in-order, at-least-once delivery (InOrderDelivery).
THEOREM GroupRefinesDelivery == Spec => ImplementsDelivery
<1>1. Init => Delivery!DeliveryInit
  BY DEF Init, Delivery!DeliveryInit
<1>. QED  BY GroupInvariance, <1>1, GroupDeliveryStep, PTL
          DEF Spec, ImplementsDelivery, Delivery!DeliverySpec
=============================================================================
