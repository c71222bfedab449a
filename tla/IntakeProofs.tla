----------------------------- MODULE IntakeProofs -----------------------------
(***************************************************************************)
(* Proofs about Intake for every cluster, all settings and command lines,  *)
(* any number of runs and of faults and any size of the client's buffer.   *)
(*                                                                         *)
(* The argument for create_topics: topics are never deleted, so an answer  *)
(* that says a topic is there stays true.  For the producer: an order of   *)
(* the current run is written, given up, or still in flight; the flush     *)
(* returns 0 only when nothing is in flight.  And whatever is in flight or *)
(* written carries the id and a product that fit the current run, or       *)
(* belongs to an earlier one.  For both together: a run started after its  *)
(* topic was made never has a client that believes the topic is missing,   *)
(* since the client knows nothing at first and the topic is never deleted. *)
(***************************************************************************)
EXTENDS Intake, TLAPS

Stable == \A n \in TopicNames : Exists(n) => partitions'[n] # 0

\* What a waiting run of create_topics was told is so.
AnswersTrue(a) ==
  /\ adminPhase[a] = "new" => answer[a] = NoAnswers
  /\ adminPhase[a] = "waiting" =>
       \A t \in Requests :
         /\ answer[a][t] \in {"created", "exists"} => Exists(NameOf(a, t))
         /\ answer[a][t] = "failed" => a \in disturbed

\* It has two names to ask for.
Named(a) ==
  adminPhase[a] = "waiting" \/ (adminPhase[a] = "over" /\ exit_code[a] = 0) =>
    adminSettings[a] \in Settings

\* The two properties, for one run.
SuccessTrue(a) ==
  adminPhase[a] = "over" /\ exit_code[a] = 0 => \A t \in Requests : Exists(NameOf(a, t))
FailureDisturbed(a) ==
  a \notin disturbed /\ adminPhase[a] = "over" /\ Complete(adminSettings[a])
    => exit_code[a] = 0

AdminRunInv(a) == Named(a) /\ AnswersTrue(a) /\ SuccessTrue(a) /\ FailureDisturbed(a)

AdminInv == AdminTypeOK /\ \A a \in AdminRuns : AdminRunInv(a)

-----------------------------------------------------------------------------
\* Settings that are complete are names (config.py:28-37, 80-89).
LEMMA ResolvedNames ==
  ASSUME NEW s \in Resolved, Complete(s)
  PROVE  s \in Settings
<1>1. PICK sh \in Shells, d \in DotEnvs : s = from_env(load_dotenv(sh, d))
  BY DEF Resolved
<1>. DEFINE e == load_dotenv(sh, d)
<1>2. \A v \in Variables : e[v] \in TopicNames \cup {"", Unset}
  BY <1>1, ClusterAssumption DEF load_dotenv, Environments
<1>3. s.orders_topic = Require(e, "ORDERS_TOPIC", "orders")
      /\ s.dlq_topic = Require(e, "DLQ_TOPIC", "orders.DLQ")
  BY <1>1 DEF from_env
<1>4. s = [orders_topic |-> s.orders_topic, dlq_topic |-> s.dlq_topic]
  BY <1>1 DEF from_env
<1>. HIDE DEF e
<1>5. s.orders_topic \in TopicNames /\ s.dlq_topic \in TopicNames
  BY <1>2, <1>3, ClusterAssumption DEF Variables, Require, Complete
<1>. QED  BY <1>4, <1>5 DEF Settings

LEMMA SomeResolved == Resolved # {}
<1>1. PICK sh \in Shells, d \in DotEnvs : TRUE
  BY ClusterAssumption
<1>2. from_env(load_dotenv(sh, d)) \in Resolved
  BY <1>1 DEF Resolved
<1>. QED  BY <1>2

LEMMA TwoRequests == Requests = {"orders_topic", "dlq_topic"}
BY DEF Requests, NumPartitions

\* Creating topics keeps those that were there.
LEMMA CreatedKeeps ==
  ASSUME AdminTypeOK, NEW a \in AdminRuns, NEW topics \in SUBSET Requests
  PROVE  /\ Created(a, topics) \in [TopicNames -> Nat]
         /\ \A n \in TopicNames : Exists(n) => Created(a, topics)[n] # 0
<1>1. partitions \in [TopicNames -> Nat]
  BY DEF AdminTypeOK
<1>2. ASSUME NEW n \in TopicNames
      PROVE  /\ Created(a, topics)[n] \in Nat
             /\ Exists(n) => Created(a, topics)[n] # 0
  <2>. DEFINE asked == {t \in topics : NameOf(a, t) = n}
  <2>1. CASE asked = {} \/ Exists(n)
    BY <1>1, <2>1 DEF Created, Exists
  <2>2. CASE ~(asked = {} \/ Exists(n))
    <3>1. (CHOOSE t \in asked : TRUE) \in {"orders_topic", "dlq_topic"}
      BY <2>2, TwoRequests
    <3>2. Created(a, topics)[n] = NumPartitions[CHOOSE t \in asked : TRUE]
      BY <2>2 DEF Created
    <3>3. \A t \in {"orders_topic", "dlq_topic"} : NumPartitions[t] \in Nat \ {0}
      BY DEF NumPartitions
    <3>. QED  BY <3>1, <3>2, <3>3
  <2>. QED  BY <2>1, <2>2
<1>. QED  BY <1>2 DEF Created

\* And makes what was asked for.
LEMMA CreatedMakes ==
  ASSUME NEW a \in AdminRuns, NEW t \in Requests, NameOf(a, t) \in TopicNames
  PROVE  Created(a, {t})[NameOf(a, t)] # 0
<1>. DEFINE n == NameOf(a, t)
            asked == {u \in {t} : NameOf(a, u) = n}
<1>1. asked = {t} /\ (CHOOSE u \in asked : TRUE) = t
  OBVIOUS
<1>2. NumPartitions[t] # 0
  BY TwoRequests DEF NumPartitions
<1>3. CASE Exists(n)
  BY <1>3 DEF Created, Exists
<1>4. CASE ~Exists(n)
  <2>1. Created(a, {t})[n] = NumPartitions[CHOOSE u \in asked : TRUE]
    BY <1>1, <1>4 DEF Created
  <2>. QED  BY <1>1, <1>2, <2>1
<1>. QED  BY <1>3, <1>4

LEMMA AdminOverTypes ==
  ASSUME AdminTypeOK, NEW a \in AdminRuns, NEW code \in {0, 1}, AdminOver(a, code)
  PROVE  /\ adminPhase' \in [AdminRuns -> {"new", "waiting", "over"}]
         /\ exit_code' \in [AdminRuns -> {0, 1}]
         /\ answer' \in [AdminRuns -> [Requests -> {"pending", "created", "exists", "failed"}]]
BY DEF AdminTypeOK, AdminOver, NoAnswers

LEMMA VerdictTypes == ASSUME NEW a \in AdminRuns PROVE Verdict(a) \in {0, 1}
BY DEF Verdict

-----------------------------------------------------------------------------
\* A step of create_topics keeps the types, and topics are never deleted.
LEMMA AdminTypeStep ==
  ASSUME AdminTypeOK, NEW a \in AdminRuns, AdminStep(a)
  PROVE  AdminTypeOK' /\ Stable
<1>. USE DEF Stable
<1>1. ASSUME NEW s \in Resolved, AdminStart(a, s) PROVE AdminTypeOK' /\ Stable
  BY <1>1 DEF AdminStart, AdminTypeOK, Exists
<1>2. ASSUME NEW s \in Resolved, AdminRefuses(a, s) PROVE AdminTypeOK' /\ Stable
  BY <1>2, AdminOverTypes DEF AdminRefuses, AdminTypeOK, Exists
<1>3. ASSUME NEW t \in Requests, CreateTopic(a, t) PROVE AdminTypeOK' /\ Stable
  <2>1. partitions' \in [TopicNames -> Nat] /\ Stable
    BY <1>3, CreatedKeeps DEF CreateTopic
  <2>. QED  BY <1>3, <2>1 DEF CreateTopic, AdminTypeOK
<1>4. ASSUME NEW t \in Requests, CreateFails(a, t) PROVE AdminTypeOK' /\ Stable
  <2>1. partitions' \in [TopicNames -> Nat] /\ Stable
    BY <1>4, CreatedKeeps DEF CreateFails, AdminTypeOK, Exists
  <2>. QED  BY <1>4, <2>1 DEF CreateFails, AdminTypeOK, Fault
<1>5. CASE AdminReturns(a)
  BY <1>5, AdminOverTypes, VerdictTypes DEF AdminReturns, AdminTypeOK, Exists
<1>6. CASE AdminFails(a)
  <2>1. PICK late \in SUBSET Requests : partitions' = Created(a, late)
    BY <1>6 DEF AdminFails
  <2>2. partitions' \in [TopicNames -> Nat] /\ Stable
    BY <2>1, CreatedKeeps
  <2>. QED  BY <1>6, <2>2, AdminOverTypes DEF AdminFails, AdminTypeOK, Fault
<1>. QED  BY <1>1, <1>2, <1>3, <1>4, <1>5, <1>6 DEF AdminStep

\* What holds of a run that does nothing goes on to hold.
LEMMA OthersKeep ==
  ASSUME Stable, NEW a \in AdminRuns, AdminRunInv(a),
         adminPhase'[a] = adminPhase[a], adminSettings'[a] = adminSettings[a],
         answer'[a] = answer[a], exit_code'[a] = exit_code[a],
         a \in disturbed <=> a \in disturbed'
  PROVE  AdminRunInv(a)'
<1>1. Named(a)' /\ FailureDisturbed(a)'
  BY DEF AdminRunInv, Named, FailureDisturbed
<1>2. ASSUME adminSettings[a] \in Settings, NEW t \in Requests, Exists(NameOf(a, t))
      PROVE  Exists(NameOf(a, t))'
  <2>1. NameOf(a, t) \in TopicNames /\ NameOf(a, t)' = NameOf(a, t)
    BY <1>2, TwoRequests DEF NameOf, Settings
  <2>. QED  BY <1>2, <2>1 DEF Stable, Exists
<1>3. AnswersTrue(a)' /\ SuccessTrue(a)'
  BY <1>2 DEF AdminRunInv, AnswersTrue, Named, SuccessTrue
<1>. QED  BY <1>1, <1>3 DEF AdminRunInv

LEMMA AdminSoundStep ==
  ASSUME AdminInv, AdminTypeOK', Stable, NEW a \in AdminRuns, AdminStep(a)
  PROVE  AdminInv'
<1>0. AdminTypeOK /\ AdminRunInv(a)
  BY DEF AdminInv
<1>1. ASSUME NEW b \in AdminRuns, b # a PROVE AdminRunInv(b)'
  <2>1. /\ adminPhase'[b] = adminPhase[b] /\ adminSettings'[b] = adminSettings[b]
        /\ answer'[b] = answer[b] /\ exit_code'[b] = exit_code[b]
        /\ b \in disturbed <=> b \in disturbed'
    BY <1>0, <1>1 DEF AdminTypeOK, AdminStep, AdminStart, AdminRefuses, CreateTopic, CreateFails,
       AdminReturns, AdminFails, AdminOver
  <2>. QED  BY <1>1, <2>1, OthersKeep DEF AdminInv
<1>2. ASSUME NEW s \in Resolved, AdminStart(a, s) PROVE AdminRunInv(a)'
  <2>1. s \in Settings /\ adminSettings'[a] = s /\ adminPhase'[a] = "waiting"
    BY <1>0, <1>2, ResolvedNames DEF AdminStart, AdminTypeOK
  <2>2. answer[a] = NoAnswers /\ answer' = answer
    BY <1>0, <1>2 DEF AdminStart, AdminRunInv, AnswersTrue
  <2>. QED
    BY <2>1, <2>2 DEF AdminRunInv, Named, AnswersTrue, SuccessTrue, FailureDisturbed, NoAnswers
<1>3. ASSUME NEW s \in Resolved, AdminRefuses(a, s) PROVE AdminRunInv(a)'
  <2>1. /\ adminPhase'[a] = "over" /\ exit_code'[a] = 1 /\ adminSettings'[a] = s
        /\ ~Complete(s)
    BY <1>0, <1>3 DEF AdminRefuses, AdminOver, AdminTypeOK
  <2>. QED  BY <2>1 DEF AdminRunInv, Named, AnswersTrue, SuccessTrue, FailureDisturbed
<1>4. ASSUME NEW t \in Requests, CreateTopic(a, t) \/ CreateFails(a, t) PROVE AdminRunInv(a)'
  <2>1. /\ adminPhase[a] = "waiting" /\ adminPhase'[a] = "waiting"
        /\ adminSettings'[a] = adminSettings[a]
        /\ \A u \in Requests : u # t => answer'[a][u] = answer[a][u]
        /\ a \in disturbed => a \in disturbed'
    BY <1>0, <1>4 DEF CreateTopic, CreateFails, Pending, AdminTypeOK
  <2>2. adminSettings[a] \in Settings
    BY <1>0, <2>1 DEF AdminRunInv, Named
  <2>3. ASSUME NEW u \in Requests
        PROVE  /\ NameOf(a, u) \in TopicNames /\ NameOf(a, u)' = NameOf(a, u)
               /\ Exists(NameOf(a, u)) => Exists(NameOf(a, u))'
    <3>1. NameOf(a, u) \in TopicNames /\ NameOf(a, u)' = NameOf(a, u)
      BY <2>1, <2>2, TwoRequests DEF NameOf, Settings
    <3>. QED  BY <3>1 DEF Stable, Exists
  <2>4. /\ answer'[a][t] \in {"created", "exists"} => Exists(NameOf(a, t))'
        /\ answer'[a][t] = "failed" => a \in disturbed'
    <3>1. CASE CreateTopic(a, t)
      <4>1. answer'[a][t] # "failed" /\ partitions' = Created(a, {t})
        BY <1>0, <3>1 DEF CreateTopic, AdminTypeOK
      <4>. QED  BY <2>3, <4>1, CreatedMakes DEF Exists
    <3>2. CASE CreateFails(a, t)
      BY <1>0, <3>2 DEF CreateFails, AdminTypeOK
    <3>. QED  BY <1>4, <3>1, <3>2
  <2>5. AnswersTrue(a)'
    BY <1>0, <2>1, <2>3, <2>4 DEF AdminRunInv, AnswersTrue
  <2>. QED  BY <2>1, <2>2, <2>5 DEF AdminRunInv, Named, SuccessTrue, FailureDisturbed
<1>5. ASSUME AdminReturns(a) PROVE AdminRunInv(a)'
  <2>1. /\ adminPhase[a] = "waiting" /\ adminPhase'[a] = "over" /\ exit_code'[a] = Verdict(a)
        /\ \A t \in Requests : answer[a][t] \in {"created", "exists", "failed"}
        /\ UNCHANGED <<partitions, adminSettings, disturbed>>
    BY <1>0, <1>5 DEF AdminReturns, AdminOver, AdminTypeOK
  <2>2. /\ adminSettings[a] \in Settings
        /\ \A t \in Requests :
             /\ answer[a][t] \in {"created", "exists"} => Exists(NameOf(a, t))
             /\ answer[a][t] = "failed" => a \in disturbed
    BY <1>0, <2>1 DEF AdminRunInv, Named, AnswersTrue
  <2>3. \A t \in Requests : Exists(NameOf(a, t))' <=> Exists(NameOf(a, t))
    BY <2>1 DEF Exists, NameOf
  <2>4. SuccessTrue(a)' /\ FailureDisturbed(a)'
    BY <2>1, <2>2, <2>3 DEF SuccessTrue, FailureDisturbed, Verdict
  <2>. QED  BY <2>1, <2>2, <2>4 DEF AdminRunInv, Named, AnswersTrue
<1>6. ASSUME AdminFails(a) PROVE AdminRunInv(a)'
  <2>1. adminPhase'[a] = "over" /\ exit_code'[a] = 1 /\ a \in disturbed'
    BY <1>0, <1>6 DEF AdminFails, AdminOver, AdminTypeOK
  <2>. QED  BY <2>1 DEF AdminRunInv, Named, AnswersTrue, SuccessTrue, FailureDisturbed
<1>7. AdminRunInv(a)'
  BY <1>2, <1>3, <1>4, <1>5, <1>6 DEF AdminStep
<1>. QED  BY <1>1, <1>7 DEF AdminInv

-----------------------------------------------------------------------------
\* A product the rates and the forced product of the command line allow.
Allowed(product) ==
  IF args.product # NoProduct THEN product = args.product
  ELSE /\ product = "POISON" => args.poison_rate > 0
       /\ product = "FLAKY" => args.flaky_rate > 0 /\ args.poison_rate < Scale
       /\ product = "Item" => args.poison_rate + args.flaky_rate < Scale

\* A record of the current run.
Stamped(r) == r.run = run /\ r.key = OrderId(args, r.offset) /\ Allowed(r.product)

Logged(n) ==
  \A i \in DOMAIN log[n] :
    /\ log[n][i].run <= run
    /\ log[n][i].run = run => Stamped(log[n][i])

LogInv ==
  /\ producerPhase # "over" => InRange(args.poison_rate) /\ InRange(args.flaky_rate)
  /\ \A r \in buffer : Stamped(r)
  /\ \A n \in TopicNames : Logged(n)
  /\ SameKeyInOrder

\* Every order of the run is written, given up or in flight.
Accounted(k) == k \in given_up \/ IsWritten(k) \/ \E r \in InFlight : r.offset = k

AccountInv ==
  /\ \A r \in buffer : r.run = run /\ r.offset < offset
  /\ producerPhase # "over" => \A k \in 0 .. offset - 1 : Accounted(k)
  /\ ExitZeroAccounts

Total == IF args.count > 0 THEN args.count ELSE 0

CountInv ==
  /\ offset <= Total
  /\ producerPhase \in {"produce", "queued"} => status = 0 /\ ~interrupted
  /\ producerPhase = "produce" => sent = offset
  /\ producerPhase = "queued"  => sent = offset - 1
  /\ producerPhase = "flush" /\ status = 0 =>
       IF interrupted THEN offset - sent \in {0, 1} ELSE sent = offset /\ sent = Total
  /\ DoneLineHonest

ProducerInv == ProducerTypeOK /\ LogInv /\ AccountInv /\ CountInv

-----------------------------------------------------------------------------
LEMMA ArgumentTypes ==
  ASSUME NEW a \in Arguments
  PROVE  /\ a.count \in Int /\ a.start_id \in Int
         /\ a.poison_rate \in Int \cup {NaN} /\ a.flaky_rate \in Int \cup {NaN}
         /\ a.product \in Products \cup {NoProduct}
BY ProducerAssumption DEF Rates

LEMMA ProductTypes ==
  ASSUME NEW a \in Arguments, NEW draw \in Draws
  PROVE  ProductOf(a, draw) \in Products
BY ArgumentTypes DEF ProductOf, Products, NoProduct

LEMMA RecordTypes ==
  ASSUME ProducerTypeOK, NEW draw \in Draws
  PROVE  RecordOf(offset, ProductOf(args, draw)) \in Record
<1>1. args \in Arguments /\ offset \in Nat /\ run \in Nat
  BY ProducerAssumption DEF ProducerTypeOK
<1>2. OrderId(args, offset) \in Int
  BY <1>1, ArgumentTypes DEF OrderId
<1>. QED  BY <1>1, <1>2, ProductTypes DEF RecordOf, Record

\* What Written(r) does to the topics.
LEMMA WrittenLog ==
  ASSUME ProducerTypeOK, NEW r \in Record, Written(r)
  PROVE  /\ log' \in [TopicNames -> Seq(Record)]
         /\ \A n \in TopicNames \ {orders_topic} : log'[n] = log[n]
         /\ Len(log[orders_topic]) \in Nat
         /\ DOMAIN log[orders_topic] = 1 .. Len(log[orders_topic])
         /\ DOMAIN log'[orders_topic] = 1 .. Len(log[orders_topic]) + 1
         /\ log'[orders_topic][Len(log[orders_topic]) + 1] = r
         /\ \A i \in DOMAIN log[orders_topic] : log'[orders_topic][i] = log[orders_topic][i]
<1>1. log \in [TopicNames -> Seq(Record)] /\ orders_topic \in TopicNames
  BY DEF ProducerTypeOK
<1>2. log[orders_topic] \in Seq(Record)
  BY <1>1
<1>3. /\ log'[orders_topic] = Append(log[orders_topic], r)
      /\ \A n \in TopicNames \ {orders_topic} : log'[n] = log[n]
      /\ DOMAIN log' = TopicNames
  BY <1>1 DEF Written
<1>4. Append(log[orders_topic], r) \in Seq(Record)
  BY <1>2
<1>5. log' \in [TopicNames -> Seq(Record)]
  BY <1>1, <1>4 DEF Written
<1>. QED  BY <1>2, <1>3, <1>5

\* The next state of the producer's variables, by the kind of step.
LEMMA ProducerTypeStep ==
  ASSUME ProducerTypeOK, ProducerNext
  PROVE  ProducerTypeOK'
<1>. USE DEF ProducerTypeOK
<1>0. ASSUME NEW a \in Arguments, NewRun(a), orders_topic' \in TopicNames,
             producerPhase' \in {"produce", "over"}, status' \in {0, 1, 2}
      PROVE  ProducerTypeOK'
  <2>1. run' \in 0 .. ProducerRuns /\ args' \in Arguments
    BY <1>0, ProducerAssumption DEF NewRun
  <2>2. offset' \in Nat /\ sent' \in Nat /\ interrupted' \in BOOLEAN
    BY <1>0 DEF NewRun
  <2>3. buffer' = {} /\ served' = {} /\ metadata' = "none" /\ given_up' = {} /\ log' = log
    BY <1>0 DEF NewRun
  <2>4. status' \in -1 .. 2
    BY <1>0
  <2>. QED  BY <1>0, <2>1, <2>2, <2>3, <2>4
<1>1. ASSUME NEW a \in Arguments, NEW s \in Resolved, ProducerStart(a, s) PROVE ProducerTypeOK'
  <2>1. s.orders_topic \in TopicNames
    BY <1>1, ResolvedNames DEF ProducerStart, Settings
  <2>. QED  BY <1>0, <1>1, <2>1 DEF ProducerStart
<1>2. ASSUME NEW a \in Arguments, NEW s \in Resolved, ProducerRefuses(a, s) PROVE ProducerTypeOK'
  BY <1>0, <1>2 DEF ProducerRefuses, NewRun
<1>3. ASSUME NEW draw \in Draws, Produce(draw) PROVE ProducerTypeOK'
  <2>1. buffer' \in SUBSET Record /\ served' \subseteq buffer'
    BY <1>3, RecordTypes DEF Produce
  <2>2. UNCHANGED <<log, run, args, orders_topic, sent, status, interrupted, metadata, given_up>>
    BY <1>3 DEF Produce, runVars
  <2>3. offset' \in Nat /\ producerPhase' \in {"produce", "queued", "flush", "over"}
    BY <1>3 DEF Produce
  <2>. QED  BY <2>1, <2>2, <2>3
<1>4. ASSUME NEW result \in {0, 1}, LeaveLoop(result), interrupted' \in BOOLEAN
      PROVE  ProducerTypeOK'
  <2>1. UNCHANGED <<log, run, args, orders_topic, offset, sent, buffer, served, metadata,
                    given_up>>
    BY <1>4 DEF LeaveLoop, runVars, clientVars
  <2>2. status' \in -1 .. 2 /\ producerPhase' \in {"produce", "queued", "flush", "over"}
    BY <1>4 DEF LeaveLoop
  <2>. QED  BY <1>4, <2>1, <2>2
<1>5. CASE PollCallbacks
  BY <1>5 DEF PollCallbacks, runVars, InFlight
<1>6. ASSUME NEW result \in -1 .. 2, Over(result) PROVE ProducerTypeOK'
  BY <1>6 DEF Over, runVars
<1>7. ASSUME NEW r \in InFlight, Delivered(r) \/ AckLost(r) PROVE ProducerTypeOK'
  <2>1. r \in Record /\ r \in buffer /\ Written(r)
    BY <1>7 DEF InFlight, Delivered, AckLost
  <2>2. log' \in [TopicNames -> Seq(Record)]
    BY <2>1, WrittenLog
  <2>. QED  BY <1>7, <2>1, <2>2 DEF Delivered, AckLost, runVars, loopVars, clientVars
<1>8. ASSUME NEW r \in InFlight, DeliveryFails(r) PROVE ProducerTypeOK'
  <2>1. r \in buffer /\ r.offset \in Nat
    BY <1>8 DEF InFlight, Record
  <2>. QED  BY <1>8, <2>1 DEF DeliveryFails, GivesUp, runVars, loopVars
<1>9. CASE BufferFull \/ ProduceRefused \/ SerializerRaises \/ Exhausted \/ Interrupt
  BY <1>4, <1>9 DEF BufferFull, ProduceRefused, SerializerRaises, Exhausted, Interrupt
<1>10. CASE FlushCompletes \/ FlushTimesOut \/ ProducerKilled
  BY <1>6, <1>10 DEF FlushCompletes, FlushTimesOut, ProducerKilled
<1>11. CASE Refresh
  BY <1>11 DEF Refresh, runVars, loopVars
<1>. QED
  BY <1>1, <1>2, <1>3, <1>5, <1>7, <1>8, <1>9, <1>10, <1>11 DEF ProducerNext, ProducerStep, ClientStep

-----------------------------------------------------------------------------
LEMMA LoggedTypes ==
  ASSUME ProducerTypeOK, NEW n \in TopicNames, NEW i \in DOMAIN log[n]
  PROVE  /\ log[n][i] \in Record
         /\ log[n][i].run \in Nat /\ log[n][i].offset \in Nat /\ log[n][i].key \in Int
<1>1. log[n] \in Seq(Record)
  BY DEF ProducerTypeOK
<1>2. log[n][i] \in Record
  BY <1>1
<1>. QED  BY <1>2 DEF Record

\* The product drawn is one the command line allows (orders.py:59-70).
LEMMA DrawAllowed ==
  ASSUME args \in Arguments, NEW draw \in Draws,
         InRange(args.poison_rate), InRange(args.flaky_rate)
  PROVE  Allowed(ProductOf(args, draw))
<1>1. /\ args.poison_rate \in Int /\ args.flaky_rate \in Int
      /\ args.product \in Products \cup {NoProduct}
      /\ Scale \in Nat /\ draw \in 0 .. Scale - 1
  BY ArgumentTypes, ProducerAssumption DEF InRange, Draws
<1>2. CASE args.product # NoProduct
  BY <1>2 DEF Allowed, ProductOf
<1>3. CASE args.product = NoProduct
  <2>. DEFINE poison == args.poison_rate
              flaky  == args.flaky_rate
  <2>1. ProductOf(args, draw) = IF draw < poison THEN "POISON"
                                ELSE IF draw < poison + flaky THEN "FLAKY" ELSE "Item"
    BY <1>3 DEF ProductOf
  <2>2. draw < poison => poison > 0
    BY <1>1
  <2>3. ~(draw < poison) /\ draw < poison + flaky => flaky > 0 /\ poison < Scale
    BY <1>1
  <2>4. ~(draw < poison + flaky) => poison + flaky < Scale
    BY <1>1
  <2>. QED  BY <1>3, <2>1, <2>2, <2>3, <2>4 DEF Allowed
<1>. QED  BY <1>2, <1>3

\* The steps that neither write, nor take an order, nor begin a run.
Aside ==
  /\ UNCHANGED <<log, run, args, orders_topic>>
  /\ buffer' \subseteq buffer
  /\ producerPhase' # "over" => producerPhase # "over"

LEMMA StepKinds ==
  ASSUME ProducerTypeOK, ProducerNext \/ UNCHANGED producerVars
  PROVE  \/ Aside
         \/ \E a \in Arguments, s \in Resolved : ProducerStart(a, s) \/ ProducerRefuses(a, s)
         \/ \E draw \in Draws : Produce(draw)
         \/ \E r \in InFlight : Delivered(r) \/ AckLost(r)
<1>. USE DEF Aside
<1>1. CASE BufferFull \/ ProduceRefused \/ SerializerRaises \/ Exhausted \/ Interrupt
  BY <1>1 DEF BufferFull, ProduceRefused, SerializerRaises, Exhausted, Interrupt, LeaveLoop,
     MoreOrders, runVars, clientVars
<1>2. CASE PollCallbacks
  BY <1>2 DEF PollCallbacks, InFlight, runVars
<1>3. CASE FlushCompletes \/ FlushTimesOut \/ ProducerKilled
  BY <1>3 DEF FlushCompletes, FlushTimesOut, ProducerKilled, Over, runVars
<1>4. ASSUME NEW r \in InFlight, DeliveryFails(r) PROVE Aside
  BY <1>4 DEF DeliveryFails, GivesUp, runVars, loopVars
<1>5. CASE Refresh
  BY <1>5 DEF Refresh, runVars, loopVars
<1>6. CASE UNCHANGED producerVars
  BY <1>6 DEF producerVars, runVars, loopVars, clientVars
<1>. QED
  BY <1>1, <1>2, <1>3, <1>4, <1>5, <1>6 DEF ProducerNext, ProducerStep, ClientStep

LEMMA LogStep ==
  ASSUME ProducerTypeOK, LogInv, ProducerNext \/ UNCHANGED producerVars
  PROVE  LogInv'
<1>. USE DEF LogInv
<1>1. CASE Aside
  BY <1>1 DEF Aside, Logged, Stamped, Allowed, SameKeyInOrder
<1>2. ASSUME NEW a \in Arguments, NEW s \in Resolved, ProducerStart(a, s) \/ ProducerRefuses(a, s)
      PROVE  LogInv'
  <2>1. /\ log' = log /\ run' = run + 1 /\ buffer' = {} /\ args' = a
        /\ producerPhase' # "over" => InRange(a.poison_rate) /\ InRange(a.flaky_rate)
    BY <1>2 DEF ProducerStart, ProducerRefuses, NewRun
  <2>2. run \in Nat
    BY ProducerAssumption DEF ProducerTypeOK
  <2>3. ASSUME NEW n \in TopicNames PROVE Logged(n)'
    <3>1. ASSUME NEW i \in DOMAIN log[n] PROVE log[n][i].run <= run' /\ log[n][i].run # run'
      <4>1. log[n][i].run \in Nat /\ log[n][i].run <= run
        BY LoggedTypes DEF Logged
      <4>. QED  BY <2>1, <2>2, <4>1
    <3>. QED  BY <2>1, <3>1 DEF Logged
  <2>. QED  BY <2>1, <2>3 DEF SameKeyInOrder
<1>3. ASSUME NEW draw \in Draws, Produce(draw) PROVE LogInv'
  <2>. DEFINE r == RecordOf(offset, ProductOf(args, draw))
  <2>1. /\ UNCHANGED <<log, run, args, orders_topic>>
        /\ buffer' = buffer \cup {r} /\ producerPhase # "over"
    BY <1>3 DEF Produce, MoreOrders, runVars
  <2>2. Allowed(ProductOf(args, draw))
    BY <2>1, DrawAllowed DEF ProducerTypeOK
  <2>3. Stamped(r)
    BY <2>2 DEF RecordOf, Stamped
  <2>. QED  BY <2>1, <2>3 DEF Logged, Stamped, Allowed, SameKeyInOrder
<1>4. ASSUME NEW r \in InFlight, Delivered(r) \/ AckLost(r) PROVE LogInv'
  <2>. DEFINE ot == orders_topic
              len == Len(log[orders_topic])
  <2>1. /\ r \in Record /\ Stamped(r) /\ Written(r)
        /\ UNCHANGED <<run, args, orders_topic, buffer, producerPhase>>
        /\ ot \in TopicNames /\ run \in Nat /\ args.start_id \in Int
    BY <1>4, ArgumentTypes, ProducerAssumption
    DEF InFlight, Delivered, AckLost, runVars, loopVars, clientVars, ProducerTypeOK
  <2>2. /\ \A n \in TopicNames \ {ot} : log'[n] = log[n]
        /\ len \in Nat /\ DOMAIN log[ot] = 1 .. len /\ DOMAIN log'[ot] = 1 .. len + 1
        /\ log'[ot][len + 1] = r
        /\ \A i \in 1 .. len : log'[ot][i] = log[ot][i]
    BY <2>1, WrittenLog
  <2>. HIDE DEF ot, len
  <2>3. ASSUME NEW n \in TopicNames PROVE Logged(n)'
    <3>1. CASE n # ot
      BY <2>1, <2>2, <3>1 DEF Logged, Stamped, Allowed
    <3>2. CASE n = ot
      <4>1. ASSUME NEW i \in 1 .. len + 1
            PROVE  log'[ot][i].run <= run /\ (log'[ot][i].run = run => Stamped(log'[ot][i]))
        <5>1. CASE i = len + 1
          BY <2>1, <2>2, <5>1 DEF Stamped
        <5>2. CASE i # len + 1
          BY <2>1, <2>2, <5>2 DEF Logged
        <5>. QED  BY <5>1, <5>2
      <4>. QED  BY <2>1, <2>2, <3>2, <4>1 DEF Logged, Stamped, Allowed
    <3>. QED  BY <3>1, <3>2
  <2>4. ASSUME NEW i \in 1 .. len, log[ot][i].key = r.key
        PROVE  \/ log[ot][i].run < r.run
               \/ log[ot][i].run = r.run /\ log[ot][i].offset = r.offset
    <3>1. /\ log[ot][i].run \in Nat /\ log[ot][i].offset \in Nat /\ r.offset \in Nat
          /\ log[ot][i].run <= run /\ r.run = run
          /\ log[ot][i].run = run => Stamped(log[ot][i])
      BY <2>1, <2>2, LoggedTypes DEF Logged, Stamped, Record
    <3>2. CASE log[ot][i].run = run
      BY <2>1, <2>4, <3>1, <3>2 DEF Stamped, OrderId
    <3>3. CASE log[ot][i].run # run
      BY <2>1, <3>1, <3>3
    <3>. QED  BY <3>2, <3>3
  <2>5. SameKeyInOrder'
    <3>. SUFFICES ASSUME NEW n \in TopicNames, NEW i \in DOMAIN log'[n], NEW j \in DOMAIN log'[n],
                         i < j, log'[n][i].key = log'[n][j].key
                  PROVE  \/ log'[n][i].run < log'[n][j].run
                         \/ /\ log'[n][i].run = log'[n][j].run
                            /\ log'[n][i].offset = log'[n][j].offset
      BY DEF SameKeyInOrder
    <3>1. CASE n # ot
      BY <2>2, <3>1 DEF SameKeyInOrder
    <3>2. CASE n = ot /\ j = len + 1
      <4>1. i \in 1 .. len
        BY <2>2, <3>2
      <4>. QED  BY <2>2, <2>4, <3>2, <4>1
    <3>3. CASE n = ot /\ j # len + 1
      <4>1. i \in 1 .. len /\ j \in 1 .. len
        BY <2>2, <3>3
      <4>. QED  BY <2>1, <2>2, <3>3, <4>1 DEF SameKeyInOrder
    <3>. QED  BY <3>1, <3>2, <3>3
  <2>. QED  BY <2>1, <2>3, <2>5 DEF Stamped, Allowed
<1>. QED  BY <1>1, <1>2, <1>3, <1>4, StepKinds

-----------------------------------------------------------------------------
\* An order of the current run that was written stays written.
LEMMA WrittenStays ==
  ASSUME ProducerTypeOK, UNCHANGED <<run, orders_topic>>,
         log' = log \/ \E r \in Record : Written(r),
         NEW k \in Nat, IsWritten(k)
  PROVE  IsWritten(k)'
<1>1. CASE log' = log
  BY <1>1 DEF IsWritten
<1>2. ASSUME NEW r \in Record, Written(r) PROVE IsWritten(k)'
  <2>1. PICK i \in DOMAIN log[orders_topic] :
          log[orders_topic][i].run = run /\ log[orders_topic][i].offset = k
    BY DEF IsWritten
  <2>2. i \in DOMAIN log'[orders_topic] /\ log'[orders_topic][i] = log[orders_topic][i]
    BY <1>2, <2>1, WrittenLog
  <2>. QED  BY <2>1, <2>2 DEF IsWritten
<1>. QED  BY <1>1, <1>2

LEMMA AccountStep ==
  ASSUME ProducerTypeOK, AccountInv, ProducerNext \/ UNCHANGED producerVars
  PROVE  AccountInv'
<1>. USE DEF AccountInv
<1>0. /\ offset \in Nat /\ buffer \in SUBSET Record
      /\ \A r \in Record : r.offset \in Nat
  BY DEF ProducerTypeOK, Record
<1>1. ASSUME NEW a \in Arguments, NEW s \in Resolved, ProducerStart(a, s) \/ ProducerRefuses(a, s)
      PROVE  AccountInv'
  <2>1. /\ offset' = 0 /\ buffer' = {}
        /\ producerPhase' = "over" => status' # 0
    BY <1>1 DEF ProducerStart, ProducerRefuses, NewRun
  <2>2. 0 .. offset' - 1 = {}
    BY <2>1
  <2>. QED  BY <2>1, <2>2 DEF ExitZeroAccounts
<1>2. ASSUME NEW draw \in Draws, Produce(draw) PROVE AccountInv'
  <2>. DEFINE r == RecordOf(offset, ProductOf(args, draw))
  <2>1. /\ UNCHANGED <<log, run, orders_topic, served, given_up>>
        /\ buffer' = buffer \cup {r} /\ offset' = offset + 1
        /\ producerPhase # "over" /\ producerPhase' # "over"
    BY <1>2 DEF Produce, MoreOrders, runVars
  <2>2. r.offset = offset /\ r.run = run
    BY DEF RecordOf
  <2>3. r \notin served
    BY <1>0, <2>2 DEF ProducerTypeOK
  <2>. HIDE DEF r
  <2>4. InFlight' = InFlight \cup {r}
    BY <2>1, <2>3 DEF InFlight
  <2>5. ASSUME NEW k \in 0 .. offset' - 1 PROVE Accounted(k)'
    <3>1. CASE k = offset
      BY <2>2, <2>4, <3>1 DEF Accounted
    <3>2. CASE k # offset
      <4>1. k \in 0 .. offset - 1
        BY <1>0, <2>1, <3>2
      <4>. QED  BY <2>1, <2>4, <4>1 DEF Accounted, IsWritten
    <3>. QED  BY <3>1, <3>2
  <2>6. \A q \in buffer' : q.run = run' /\ q.offset < offset'
    BY <1>0, <2>1, <2>2
  <2>. QED  BY <2>1, <2>5, <2>6 DEF ExitZeroAccounts
\* Nothing is lost from sight as long as an order in flight stays there, or is written
\* or given up.
<1>3. ASSUME UNCHANGED <<run, orders_topic, offset>>, given_up \subseteq given_up',
             log' = log \/ \E r \in Record : Written(r), buffer' \subseteq buffer,
             \A r \in InFlight : r \in InFlight' \/ r.offset \in given_up' \/ IsWritten(r.offset)',
             producerPhase' # "over" => producerPhase # "over",
             producerPhase' = "over" /\ status' = 0 => producerPhase = "over" /\ status = 0
      PROVE  AccountInv'
  <2>1. ASSUME NEW k \in 0 .. offset - 1, Accounted(k) PROVE Accounted(k)'
    BY <1>0, <1>3, <2>1, WrittenStays DEF Accounted
  <2>2. ASSUME NEW k \in 0 .. offset - 1, k \in given_up \/ IsWritten(k)
        PROVE  k \in given_up' \/ IsWritten(k)'
    BY <1>0, <1>3, <2>2, WrittenStays
  <2>3. ExitZeroAccounts'
    BY <1>3, <2>2 DEF ExitZeroAccounts
  <2>. QED  BY <1>3, <2>1, <2>3
<1>4. CASE BufferFull \/ ProduceRefused \/ SerializerRaises \/ Exhausted \/ Interrupt
  <2>1. /\ UNCHANGED <<run, orders_topic, offset, log, buffer, served, given_up>>
        /\ producerPhase # "over" /\ producerPhase' # "over"
    BY <1>4 DEF BufferFull, ProduceRefused, SerializerRaises, Exhausted, Interrupt, LeaveLoop, MoreOrders,
       runVars, clientVars
  <2>. QED  BY <1>3, <2>1 DEF InFlight
<1>5. CASE PollCallbacks
  <2>1. /\ UNCHANGED <<run, orders_topic, offset, log, given_up>> /\ buffer' = InFlight
        /\ served' = {} /\ producerPhase # "over" /\ producerPhase' # "over"
    BY <1>5 DEF PollCallbacks, runVars
  <2>2. buffer' \subseteq buffer /\ InFlight' = InFlight
    BY <2>1 DEF InFlight
  <2>. QED  BY <1>3, <2>1, <2>2
<1>6. CASE FlushTimesOut \/ ProducerKilled
  <2>1. buffer' = {} /\ producerPhase' = "over" /\ status' # 0
    BY <1>6 DEF FlushTimesOut, ProducerKilled, Over
  <2>. QED  BY <2>1 DEF ExitZeroAccounts
<1>7. CASE FlushCompletes
  <2>1. /\ UNCHANGED <<run, orders_topic, offset, log, given_up>>
        /\ buffer' = {} /\ InFlight = {} /\ producerPhase # "over" /\ producerPhase' = "over"
    BY <1>7 DEF FlushCompletes, Over, runVars
  <2>. QED  BY <2>1 DEF ExitZeroAccounts, Accounted, IsWritten
<1>8. ASSUME NEW r \in InFlight, Delivered(r) \/ AckLost(r) PROVE AccountInv'
  <2>1. /\ UNCHANGED <<run, orders_topic, offset, buffer, given_up, producerPhase, status>>
        /\ Written(r) /\ served' \in {served, served \cup {r}}
        /\ r \in Record /\ r.run = run
    BY <1>0, <1>8 DEF Delivered, AckLost, InFlight, runVars, loopVars, clientVars
  <2>2. IsWritten(r.offset)'
    BY <2>1, WrittenLog DEF IsWritten
  <2>3. \A q \in InFlight : q \in InFlight' \/ q = r
    BY <2>1 DEF InFlight
  <2>. QED  BY <1>3, <2>1, <2>2, <2>3
<1>9. ASSUME NEW r \in InFlight, DeliveryFails(r) PROVE AccountInv'
  <2>1. /\ UNCHANGED <<run, orders_topic, offset, buffer, log, producerPhase, status>>
        /\ served' = served \cup {r} /\ given_up' = given_up \cup {r.offset}
    BY <1>9 DEF DeliveryFails, GivesUp, runVars, loopVars
  <2>2. \A q \in InFlight : q \in InFlight' \/ q = r
    BY <2>1 DEF InFlight
  <2>. QED  BY <1>3, <2>1, <2>2
<1>10. CASE Refresh \/ UNCHANGED producerVars
  <2>1. UNCHANGED <<run, orders_topic, offset, buffer, served, given_up, log, producerPhase,
                    status>>
    BY <1>10 DEF Refresh, producerVars, runVars, loopVars, clientVars
  <2>. QED  BY <1>3, <2>1 DEF InFlight
<1>. QED
  BY <1>1, <1>2, <1>4, <1>5, <1>6, <1>7, <1>8, <1>9, <1>10
  DEF ProducerNext, ProducerStep, ClientStep

LEMMA CountStep ==
  ASSUME ProducerTypeOK, CountInv, ProducerNext \/ UNCHANGED producerVars
  PROVE  CountInv'
<1>0. /\ offset \in Nat /\ sent \in Nat /\ run \in Nat /\ args.count \in Int
      /\ Total \in Nat /\ args.count <= Total
  BY ArgumentTypes, ProducerAssumption DEF ProducerTypeOK, Total
<1>1. ASSUME NEW a \in Arguments, NEW s \in Resolved, ProducerStart(a, s) \/ ProducerRefuses(a, s)
      PROVE  CountInv'
  <2>1. /\ offset' = 0 /\ sent' = 0 /\ interrupted' = FALSE /\ args' = a
        /\ \/ producerPhase' = "produce" /\ status' = 0
           \/ producerPhase' = "over" /\ status' # 0
    BY <1>1 DEF ProducerStart, ProducerRefuses, NewRun
  <2>2. offset' <= Total'
    BY <2>1, ArgumentTypes DEF Total
  <2>. QED  BY <2>1, <2>2 DEF CountInv, DoneLineHonest
<1>2. ASSUME NEW draw \in Draws, Produce(draw) PROVE CountInv'
  <2>1. /\ UNCHANGED <<args, run, sent, status, interrupted>> /\ offset' = offset + 1
        /\ producerPhase = "produce" /\ producerPhase' = "queued" /\ offset < args.count
    BY <1>2 DEF Produce, MoreOrders, runVars
  <2>2. offset' <= Total' /\ sent' = offset' - 1
    BY <1>0, <2>1 DEF Total, CountInv
  <2>. QED  BY <2>1, <2>2 DEF CountInv, DoneLineHonest
<1>3. CASE PollCallbacks
  <2>1. /\ UNCHANGED <<args, run, offset, status, interrupted>> /\ sent' = sent + 1
        /\ producerPhase = "queued" /\ producerPhase' = "produce"
    BY <1>3 DEF PollCallbacks, runVars
  <2>2. sent' = offset /\ Total' = Total
    BY <1>0, <2>1 DEF CountInv, Total
  <2>. QED  BY <2>1, <2>2 DEF CountInv, DoneLineHonest
<1>4. CASE BufferFull \/ ProduceRefused \/ SerializerRaises \/ Exhausted \/ Interrupt
  <2>1. /\ UNCHANGED <<args, run, offset, sent>> /\ producerPhase' = "flush"
        /\ producerPhase \in {"produce", "queued"} /\ Total' = Total
    BY <1>4 DEF BufferFull, ProduceRefused, SerializerRaises, Exhausted, Interrupt, LeaveLoop,
       MoreOrders, runVars, Total
  <2>2. CASE BufferFull \/ ProduceRefused \/ SerializerRaises
    <3>1. status' = 1
      BY <2>2 DEF BufferFull, ProduceRefused, SerializerRaises, LeaveLoop
    <3>. QED  BY <2>1, <3>1 DEF CountInv, DoneLineHonest
  <2>3. CASE Exhausted
    <3>1. offset >= args.count /\ producerPhase = "produce" /\ interrupted' = interrupted
      BY <2>3 DEF Exhausted
    <3>2. ~interrupted /\ sent = offset /\ offset <= Total
      BY <3>1 DEF CountInv
    <3>3. offset = Total
      BY <1>0, <3>1, <3>2 DEF Total
    <3>. QED  BY <2>1, <3>1, <3>2, <3>3 DEF CountInv, DoneLineHonest
  <2>4. CASE Interrupt
    <3>1. interrupted'
      BY <2>4 DEF Interrupt
    <3>2. offset - sent \in {0, 1}
      BY <1>0, <2>1 DEF CountInv
    <3>. QED  BY <2>1, <3>1, <3>2 DEF CountInv, DoneLineHonest
  <2>. QED  BY <1>4, <2>2, <2>3, <2>4
<1>5. CASE FlushTimesOut \/ ProducerKilled
  <2>1. /\ UNCHANGED <<args, offset>> /\ producerPhase' = "over" /\ status' # 0
    BY <1>5 DEF FlushTimesOut, ProducerKilled, Over, runVars
  <2>. QED  BY <2>1 DEF CountInv, DoneLineHonest, Total
<1>6. CASE FlushCompletes
  <2>1. /\ UNCHANGED <<args, run, offset, sent, status, interrupted>>
        /\ producerPhase = "flush" /\ producerPhase' = "over"
    BY <1>6 DEF FlushCompletes, Over, runVars
  <2>. QED  BY <2>1 DEF CountInv, DoneLineHonest, Total
<1>7. CASE ClientStep \/ UNCHANGED producerVars
  <2>1. UNCHANGED <<args, run, offset, sent, status, interrupted, producerPhase>>
    BY <1>7 DEF ClientStep, Refresh, Delivered, AckLost, DeliveryFails, GivesUp, producerVars, runVars,
       loopVars
  <2>. QED  BY <2>1 DEF CountInv, DoneLineHonest, Total
<1>. QED
  BY <1>1, <1>2, <1>3, <1>4, <1>5, <1>6, <1>7 DEF ProducerNext, ProducerStep

-----------------------------------------------------------------------------
IntakeInv == AdminInv /\ ProducerInv

LEMMA InitIntake == Init => IntakeInv
<1>. SUFFICES ASSUME Init PROVE IntakeInv
  OBVIOUS
<1>1. AdminTypeOK
  BY SomeResolved, IntakeAssumption DEF Init, AdminInit, AdminTypeOK, NoAnswers
<1>2. ASSUME NEW a \in AdminRuns PROVE AdminRunInv(a)
  BY DEF Init, AdminInit, AdminRunInv, Named, AnswersTrue, SuccessTrue, FailureDisturbed
<1>3. ProducerTypeOK
  <2>1. log \in [TopicNames -> Seq(Record)]
    BY DEF Init, ProducerInit
  <2>2. args \in Arguments
    BY ProducerAssumption DEF Init, ProducerInit
  <2>3. orders_topic \in TopicNames
    BY ClusterAssumption DEF Init, ProducerInit
  <2>4. run \in 0 .. ProducerRuns /\ status \in -1 .. 2 /\ offset \in Nat /\ sent \in Nat
    BY ProducerAssumption DEF Init, ProducerInit
  <2>5. /\ producerPhase = "over" /\ interrupted = FALSE
        /\ buffer = {} /\ served = {} /\ metadata = "none" /\ given_up = {}
    BY DEF Init, ProducerInit
  <2>. QED  BY <2>1, <2>2, <2>3, <2>4, <2>5 DEF ProducerTypeOK
<1>4. LogInv
  <2>1. producerPhase = "over" /\ buffer = {} /\ \A n \in TopicNames : DOMAIN log[n] = {}
    BY DEF Init, ProducerInit
  <2>. QED  BY <2>1 DEF LogInv, Logged, SameKeyInOrder
<1>5. AccountInv
  BY DEF Init, ProducerInit, AccountInv, ExitZeroAccounts
<1>6. CountInv
  <2>1. /\ producerPhase = "over" /\ ~interrupted /\ offset = 0 /\ sent = 0 /\ run = 0
        /\ args \in Arguments
    BY ProducerAssumption DEF Init, ProducerInit
  <2>2. offset <= Total
    BY <2>1, ArgumentTypes DEF Total
  <2>. QED  BY <2>1, <2>2 DEF CountInv, DoneLineHonest
<1>. QED  BY <1>1, <1>2, <1>3, <1>4, <1>5, <1>6 DEF IntakeInv, AdminInv, ProducerInv

\* The programs share the cluster and the bound on faults only; the producer changes
\* no topic.
LEMMA AdminAsideStep ==
  ASSUME AdminInv, partitions' = partitions, UNCHANGED adminVars, faults' \in Nat
  PROVE  AdminInv'
<1>1. Stable
  BY DEF Stable, Exists
<1>2. UNCHANGED <<adminPhase, adminSettings, answer, exit_code, disturbed>>
  BY DEF adminVars
<1>3. \A a \in AdminRuns : AdminRunInv(a)'
  BY <1>1, <1>2, OthersKeep DEF AdminInv
<1>. QED  BY <1>2, <1>3 DEF AdminInv, AdminTypeOK

LEMMA ProducerFaults ==
  ASSUME faults \in Nat, ProducerNext
  PROVE  partitions' = partitions /\ faults' \in Nat
BY DEF ProducerNext, ProducerStep, ClientStep, ProducerStart, ProducerRefuses, NewRun, Produce,
   BufferFull, SerializerRaises, LeaveLoop, PollCallbacks, Exhausted, Interrupt, Over,
   FlushCompletes, FlushTimesOut, ProducerKilled, ProduceRefused, Refresh, Delivered, AckLost,
   DeliveryFails, GivesUp, Fault

LEMMA IntakeStep == IntakeInv /\ [Next]_vars => IntakeInv'
<1>. SUFFICES ASSUME IntakeInv, [Next]_vars PROVE IntakeInv'
  OBVIOUS
<1>0. AdminInv /\ AdminTypeOK /\ ProducerInv /\ ProducerTypeOK /\ faults \in Nat
  BY DEF IntakeInv, AdminInv, ProducerInv, AdminTypeOK
<1>1. AdminInv'
  <2>1. ASSUME NEW a \in AdminRuns, AdminStep(a) PROVE AdminInv'
    BY <1>0, <2>1, AdminTypeStep, AdminSoundStep
  <2>2. CASE ProducerNext /\ UNCHANGED adminVars
    BY <1>0, <2>2, ProducerFaults, AdminAsideStep
  <2>3. CASE UNCHANGED vars
    BY <1>0, <2>3, AdminAsideStep DEF vars
  <2>. QED  BY <2>1, <2>2, <2>3 DEF Next, AdminNext
<1>2. ProducerNext \/ UNCHANGED producerVars
  BY DEF Next, vars
<1>3. ProducerTypeOK'
  BY <1>0, <1>2, ProducerTypeStep
     DEF producerVars, runVars, loopVars, clientVars, ProducerTypeOK
<1>. QED
  BY <1>0, <1>1, <1>2, <1>3, LogStep, AccountStep, CountStep DEF IntakeInv, ProducerInv

LEMMA IntakeInvariance == Spec => []IntakeInv
<1>. QED  BY InitIntake, IntakeStep, PTL DEF Spec

-----------------------------------------------------------------------------
\* A run started after its topic was made: the topic stays, and its client cannot
\* have learnt otherwise.
PreparedInv ==
  /\ prepared \in BOOLEAN
  /\ prepared => Exists(orders_topic) /\ metadata # "missing"

\* What create_topics says it made is there.
LEMMA CreatedExists ==
  ASSUME AdminInv, NEW n \in TopicNames, CreatedFor(n)
  PROVE  Exists(n)
<1>1. PICK a \in AdminRuns : /\ adminPhase[a] = "over" /\ exit_code[a] = 0
                             /\ adminSettings[a].orders_topic = n
  BY DEF CreatedFor
<1>2. \A t \in Requests : Exists(NameOf(a, t))
  BY <1>1 DEF AdminInv, AdminRunInv, SuccessTrue
<1>. QED  BY <1>1, <1>2, TwoRequests DEF NameOf

\* Where the client's belief comes from.
LEMMA MetadataSteps ==
  ASSUME ProducerNext
  PROVE  \/ \E a \in Arguments : NewRun(a)
         \/ /\ UNCHANGED <<run, orders_topic>>
            /\ metadata' \in {metadata, "none",
                              IF Exists(orders_topic) THEN "found" ELSE "missing"}
<1>1. CASE \E draw \in Draws : Produce(draw)
  BY <1>1 DEF Produce, runVars
<1>2. CASE BufferFull \/ ProduceRefused \/ SerializerRaises \/ Exhausted \/ Interrupt
  BY <1>2 DEF BufferFull, ProduceRefused, SerializerRaises, Exhausted, Interrupt, LeaveLoop,
     runVars, clientVars
<1>3. CASE PollCallbacks
  BY <1>3 DEF PollCallbacks, runVars
<1>4. CASE FlushCompletes \/ FlushTimesOut \/ ProducerKilled
  BY <1>4 DEF FlushCompletes, FlushTimesOut, ProducerKilled, Over, runVars
<1>5. CASE ClientStep
  BY <1>5 DEF ClientStep, Refresh, Delivered, AckLost, DeliveryFails, GivesUp, runVars, clientVars
<1>6. CASE \E a \in Arguments, s \in Resolved : ProducerStart(a, s) \/ ProducerRefuses(a, s)
  BY <1>6 DEF ProducerStart, ProducerRefuses
<1>. QED  BY <1>1, <1>2, <1>3, <1>4, <1>5, <1>6 DEF ProducerNext, ProducerStep

LEMMA PreparedStep == IntakeInv /\ IntakeInv' /\ PreparedInv /\ [Next]_vars => PreparedInv'
<1>. SUFFICES ASSUME IntakeInv, IntakeInv', PreparedInv, [Next]_vars PROVE PreparedInv'
  OBVIOUS
<1>0. /\ AdminInv /\ AdminTypeOK /\ run \in Nat /\ faults \in Nat
      /\ orders_topic \in TopicNames /\ orders_topic' \in TopicNames
  <2>1. AdminInv /\ ProducerTypeOK /\ ProducerTypeOK'
    BY DEF IntakeInv, ProducerInv
  <2>2. AdminTypeOK
    BY <2>1 DEF AdminInv
  <2>3. run \in Nat /\ orders_topic \in TopicNames /\ orders_topic' \in TopicNames
    BY <2>1, ProducerAssumption DEF ProducerTypeOK
  <2>4. faults \in Nat
    BY <2>2 DEF AdminTypeOK
  <2>. QED  BY <2>1, <2>2, <2>3, <2>4
<1>1. CASE run' = run /\ prepared' = prepared
  <2>1. CASE AdminNext /\ UNCHANGED producerVars
    <3>1. Stable
      BY <1>0, <2>1, AdminTypeStep DEF AdminNext
    <3>2. UNCHANGED <<orders_topic, metadata>>
      BY <2>1 DEF producerVars, runVars, clientVars
    <3>3. Exists(orders_topic) => Exists(orders_topic)'
      BY <1>0, <3>1, <3>2 DEF Stable, Exists
    <3>. QED  BY <1>1, <3>2, <3>3, Zenon DEF PreparedInv
  <2>2. CASE ProducerNext
    <3>1. partitions' = partitions
      BY <1>0, <2>2, ProducerFaults
    <3>2. \A a \in Arguments : ~NewRun(a)
      BY <1>0, <1>1 DEF NewRun
    <3>3. /\ orders_topic' = orders_topic
          /\ metadata' \in {metadata, "none",
                            IF Exists(orders_topic) THEN "found" ELSE "missing"}
      BY <2>2, <3>2, MetadataSteps
    <3>4. Exists(orders_topic)' <=> Exists(orders_topic)
      BY <3>1, <3>3 DEF Exists
    <3>5. prepared => Exists(orders_topic)' /\ metadata' # "missing"
      BY <3>3, <3>4 DEF PreparedInv
    <3>6. prepared' \in BOOLEAN
      BY <1>1, Zenon DEF PreparedInv
    <3>. QED  BY <1>1, <3>5, <3>6, Zenon DEF PreparedInv
  <2>3. CASE UNCHANGED vars
    <3>1. UNCHANGED <<partitions, orders_topic, metadata>>
      BY <2>3 DEF vars, producerVars, runVars, clientVars
    <3>2. Exists(orders_topic)' <=> Exists(orders_topic)
      BY <3>1 DEF Exists
    <3>. QED  BY <1>1, <3>1, <3>2, Zenon DEF PreparedInv
  <2>. QED  BY <2>1, <2>2, <2>3 DEF Next
<1>2. CASE ~(run' = run /\ prepared' = prepared)
  <2>1. run' # run /\ (prepared' <=> CreatedFor(orders_topic')) /\ prepared' \in BOOLEAN
    <3>1. Next
      BY <1>2 DEF vars, producerVars, runVars
    <3>2. prepared' = IF run' = run THEN prepared ELSE CreatedFor(orders_topic')
      BY <3>1 DEF Next
    <3>. QED  BY <1>2, <3>2, Zenon DEF CreatedFor
  <2>2. ProducerNext
    BY <2>1 DEF Next, vars, producerVars, runVars
  <2>3. PICK a \in Arguments : NewRun(a)
    BY <2>1, <2>2, MetadataSteps
  <2>4. metadata' = "none" /\ partitions' = partitions
    BY <2>3 DEF NewRun
  <2>5. CreatedFor(orders_topic') => partitions[orders_topic'] # 0
    BY <1>0, CreatedExists DEF Exists
  <2>6. prepared' => Exists(orders_topic)' /\ metadata' # "missing"
    BY <2>1, <2>4, <2>5 DEF Exists
  <2>. QED  BY <2>1, <2>6 DEF PreparedInv
<1>. QED  BY <1>1, <1>2

LEMMA PreparedAlways == Spec => []PreparedInv
<1>1. Init => PreparedInv
  BY DEF Init, PreparedInv
<1>. QED  BY IntakeInvariance, <1>1, PreparedStep, PTL DEF Spec

-----------------------------------------------------------------------------
\* Type correctness of both programs, for all settings and command lines.
THEOREM IntakeTypes == Spec => []TypeOK
<1>1. IntakeInv /\ PreparedInv => TypeOK
  BY DEF IntakeInv, AdminInv, ProducerInv, PreparedInv, TypeOK
<1>. QED  BY IntakeInvariance, PreparedAlways, <1>1, PTL

\* A run of create_topics that ends with 0 leaves its topics there
\* (create_topics.py:44-58).
THEOREM SuccessMeansTopics == Spec => []AdminSuccessMeansTopics
<1>1. IntakeInv => AdminSuccessMeansTopics
  BY DEF IntakeInv, AdminInv, AdminRunInv, SuccessTrue, AdminSuccessMeansTopics
<1>. QED  BY IntakeInvariance, <1>1, PTL

\* And one that nothing disturbs ends with 0, whatever other runs do
\* (create_topics.py:1, 49-53).
THEOREM CreateIsIdempotent == Spec => []AdminIdempotent
<1>1. IntakeInv => AdminIdempotent
  BY DEF IntakeInv, AdminInv, AdminRunInv, FailureDisturbed, AdminIdempotent
<1>. QED  BY IntakeInvariance, <1>1, PTL

\* Exit code 0 of the producer: every order is written or its failure was logged
\* (producer.py:142-153).
THEOREM ExitZeroTells == Spec => []ExitZeroAccounts
<1>1. IntakeInv => ExitZeroAccounts
  BY DEF IntakeInv, ProducerInv, AccountInv
<1>. QED  BY IntakeInvariance, <1>1, PTL

\* The number in the producer's last line (producer.py:123-152).
THEOREM DoneLineTells == Spec => []DoneLineHonest
<1>1. IntakeInv => DoneLineHonest
  BY DEF IntakeInv, ProducerInv, CountInv
<1>. QED  BY IntakeInvariance, <1>1, PTL

\* Records with one orderId keep their order over retries and runs
\* (producer.py:56-59).
THEOREM OrderPerKey == Spec => []SameKeyInOrder
<1>1. IntakeInv => SameKeyInOrder
  BY DEF IntakeInv, ProducerInv, LogInv
<1>. QED  BY IntakeInvariance, <1>1, PTL

\* The rates are honoured, for every scale of the draws (orders.py:59-70).
THEOREM RatesAreHonoured == Spec => []RatesHonoured
<1>1. IntakeInv => RatesHonoured
  <2>. SUFFICES ASSUME IntakeInv PROVE RatesHonoured
    OBVIOUS
  <2>1. orders_topic \in TopicNames /\ Logged(orders_topic)
    BY DEF IntakeInv, ProducerInv, ProducerTypeOK, LogInv
  <2>. QED  BY <2>1 DEF Logged, Stamped, Allowed, RatesHonoured
<1>. QED  BY IntakeInvariance, <1>1, PTL

\* A producer started after create_topics gives an order up for a fault of the broker
\* only, whatever its client has cached and however many programs run
\* (create_topics.py:5-9).
THEOREM NoneUnknown == Spec => NoneUnknownAfterCreate
<1>1. IntakeInv /\ PreparedInv /\ [Next]_vars =>
        [run' = run /\ given_up' # given_up /\ prepared => faults' # faults]_vars
  <2>. SUFFICES ASSUME IntakeInv, PreparedInv, [Next]_vars, run' = run,
                       given_up' # given_up, prepared
                PROVE  faults' # faults
    OBVIOUS
  <2>1. run \in Nat /\ faults \in Nat
    BY ProducerAssumption
    DEF IntakeInv, ProducerInv, ProducerTypeOK, AdminInv, AdminTypeOK
  <2>2. PICK r \in InFlight : DeliveryFails(r)
    <3>1. ProducerNext
      BY DEF Next, vars, producerVars, clientVars
    <3>2. \A a \in Arguments : ~NewRun(a)
      BY <2>1 DEF NewRun
    <3>. QED
      BY <3>1, <3>2 DEF ProducerNext, ProducerStep, ClientStep, ProducerStart, ProducerRefuses,
         Produce, BufferFull, ProduceRefused, SerializerRaises, LeaveLoop, PollCallbacks,
         Exhausted, Interrupt, Over, FlushCompletes, FlushTimesOut, ProducerKilled, Refresh,
         Delivered, AckLost, clientVars
  <2>3. metadata # "missing"
    BY DEF PreparedInv
  <2>. QED  BY <2>1, <2>2, <2>3 DEF DeliveryFails, Fault
<1>. QED  BY IntakeInvariance, PreparedAlways, <1>1, PTL DEF Spec, NoneUnknownAfterCreate
=============================================================================
