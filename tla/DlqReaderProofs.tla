--------------------------- MODULE DlqReaderProofs ---------------------------
(***************************************************************************)
(* Proofs about DlqReader for every set of command lines, every bound on   *)
(* the reports and every number of faults.                                 *)
(*                                                                         *)
(* The argument: whatever the client is about to deliver, or has delivered *)
(* and not printed yet, continues what was printed: all before it was      *)
(* printed, and it follows the last report printed or is the first of all. *)
(* The idle time is that of the polls without a message since the last     *)
(* message, and the loop was not left as long as it is below the timeout;  *)
(* with nan and inf it is not left for the silence at all.                 *)
(***************************************************************************)
EXTENDS DlqReader, TLAPS

InSequence ==
  /\ \A i \in DOMAIN shown : shown[i] = 0 \/ (i > 1 /\ shown[i] = shown[i - 1] + 1)
  /\ rejoined = 0 => \A i \in DOMAIN shown : shown[i] = i - 1

\* The report at offset o may be printed next.
Continues(o) ==
  /\ o = 0 \/ (Len(shown) > 0 /\ shown[Len(shown)] = o - 1)
  /\ \A k \in 0 .. o - 1 : IsShown(k)
  /\ rejoined = 0 => o = Len(shown)

Reading ==
  /\ InSequence
  /\ readerPhase = "print" => assigned /\ position > 0 /\ Continues(position - 1)
  /\ readerPhase = "poll" /\ assigned => Continues(position)
  /\ readerPhase = "poll" /\ ~assigned /\ rejoined = 0 => shown = <<>>

Counting ==
  /\ readerPhase = "poll"  => count = Len(shown)
  /\ readerPhase = "print" => count = Len(shown) + 1
  /\ readerPhase # "over"  => reason = "none"

Waiting ==
  /\ idle = quiet * PollTime
  /\ readerPhase # "over" /\ ~args.follow /\ Finite => idle = 0 \/ idle < args.timeout

Inv ==
  /\ TypeOK
  /\ Reading
  /\ Counting /\ TotalHonest
  /\ Waiting /\ GivesUpAfterSilence
  /\ FullUnlessLate

LEMMA InitInv == Init => Inv
<1>. SUFFICES ASSUME Init PROVE Inv
  OBVIOUS
<1>1. TypeOK
  <2>1. dlq \in 0 .. Reports /\ position \in 0 .. dlq
    BY ReaderAssumption DEF Init
  <2>2. shown \in Seq(Nat)
    BY DEF Init
  <2>. QED  BY <2>1, <2>2 DEF Init, TypeOK
<1>2. Reading
  BY DEF Init, Reading, InSequence, Continues
<1>3. Counting /\ TotalHonest /\ Waiting /\ GivesUpAfterSilence /\ FullUnlessLate
  BY DEF Init, Counting, TotalHonest, Waiting, GivesUpAfterSilence, FullUnlessLate, PollTime
<1>. QED  BY <1>1, <1>2, <1>3 DEF Inv

\* Every action keeps the types.
LEMMA TypeStep == Inv /\ [Next]_vars => TypeOK'
<1>. SUFFICES ASSUME Inv, [Next]_vars PROVE TypeOK'
  OBVIOUS
<1>0. TypeOK /\ (readerPhase = "print" => position > 0)
  BY DEF Inv, Reading
<1>. USE DEF TypeOK, history, clientVars
<1>1. CASE Arrive
  <2>1. dlq' \in 0 .. Reports /\ position' \in 0 .. dlq'
    BY <1>0, <1>1, ReaderAssumption DEF Arrive
  <2>. QED  BY <1>0, <1>1, <2>1 DEF Arrive
<1>2. CASE Assign
  <2>1. position' \in 0 .. dlq
    BY <1>0, <1>2, ReaderAssumption DEF Assign
  <2>. QED  BY <1>0, <1>2, <2>1 DEF Assign
<1>3. CASE Lose
  <2>1. rejoined' \in Nat /\ faults' \in Nat
    BY <1>0, <1>3 DEF Lose, Fault
  <2>2. dlq' \in 0 .. Reports /\ position' \in 0 .. dlq'
    BY <1>0, <1>3 DEF Lose
  <2>. QED  BY <1>0, <1>3, <2>1, <2>2 DEF Lose
<1>4. CASE PollMessage
  BY <1>0, <1>4 DEF PollMessage, Available
<1>5. CASE PrintReport
  <2>1. position - 1 \in Nat
    BY <1>0, <1>5, ReaderAssumption DEF PrintReport
  <2>. QED  BY <1>0, <1>5, <2>1 DEF PrintReport
<1>6. CASE PollNone
  <2>1. idle' \in Nat /\ quiet' \in Nat
    BY <1>0, <1>6 DEF PollNone, PollTime
  <2>2. late' \in BOOLEAN
    BY <1>0, <1>6 DEF PollNone
  <2>3. readerPhase' \in {"poll", "over"} /\ reason' \in {"none", "idle", "error", "interrupt"}
        /\ left' \in Nat
    BY <1>0, <1>6, ReaderAssumption DEF PollNone, LeaveLoop
  <2>. QED  BY <1>0, <1>6, <2>1, <2>2, <2>3 DEF PollNone
<1>7. CASE PollError \/ Interrupt
  BY <1>0, <1>7, ReaderAssumption DEF PollError, Interrupt, Break, LeaveLoop, Fault
<1>8. CASE UNCHANGED vars
  BY <1>0, <1>8 DEF vars
<1>. QED  BY <1>1, <1>2, <1>3, <1>4, <1>5, <1>6, <1>7, <1>8 DEF Next, ReaderStep

-----------------------------------------------------------------------------
\* What printing a report that continues the others does.
LEMMA PrintContinues ==
  ASSUME shown \in Seq(Nat), rejoined' = rejoined, InSequence,
         NEW o \in Nat, Continues(o), shown' = Append(shown, o)
  PROVE  InSequence' /\ Continues(o + 1)'
<1>. DEFINE n == Len(shown)
<1>1. /\ n \in Nat /\ Len(shown') = n + 1 /\ shown'[n + 1] = o
      /\ \A i \in 1 .. n : shown'[i] = shown[i]
      /\ DOMAIN shown = 1 .. n /\ DOMAIN shown' = 1 .. n + 1
  OBVIOUS
<1>. HIDE DEF n
<1>2. InSequence'
  <2>1. ASSUME NEW i \in 1 .. n + 1
        PROVE  /\ shown'[i] = 0 \/ (i > 1 /\ shown'[i] = shown'[i - 1] + 1)
               /\ rejoined = 0 => shown'[i] = i - 1
    <3>1. CASE i = n + 1
      <4>1. o = 0 \/ (n > 0 /\ shown[n] = o - 1)
        BY DEF Continues, n
      <4>2. rejoined = 0 => o = n
        BY DEF Continues, n
      <4>. QED  BY <1>1, <3>1, <4>1, <4>2
    <3>2. CASE i # n + 1
      <4>1. i \in 1 .. n
        BY <1>1, <3>2
      <4>2. /\ shown[i] = 0 \/ (i > 1 /\ shown[i] = shown[i - 1] + 1)
            /\ rejoined = 0 => shown[i] = i - 1
        BY <1>1, <4>1 DEF InSequence
      <4>3. i > 1 => i - 1 \in 1 .. n
        BY <1>1, <4>1
      <4>. QED  BY <1>1, <4>1, <4>2, <4>3
    <3>. QED  BY <3>1, <3>2
  <2>. QED  BY <1>1, <2>1 DEF InSequence
<1>3. ASSUME NEW k \in 0 .. o PROVE IsShown(k)'
  <2>1. CASE k = o
    BY <1>1, <2>1 DEF IsShown
  <2>2. CASE k # o
    <3>1. PICK i \in 1 .. n : shown[i] = k
      BY <1>1, <2>2 DEF Continues, IsShown
    <3>. QED  BY <1>1, <3>1 DEF IsShown
  <2>. QED  BY <2>1, <2>2
<1>4. rejoined' = 0 => o + 1 = Len(shown')
  BY <1>1 DEF Continues, n
<1>. QED  BY <1>1, <1>2, <1>3, <1>4 DEF Continues

LEMMA ReadingStep == Inv /\ [Next]_vars => Reading'
<1>. SUFFICES ASSUME Inv, [Next]_vars PROVE Reading'
  OBVIOUS
<1>0. TypeOK /\ Reading
  BY DEF Inv
<1>1. CASE UNCHANGED <<shown, rejoined, readerPhase, position, assigned>>
  BY <1>0, <1>1 DEF Reading, InSequence, Continues, IsShown
<1>2. CASE Assign
  BY <1>0, <1>2 DEF Assign, history, Reading, InSequence, Continues, TypeOK
<1>3. CASE Lose
  BY <1>0, <1>3 DEF Lose, Reading, InSequence, TypeOK
<1>4. CASE PollMessage
  <2>1. Continues(position) /\ position' - 1 = position /\ position' > 0
    BY <1>0, <1>4 DEF PollMessage, Available, Reading, TypeOK
  <2>2. UNCHANGED <<shown, rejoined>> /\ readerPhase' = "print" /\ assigned'
    BY <1>4 DEF PollMessage, Available, history
  <2>. QED  BY <1>0, <2>1, <2>2 DEF Reading, InSequence, Continues, IsShown
<1>5. CASE PrintReport
  <2>1. position - 1 \in Nat /\ Continues(position - 1) /\ position - 1 + 1 = position
    BY <1>0, <1>5, ReaderAssumption DEF PrintReport, Reading, TypeOK
  <2>2. /\ shown' = Append(shown, position - 1) /\ rejoined' = rejoined
        /\ readerPhase' = "poll" /\ position' = position /\ assigned'
    BY <1>0, <1>5 DEF PrintReport, history, clientVars, Reading
  <2>3. InSequence' /\ Continues(position)'
    BY <1>0, <2>1, <2>2, PrintContinues DEF Reading, TypeOK
  <2>. QED  BY <2>2, <2>3 DEF Reading
<1>6. CASE readerPhase' = "over" /\ UNCHANGED <<shown, rejoined>>
  BY <1>0, <1>6 DEF Reading, InSequence
<1>. QED
  BY <1>1, <1>2, <1>3, <1>4, <1>5, <1>6
  DEF Next, ReaderStep, Arrive, PollNone, PollError, Interrupt, Break, LeaveLoop, history,
      clientVars, vars

-----------------------------------------------------------------------------
LEMMA CountingStep == Inv /\ [Next]_vars => Counting' /\ TotalHonest'
<1>. SUFFICES ASSUME Inv, [Next]_vars PROVE Counting' /\ TotalHonest'
  OBVIOUS
<1>0. TypeOK /\ Counting /\ TotalHonest
  BY DEF Inv
<1>. USE DEF Counting, TotalHonest
<1>1. CASE UNCHANGED <<shown, count, readerPhase, reason>>
  BY <1>0, <1>1
<1>2. CASE PollMessage
  BY <1>0, <1>2 DEF PollMessage
<1>3. CASE PrintReport
  BY <1>0, <1>3 DEF PrintReport, TypeOK
<1>4. CASE PollNone
  BY <1>0, <1>4 DEF PollNone, LeaveLoop, TypeOK
<1>5. CASE PollError \/ Interrupt
  BY <1>0, <1>5 DEF PollError, Interrupt, Break, LeaveLoop, TypeOK
<1>. QED
  BY <1>1, <1>2, <1>3, <1>4, <1>5 DEF Next, ReaderStep, Arrive, Assign, Lose, vars

LEMMA WaitingStep == Inv /\ [Next]_vars => Waiting' /\ GivesUpAfterSilence'
<1>. SUFFICES ASSUME Inv, [Next]_vars PROVE Waiting' /\ GivesUpAfterSilence'
  OBVIOUS
<1>0. /\ Waiting /\ GivesUpAfterSilence
      /\ quiet \in Nat /\ idle \in Nat
      /\ readerPhase # "over" => reason = "none"
  BY DEF Inv, TypeOK, Counting
<1>. USE DEF Waiting, GivesUpAfterSilence, PollTime, Finite
<1>1. CASE UNCHANGED <<args, idle, quiet, readerPhase, reason>>
  BY <1>0, <1>1
<1>2. CASE PollMessage
  BY <1>0, <1>2 DEF PollMessage
<1>3. CASE PrintReport
  BY <1>0, <1>3 DEF PrintReport
<1>4. CASE PollNone
  <2>. DEFINE t == args.timeout
  <2>0. args' = args
    BY <1>4 DEF PollNone
  <2>1. CASE Finite /\ idle < t
    <3>1. idle' = idle + 2 /\ quiet' = quiet + 1
      BY <1>4, <2>1 DEF PollNone
    <3>2. CASE TimeIsUp /\ LeaveLoop("idle")
      BY <1>0, <2>0, <2>1, <3>1, <3>2 DEF TimeIsUp, LeaveLoop
    <3>3. CASE ~TimeIsUp /\ UNCHANGED <<readerPhase, reason, left>>
      BY <1>0, <1>4, <2>0, <2>1, <3>1, <3>3 DEF TimeIsUp, PollNone
    <3>. QED  BY <1>4, <3>2, <3>3 DEF PollNone
  <2>2. CASE ~(Finite /\ idle < t)
    <3>1. idle' = idle /\ quiet' = quiet
      BY <1>4, <2>2 DEF PollNone
    <3>2. CASE TimeIsUp /\ LeaveLoop("idle")
      BY <1>0, <1>4, <2>0, <2>2, <3>1, <3>2 DEF TimeIsUp, LeaveLoop, PollNone
    <3>3. CASE ~TimeIsUp /\ UNCHANGED <<readerPhase, reason, left>>
      BY <1>0, <1>4, <2>0, <2>2, <3>1, <3>3 DEF TimeIsUp, PollNone
    <3>. QED  BY <1>4, <3>2, <3>3 DEF PollNone
  <2>. QED  BY <2>1, <2>2
<1>5. CASE PollError \/ Interrupt
  BY <1>0, <1>5 DEF PollError, Interrupt, Break, LeaveLoop
<1>. QED
  BY <1>1, <1>2, <1>3, <1>4, <1>5 DEF Next, ReaderStep, Arrive, Assign, Lose, vars

LEMMA FullStep == Inv /\ [Next]_vars => FullUnlessLate'
<1>. SUFFICES ASSUME Inv, [Next]_vars PROVE FullUnlessLate'
  OBVIOUS
<1>0. /\ TypeOK /\ Reading /\ FullUnlessLate
      /\ readerPhase # "over" => reason = "none"
  BY DEF Inv, Counting
<1>1. CASE reason' # "idle"
  BY <1>1 DEF FullUnlessLate
<1>2. CASE UNCHANGED <<reason, late, left, shown>>
  BY <1>0, <1>2 DEF FullUnlessLate, IsShown
<1>3. CASE PollNone
  <2>1. CASE TimeIsUp /\ LeaveLoop("idle") /\ ~late'
    <3>1. assigned /\ ~Available /\ readerPhase = "poll" /\ shown' = shown /\ left' = dlq
      BY <1>3, <2>1 DEF PollNone, LeaveLoop
    <3>2. position = dlq
      BY <1>0, <3>1, ReaderAssumption DEF Available, TypeOK
    <3>. QED  BY <1>0, <3>1, <3>2 DEF Reading, Continues, FullUnlessLate, IsShown
  <2>2. CASE late'
    BY <2>2 DEF FullUnlessLate
  <2>. QED  BY <1>0, <1>1, <1>3, <2>1, <2>2 DEF PollNone
<1>. QED
  BY <1>0, <1>1, <1>2, <1>3
  DEF Next, ReaderStep, Arrive, Assign, Lose, PollMessage, PrintReport, PollError, Interrupt,
      Break, LeaveLoop, history, vars

LEMMA Invariance == Spec => []Inv
<1>1. Inv /\ [Next]_vars => Inv'
  BY TypeStep, ReadingStep, CountingStep, WaitingStep, FullStep DEF Inv
<1>. QED  BY InitInv, <1>1, PTL DEF Spec

-----------------------------------------------------------------------------
\* The variables keep their types; the client never reads past the end of the DLQ.
THEOREM ReaderTypes == Spec => []TypeOK
<1>. QED  BY Invariance, PTL DEF Inv

\* Reports are printed from the beginning, in order and without a gap
\* (read_dlq.py:80-110).
THEOREM ReaderShowsInOrder == Spec => []ShownInOrder
<1>1. Inv => ShownInOrder
  <2>. SUFFICES ASSUME Inv PROVE ShownInOrder
    OBVIOUS
  <2>1. shown \in Seq(Nat) /\ InSequence
    BY DEF Inv, TypeOK, Reading
  <2>2. shown # <<>> => 1 \in DOMAIN shown
    BY <2>1
  <2>3. ASSUME 1 \in DOMAIN shown PROVE shown[1] = 0
    <3>1. shown[1] = 0 \/ (1 > 1 /\ shown[1] = shown[1 - 1] + 1)
      BY <2>1, <2>3, Zenon DEF InSequence
    <3>. QED  BY <3>1
  <2>. QED  BY <2>1, <2>2, <2>3 DEF ShownInOrder, InSequence
<1>. QED  BY Invariance, <1>1, PTL

\* The number after TOTAL is the number of reports printed (read_dlq.py:108-115).
THEOREM ReaderTotalHonest == Spec => []TotalHonest
<1>. QED  BY Invariance, PTL DEF Inv

\* A reader that gives up has shown everything, unless a poll was late
\* (read_dlq.py:96-101).
THEOREM ReaderFullUnlessLate == Spec => []FullUnlessLate
<1>. QED  BY Invariance, PTL DEF Inv

\* It gives up after the silence --timeout asks for, not before and not later
\* (read_dlq.py:97-108).
THEOREM ReaderWaitsItsTime == Spec => []GivesUpAfterSilence
<1>. QED  BY Invariance, PTL DEF Inv
=============================================================================
