-------------------------- MODULE RetryPolicyProofs --------------------------
(***************************************************************************)
(* Proofs about RetryPolicy for every attempt budget, negative ones        *)
(* included.  RetryInv is inductive; the properties are its conjuncts.     *)
(***************************************************************************)
EXTENDS RetryPolicy, SequenceTheorems, TLAPS

RetryInv == RetryTypeOK /\ LoopCounter /\ RetryBudget /\ OutcomeFaithful

\* classify() puts every exception class in one of two sorts, and calls permanent
\* what it does not call transient (retry.py:22-44).
LEMMA ClassifySorts ==
  ASSUME NEW exc \in Exceptions
  PROVE  /\ classify(exc) \in {"transient", "permanent"}
         /\ classify(exc) = "transient" <=> exc \in TransientErrors
         /\ exc # "ok"
BY DEF classify, Exceptions, TransientErrors, PermanentErrors

\* The two ways of returning build a RetryOutcome (retry.py:118 and 139-146).
LEMMA OutcomeTypes ==
  /\ \A n \in Nat : Success(n) \in RetryOutcome
  /\ \A exc \in Exceptions \cup {"NoError"} : Failure(exc) \in RetryOutcome
<1>1. \A n \in Nat : Success(n) \in RetryOutcome
  BY DEF Success, RetryOutcome
<1>2. ASSUME NEW exc \in Exceptions \cup {"NoError"}
      PROVE  Failure(exc) \in RetryOutcome
  <2>1. classify(exc) \in {"transient", "permanent", "None"}
    BY DEF classify
  <2>. QED  BY <2>1, MaxAttemptsAssumption DEF Failure, RetryOutcome
<1>. QED  BY <1>1, <1>2

LEMMA RetryInitInv == RetryInit => RetryInv
<1>. SUFFICES ASSUME RetryInit PROVE RetryInv
  OBVIOUS
<1>1. RetryTypeOK
  BY OutcomeTypes DEF RetryInit, RetryTypeOK
<1>2. LoopCounter /\ RetryBudget /\ OutcomeFaithful
  BY DEF RetryInit, LoopCounter, RetryBudget, OutcomeFaithful
<1>. QED  BY <1>1, <1>2 DEF RetryInv

LEMMA ExecuteInv == RetryInv /\ Execute => RetryInv'
<1>. SUFFICES ASSUME RetryInv, Execute PROVE RetryInv'
  OBVIOUS
<1>1. RetryTypeOK'
  BY OutcomeTypes DEF RetryInv, RetryTypeOK, Execute
<1>2. LoopCounter' /\ RetryBudget' /\ OutcomeFaithful'
  BY MaxAttemptsAssumption DEF Execute, LoopCounter, RetryBudget, OutcomeFaithful
<1>. QED  BY <1>1, <1>2 DEF RetryInv

LEMMA CallReturnsInv == RetryInv /\ CallReturns => RetryInv'
<1>. SUFFICES ASSUME RetryInv, CallReturns PROVE RetryInv'
  OBVIOUS
<1>0. /\ results \in Seq(Exceptions \cup {"ok"})
      /\ Len(results) = attempt - 1 /\ attempt <= MaxAttempts /\ attempt \in Nat \ {0}
  BY DEF RetryInv, RetryTypeOK, LoopCounter, CallReturns
<1>1. /\ results' \in Seq(Exceptions \cup {"ok"})
      /\ Len(results') = attempt /\ results'[attempt] = "ok"
      /\ \A i \in 1 .. attempt - 1 : results'[i] = results[i]
  BY <1>0 DEF CallReturns
<1>2. RetryTypeOK'
  BY <1>0, <1>1, OutcomeTypes DEF RetryTypeOK, CallReturns
<1>3. LoopCounter'
  BY DEF LoopCounter, CallReturns
<1>4. RetryBudget'
  <2>1. \A i \in 1 .. Len(results) : results[i] \in TransientErrors
    BY DEF RetryInv, RetryBudget, CallReturns
  <2>. QED  BY <2>1, <1>0, <1>1, MaxAttemptsAssumption DEF RetryBudget, CallReturns
<1>5. OutcomeFaithful'
  BY <1>0, <1>1 DEF OutcomeFaithful, CallReturns, Success
<1>. QED  BY <1>2, <1>3, <1>4, <1>5 DEF RetryInv

LEMMA CallRaisesInv ==
  ASSUME NEW exc \in Exceptions
  PROVE  RetryInv /\ CallRaises(exc) => RetryInv'
<1>. SUFFICES ASSUME RetryInv, CallRaises(exc) PROVE RetryInv'
  OBVIOUS
<1>0. /\ results \in Seq(Exceptions \cup {"ok"}) /\ outcome \in RetryOutcome
      /\ Len(results) = attempt - 1 /\ attempt <= MaxAttempts /\ attempt \in Nat \ {0}
  BY DEF RetryInv, RetryTypeOK, LoopCounter, CallRaises
<1>1. /\ results' \in Seq(Exceptions \cup {"ok"})
      /\ Len(results') = attempt /\ results'[attempt] = exc
      /\ \A i \in 1 .. attempt - 1 : results'[i] = results[i]
      /\ attempt' = attempt
  BY <1>0 DEF CallRaises
<1>2. \A i \in 1 .. attempt - 1 : results'[i] \in TransientErrors
  BY <1>0, <1>1 DEF RetryInv, RetryBudget, CallRaises
<1>3. CASE GivesUp(exc)
  <2>1. retryState' = "done" /\ outcome' = Failure(exc)
    BY <1>3 DEF CallRaises
  <2>2. RetryTypeOK'
    BY <2>1, <1>0, <1>1, OutcomeTypes DEF RetryTypeOK
  <2>3. LoopCounter'
    BY <2>1 DEF LoopCounter
  <2>4. RetryBudget'
    BY <2>1, <1>0, <1>1, <1>2, MaxAttemptsAssumption DEF RetryBudget
  <2>5. exc \in TransientErrors => attempt = MaxAttempts
    BY <1>3, ClassifySorts DEF GivesUp
  <2>6. OutcomeFaithful'
    BY <2>1, <2>5, <1>1, ClassifySorts DEF OutcomeFaithful, Failure
  <2>. QED  BY <2>2, <2>3, <2>4, <2>6 DEF RetryInv
<1>4. CASE ~GivesUp(exc)
  <2>1. retryState' = "sleep" /\ outcome' = outcome
    BY <1>4 DEF CallRaises
  <2>2. exc \in TransientErrors /\ attempt < MaxAttempts
    BY <1>4, <1>0, ClassifySorts, MaxAttemptsAssumption DEF GivesUp
  <2>3. RetryTypeOK'
    BY <2>1, <1>0, <1>1 DEF RetryTypeOK
  <2>4. LoopCounter'
    BY <2>1, <2>2, <1>1 DEF LoopCounter
  <2>5. RetryBudget'
    BY <2>1, <2>2, <1>0, <1>1, <1>2, MaxAttemptsAssumption DEF RetryBudget
  <2>6. OutcomeFaithful'
    BY <2>1 DEF OutcomeFaithful
  <2>. QED  BY <2>3, <2>4, <2>5, <2>6 DEF RetryInv
<1>. QED  BY <1>3, <1>4

LEMMA SleepEndsInv == RetryInv /\ SleepEnds => RetryInv'
<1>. SUFFICES ASSUME RetryInv, SleepEnds PROVE RetryInv'
  OBVIOUS
<1>1. RetryTypeOK'
  BY DEF RetryInv, RetryTypeOK, SleepEnds
<1>2. LoopCounter'
  BY MaxAttemptsAssumption DEF RetryInv, RetryTypeOK, LoopCounter, SleepEnds
<1>3. RetryBudget'
  BY DEF RetryInv, RetryBudget, SleepEnds
<1>4. OutcomeFaithful'
  BY DEF OutcomeFaithful, SleepEnds
<1>. QED  BY <1>1, <1>2, <1>3, <1>4 DEF RetryInv

LEMMA RetryUnchangedInv == RetryInv /\ UNCHANGED retryVars => RetryInv'
BY DEF RetryInv, RetryTypeOK, LoopCounter, RetryBudget, OutcomeFaithful, retryVars

THEOREM RetryInvariant == RetrySpec => []RetryInv
<1>1. RetryInv /\ [RetryNext]_retryVars => RetryInv'
  <2>. SUFFICES ASSUME RetryInv, [RetryNext]_retryVars PROVE RetryInv'
    OBVIOUS
  <2>. QED
    BY ExecuteInv, CallReturnsInv, CallRaisesInv, SleepEndsInv, RetryUnchangedInv
    DEF RetryNext
<1>. QED  BY RetryInitInv, <1>1, PTL DEF RetrySpec

\* The variables of an execution keep their types, for any budget.
THEOREM RetryTypeCorrect == RetrySpec => []RetryTypeOK
<1>1. RetryInv => RetryTypeOK
  BY DEF RetryInv
<1>. QED  BY RetryInvariant, <1>1, PTL

\* No callable runs more often than the budget allows, nor again after it
\* returned or raised something permanent (retry.py:113-137).
THEOREM BudgetKept == RetrySpec => []RetryBudget
<1>1. RetryInv => RetryBudget
  BY DEF RetryInv
<1>. QED  BY RetryInvariant, <1>1, PTL

\* The outcome the loop branches on tells what the last invocation did
\* (retry.py:118 and 139-146).
THEOREM OutcomeTold == RetrySpec => []OutcomeFaithful
<1>1. RetryInv => OutcomeFaithful
  BY DEF RetryInv
<1>. QED  BY RetryInvariant, <1>1, PTL
=============================================================================
