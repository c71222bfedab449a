----------------------------- MODULE RetryPolicy -----------------------------
(***************************************************************************)
(* The control of RetryPolicy.execute (consumer/retry.py): a callable is   *)
(* run until it returns, raises something permanent, or has used up the    *)
(* attempt budget, with a sleep between two attempts.  The length of the   *)
(* sleeps is added by RetryTiming; OrderConsumer instantiates this module  *)
(* with process() as the callable.                                         *)
(*                                                                         *)
(* A step is one invocation of the callable, or one sleep.  What the       *)
(* callable does is the environment's choice here: any exception on any    *)
(* attempt.                                                                *)
(***************************************************************************)
EXTENDS Integers, Sequences

CONSTANT MaxAttempts        \* max_attempts; --max-attempts takes any integer

ASSUME MaxAttemptsAssumption == MaxAttempts \in Int

VARIABLES
  retryState,   \* where execute() is: not called yet, calling, sleeping, returned
  attempt,      \* the loop variable
  results,      \* history: what each invocation did so far in this execution
  outcome       \* the RetryOutcome returned (meaningful in state "done")

retryVars == <<retryState, attempt, results, outcome>>

-----------------------------------------------------------------------------
\* Exception classes, by the branch of classify() that catches them.  "Other"
\* stands for every class classify() has no rule for; ValidationError is a
\* subclass of PermanentError.
TransientErrors == {"TransientError", "TimeoutError", "ConnectionError"}
PermanentErrors == {"PermanentError", "ValidationError", "Other"}
Exceptions      == TransientErrors \cup PermanentErrors

\* "NoError" is Python's None: the error of an execution that never called.
classify(exc) ==
  CASE exc \in TransientErrors -> "transient"
    [] exc \in PermanentErrors -> "permanent"
    [] OTHER                   -> "None"

RetryOutcome ==
  [succeeded      : BOOLEAN,
   attempts       : Int,
   error          : Exceptions \cup {"NoError"},
   classification : {"transient", "permanent", "None"}]

Success(n) ==
  [succeeded |-> TRUE, attempts |-> n, error |-> "NoError", classification |-> "None"]

\* Mutant of Failure: the budget is reported for every failure.
FailureWholeBudget(exc) ==
  [succeeded |-> FALSE, attempts |-> MaxAttempts, error |-> exc,
   classification |-> classify(exc)]

\* Mutant of Failure: everything that is not transient is reported as one attempt.
FailureAtLeastOne(exc) ==
  [succeeded |-> FALSE, attempts |-> IF classify(exc) = "transient" THEN MaxAttempts ELSE 1,
   error |-> exc, classification |-> classify(exc)]

\* The return after the loop.  It reports 1 for a permanent error and the whole
\* budget for everything else; it does not look at the loop variable.
Failure(exc) ==
  [succeeded      |-> FALSE,
   attempts       |-> IF classify(exc) = "permanent" THEN 1 ELSE MaxAttempts,
   error          |-> exc,
   classification |-> classify(exc)]

-----------------------------------------------------------------------------
RetryInit ==
  /\ retryState = "idle"
  /\ attempt = 1
  /\ results = <<>>
  /\ outcome = Failure("NoError")

\* A new process: a policy that has executed nothing yet.
RetryReset ==
  /\ retryState' = "idle"
  /\ attempt' = 1
  /\ results' = <<>>
  /\ outcome' = Failure("NoError")

\* execute() is entered.  With an empty range the loop body never runs and the
\* failure outcome is returned at once, without an exception to put in it.
Execute ==
  /\ retryState \in {"idle", "done"}
  /\ attempt' = 1
  /\ results' = <<>>
  /\ outcome' = Failure("NoError")
  /\ retryState' = IF MaxAttempts >= 1 THEN "call" ELSE "done"

\* fn() returns: the first return of execute().
CallReturns ==
  /\ retryState = "call"
  /\ results' = Append(results, "ok")
  /\ outcome' = Success(attempt)
  /\ retryState' = "done"
  /\ UNCHANGED attempt

\* Mutant of GivesUp: the budget counts retries after the first attempt.
GivesUpOneEarly(exc) == classify(exc) = "permanent" \/ attempt = MaxAttempts - 1

\* Mutant of GivesUp: the permanent branch lost its break.
GivesUpOnlyWhenExhausted(exc) == attempt = MaxAttempts

\* The two breaks of the loop.
GivesUp(exc) == classify(exc) = "permanent" \/ attempt = MaxAttempts

\* fn() raises exc: leave the loop, or go to sleep.
CallRaises(exc) ==
  /\ retryState = "call"
  /\ results' = Append(results, exc)
  /\ \/ /\ GivesUp(exc)
        /\ outcome' = Failure(exc)
        /\ retryState' = "done"
     \/ /\ ~GivesUp(exc)
        /\ retryState' = "sleep"
        /\ UNCHANGED outcome
  /\ UNCHANGED attempt

\* self.sleep(delay) returns and the for loop takes its next value.
SleepEnds ==
  /\ retryState = "sleep"
  /\ retryState' = "call"
  /\ attempt' = attempt + 1
  /\ UNCHANGED <<results, outcome>>

RetryNext ==
  \/ Execute
  \/ CallReturns
  \/ \E exc \in Exceptions : CallRaises(exc)
  \/ SleepEnds

RetrySpec == RetryInit /\ [][RetryNext]_retryVars

-----------------------------------------------------------------------------
\* Type correctness of the four variables.
RetryTypeOK ==
  /\ retryState \in {"idle", "call", "sleep", "done"}
  /\ attempt \in Nat \ {0}
  /\ results \in Seq(Exceptions \cup {"ok"})
  /\ outcome \in RetryOutcome

\* The loop variable counts the invocations, and a sleep is only taken with
\* budget left (retry.py:113 and 129-137).
LoopCounter ==
  /\ retryState = "idle"  => results = <<>>
  /\ retryState = "call"  => Len(results) = attempt - 1 /\ attempt <= MaxAttempts
  /\ retryState = "sleep" => Len(results) = attempt /\ attempt < MaxAttempts

\* The callable is invoked at most max_attempts times, and never again after it
\* returned or raised something permanent: every result but the last one is a
\* transient error (the loop of retry.py:113-137).
RetryBudget ==
  /\ Len(results) > 0 => Len(results) <= MaxAttempts
  /\ \A i \in 1 .. Len(results) :
       i < Len(results) \/ retryState \in {"call", "sleep"}
         => results[i] \in TransientErrors

\* The outcome tells what happened: success exactly when the last invocation
\* returned, with the number of that invocation; otherwise the last exception
\* and its class, and "transient" only after the whole budget was used
\* (retry.py:118 and 139-146).
OutcomeFaithful ==
  retryState = "done" /\ results # <<>> =>
    LET last == results[Len(results)] IN
    IF outcome.succeeded
    THEN last = "ok" /\ outcome.attempts = Len(results)
    ELSE /\ last # "ok"
         /\ outcome.error = last
         /\ outcome.classification = classify(last)
         /\ last \in TransientErrors => Len(results) = MaxAttempts
=============================================================================
