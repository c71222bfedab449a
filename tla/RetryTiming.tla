----------------------------- MODULE RetryTiming -----------------------------
(***************************************************************************)
(* RetryPolicy with the length of its sleeps: backoff_for of               *)
(* consumer/retry.py.  Delays are whole numbers of an arbitrary unit, the  *)
(* jitter is a percentage, and the random draw is any value of its band.   *)
(***************************************************************************)
EXTENDS RetryPolicy

CONSTANTS BaseDelay, Multiplier, MaxDelay, Jitter

ASSUME DelayAssumption ==
  /\ BaseDelay \in Nat /\ MaxDelay \in Nat /\ Jitter \in Nat
  /\ Multiplier \in Nat \ {0}

VARIABLE delays     \* history: the delays slept in this execution

timingVars == <<retryVars, delays>>

-----------------------------------------------------------------------------
Least(a, b)    == IF a < b THEN a ELSE b
Greatest(a, b) == IF a < b THEN b ELSE a

\* multiplier ** n, by recursion.
Power[n \in Nat] == IF n = 0 THEN 1 ELSE Multiplier * Power[n - 1]

\* base_delay * multiplier ** (attempt - 1), before the cap.
Exponential(n) == BaseDelay * Power[n - 1]

\* Mutant of backoff_for: the exponent is the number of retries left.
backoff_for_reversed(n) ==
  LET raw    == Least(Exponential(MaxAttempts - n), MaxDelay)
      spread == (raw * Jitter) \div 100
  IN  {Greatest(0, d) : d \in (raw - spread) .. (raw + spread)}

\* Mutant of backoff_for: the jitter is a share of the delay before the cap.
backoff_for_wide(n) ==
  LET raw    == Least(Exponential(n), MaxDelay)
      spread == (Exponential(n) * Jitter) \div 100
  IN  {Greatest(0, d) : d \in (raw - spread) .. (raw + spread)}

\* The values backoff_for(n) may return: the cap first, the jitter around what
\* the cap left, and no negative delay.
backoff_for(n) ==
  LET raw    == Least(Exponential(n), MaxDelay)
      spread == (raw * Jitter) \div 100
  IN  {Greatest(0, d) : d \in (raw - spread) .. (raw + spread)}

-----------------------------------------------------------------------------
TimingInit == RetryInit /\ delays = <<>>

TimedExecute == Execute /\ delays' = <<>>

TimedReturn == CallReturns /\ UNCHANGED delays

\* Mutant of TimedRaise: the delay is slept before the exhaustion check.
TimedRaiseSleepsFirst(exc) ==
  /\ CallRaises(exc)
  /\ IF classify(exc) = "transient"
     THEN \E d \in backoff_for(attempt) : delays' = Append(delays, d)
     ELSE UNCHANGED delays

\* An attempt that raises sleeps exactly when the loop goes round again.
TimedRaise(exc) ==
  /\ CallRaises(exc)
  /\ IF retryState' = "sleep"
     THEN \E d \in backoff_for(attempt) : delays' = Append(delays, d)
     ELSE UNCHANGED delays

TimedWake == SleepEnds /\ UNCHANGED delays

TimingNext ==
  \/ TimedExecute
  \/ TimedReturn
  \/ \E exc \in Exceptions : TimedRaise(exc)
  \/ TimedWake

TimingSpec == TimingInit /\ [][TimingNext]_timingVars

-----------------------------------------------------------------------------
\* One sleep between each pair of attempts: none before the first one, none
\* after the last one, none at all for a permanent error (retry.py:123-137).
SleepsBetweenAttempts ==
  Len(delays) = IF retryState = "done" /\ results # <<>> THEN Len(results) - 1
                ELSE Len(results)

\* As long as the cap is not reached a later sleep is longer than an earlier
\* one, whatever the jitter drew: the bands of two consecutive delays do not
\* meet (retry.py:97-105).
BackoffGrows ==
  \A i \in 2 .. Len(delays) :
    Exponential(i) <= MaxDelay => delays[i - 1] < delays[i]

\* From the cap on a sleep is the cap give or take its jitter, and none is longer:
\* the cap comes before the jitter, so max_delay alone is no bound
\* (retry.py:101-106).
SleepsBounded ==
  LET band == (MaxDelay * Jitter) \div 100
  IN  \A i \in DOMAIN delays :
        /\ delays[i] \in 0 .. MaxDelay + band
        /\ Exponential(i) >= MaxDelay => delays[i] >= MaxDelay - band
=============================================================================
