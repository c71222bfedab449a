--------------------------- MODULE RetryTimingProofs ---------------------------
(***************************************************************************)
(* Proofs about RetryTiming for every budget and all delays, negative      *)
(* budgets included.                                                       *)
(*                                                                         *)
(* The first part proves that Power satisfies its recursion: it is a       *)
(* CHOOSEn function on Nat, shown to exist by the least number up to which *)
(* there is none.  Then the retry variables change as RetryPolicy says, so *)
(* its invariant carries over; the sleeps are counted by what the loop     *)
(* does after an attempt that raised; and each one is a draw of the        *)
(* attempt it follows, so that two bands that do not meet order them.      *)
(***************************************************************************)
EXTENDS RetryTiming, RetryPolicyProofs, WellFoundedInduction

\* Every set of natural numbers but the empty one has a least element.
LEMMA LeastNatural ==
  ASSUME NEW T, T \subseteq Nat, T # {}
  PROVE  \E n \in T : \A m \in T : n <= m
<1>. DEFINE R == OpToRel(<, Nat)
<1>1. IsWellFoundedOn(R, Nat)
  BY NatLessThanWellFounded
<1>2. \E n \in T : \A m \in T : ~ (<<m, n>> \in R)
  <2>. HIDE DEF R
  <2>. QED  BY <1>1, WFMin, Zenon
<1>3. \A m, n \in Nat : m < n => <<m, n>> \in R
  BY DEF OpToRel
<1>4. PICK n \in T : \A m \in T : ~ (<<m, n>> \in R)
  BY <1>2
<1>5. \A m \in T : n <= m
  <2>. SUFFICES ASSUME NEW m \in T, ~ (n <= m) PROVE FALSE
    OBVIOUS
  <2>1. m < n /\ m \in Nat /\ n \in Nat
    OBVIOUS
  <2>. HIDE DEF R
  <2>. QED  BY <1>3, <1>4, <2>1
<1>. QED  BY <1>5

\* Powers(g, n): g is the recursion of Power as far as n.
Powers(g, n) == g = [m \in 0 .. n |-> IF m = 0 THEN 1 ELSE Multiplier * g[m - 1]]

\* One step of it.
LEMMA PowersAt ==
  ASSUME NEW n, NEW g, Powers(g, n), NEW m \in 0 .. n
  PROVE  g[m] = IF m = 0 THEN 1 ELSE Multiplier * g[m - 1]
<1>1. g = [k \in 0 .. n |-> IF k = 0 THEN 1 ELSE Multiplier * g[k - 1]]
  BY DEF Powers
<1>. QED  BY <1>1, Zenon

\* Two of them agree as far as both go.
LEMMA PowersAgree ==
  ASSUME NEW n \in Nat, NEW k \in Nat, NEW g, NEW h, Powers(g, n), Powers(h, k)
  PROVE  \A m \in Nat : m <= n /\ m <= k => g[m] = h[m]
<1>. DEFINE Bad == {m \in Nat : m <= n /\ m <= k /\ g[m] # h[m]}
<1>. SUFFICES ASSUME Bad # {} PROVE FALSE
  OBVIOUS
<1>1. PICK m \in Bad : \A j \in Bad : m <= j
  <2>1. Bad \subseteq Nat
    OBVIOUS
  <2>. HIDE DEF Bad
  <2>. QED  BY <2>1, LeastNatural
<1>2. m \in 0 .. n /\ m \in 0 .. k
  BY <1>1
<1>3. g[m] = (IF m = 0 THEN 1 ELSE Multiplier * g[m - 1])
      /\ h[m] = (IF m = 0 THEN 1 ELSE Multiplier * h[m - 1])
  BY <1>2, PowersAt
<1>4. m # 0 => g[m - 1] = h[m - 1]
  <2>. SUFFICES ASSUME m # 0, m - 1 \notin Bad PROVE g[m - 1] = h[m - 1]
    BY <1>1, <1>2
  <2>. QED  BY <1>2
<1>. QED  BY <1>1, <1>3, <1>4

\* There is one for every number.
LEMMA PowersExist == \A n \in Nat : \E g : Powers(g, n)
<1>. DEFINE Bad == {n \in Nat : ~ \E g : Powers(g, n)}
<1>. SUFFICES ASSUME Bad # {} PROVE FALSE
  OBVIOUS
<1>1. PICK n \in Bad : \A j \in Bad : n <= j
  <2>1. Bad \subseteq Nat
    OBVIOUS
  <2>. HIDE DEF Bad
  <2>. QED  BY <2>1, LeastNatural
<1>2. CASE n = 0
  <2>. DEFINE g == [m \in 0 .. 0 |-> 1]
  <2>1. g = [m \in 0 .. 0 |-> IF m = 0 THEN 1 ELSE Multiplier * g[m - 1]]
    OBVIOUS
  <2>2. Powers(g, n)
    <3>. HIDE DEF g
    <3>. QED  BY <1>2, <2>1 DEF Powers
  <2>. QED  BY <1>1, <2>2
<1>3. CASE n # 0
  <2>1. n - 1 \in Nat /\ n - 1 \notin Bad
    BY <1>1, <1>3
  <2>2. PICK g : Powers(g, n - 1)
    BY <2>1
  <2>. DEFINE h == [m \in 0 .. n |-> IF m = 0 THEN 1 ELSE Multiplier * g[m - 1]]
  <2>3. \A m \in 0 .. n - 1 : h[m] = g[m]
    <3>1. \A m \in 0 .. n - 1 : g[m] = IF m = 0 THEN 1 ELSE Multiplier * g[m - 1]
      BY <2>2, PowersAt
    <3>2. \A m \in 0 .. n - 1 : m \in 0 .. n
      BY <2>1
    <3>. QED  BY <3>1, <3>2
  <2>4. \A m \in 0 .. n : m # 0 => m - 1 \in 0 .. n - 1
    BY <2>1
  <2>5. \A m \in 0 .. n : m # 0 => h[m - 1] = g[m - 1]
    <3>. HIDE DEF h
    <3>. QED  BY <2>3, <2>4
  <2>6. h = [m \in 0 .. n |-> IF m = 0 THEN 1 ELSE Multiplier * h[m - 1]]
    <3>1. \A m \in 0 .. n : h[m] = IF m = 0 THEN 1 ELSE Multiplier * g[m - 1]
      OBVIOUS
    <3>2. \A m \in 0 .. n : h[m] = IF m = 0 THEN 1 ELSE Multiplier * h[m - 1]
      <4>. HIDE DEF h
      <4>. QED  BY <2>5, <3>1, Zenon
    <3>3. h = [m \in 0 .. n |-> h[m]]
      OBVIOUS
    <3>. HIDE DEF h
    <3>. QED  BY <3>2, <3>3
  <2>7. Powers(h, n)
    <3>. HIDE DEF h
    <3>. QED  BY <2>6 DEF Powers
  <2>. QED  BY <1>1, <2>7
<1>. QED  BY <1>2, <1>3

\* Power satisfies its recursion.
LEMMA PowerRecursion ==
  Power = [n \in Nat |-> IF n = 0 THEN 1 ELSE Multiplier * Power[n - 1]]
<1>. DEFINE G(n) == CHOOSE g : Powers(g, n)
            H == [n \in Nat |-> G(n)[n]]
<1>1. \A n \in Nat : Powers(G(n), n)
  BY PowersExist
<1>2. \A n \in Nat : H[n] = IF n = 0 THEN 1 ELSE Multiplier * H[n - 1]
  <2>. SUFFICES ASSUME NEW n \in Nat
                PROVE  H[n] = IF n = 0 THEN 1 ELSE Multiplier * H[n - 1]
    OBVIOUS
  <2>1. H[n] = G(n)[n] /\ (n # 0 => n - 1 \in Nat /\ H[n - 1] = G(n - 1)[n - 1])
    OBVIOUS
  <2>. HIDE DEF G, H
  <2>2. G(n)[n] = IF n = 0 THEN 1 ELSE Multiplier * G(n)[n - 1]
    BY <1>1, PowersAt
  <2>3. n # 0 => G(n)[n - 1] = G(n - 1)[n - 1]
    <3>. SUFFICES ASSUME n # 0 PROVE G(n)[n - 1] = G(n - 1)[n - 1]
      OBVIOUS
    <3>1. n - 1 \in Nat /\ n - 1 <= n /\ n - 1 <= n - 1
      OBVIOUS
    <3>2. Powers(G(n), n) /\ Powers(G(n - 1), n - 1)
      BY <1>1, <3>1
    <3>. QED  BY <3>1, <3>2, PowersAgree
  <2>. QED  BY <2>1, <2>2, <2>3
<1>3. H = [n \in Nat |-> H[n]]
  OBVIOUS
<1>4. H = [n \in Nat |-> IF n = 0 THEN 1 ELSE Multiplier * H[n - 1]]
  <2>. HIDE DEF H
  <2>. QED  BY <1>2, <1>3
<1>5. \E f : f = [n \in Nat |-> IF n = 0 THEN 1 ELSE Multiplier * f[n - 1]]
  <2>. HIDE DEF H
  <2>. QED  BY <1>4
<1>. QED  BY <1>5 DEF Power

\* Its values, which are positive.
LEMMA PowerAt ==
  /\ Power[0] = 1
  /\ \A n \in Nat \ {0} : Power[n] = Multiplier * Power[n - 1]
<1>1. \A n \in Nat : Power[n] = IF n = 0 THEN 1 ELSE Multiplier * Power[n - 1]
  BY PowerRecursion, Zenon
<1>. QED  BY <1>1

LEMMA PowerPositive == \A n \in Nat : Power[n] \in Nat \ {0}
<1>. DEFINE Bad == {n \in Nat : Power[n] \notin Nat \ {0}}
<1>. SUFFICES ASSUME Bad # {} PROVE FALSE
  OBVIOUS
<1>1. PICK n \in Bad : \A j \in Bad : n <= j
  <2>1. Bad \subseteq Nat
    OBVIOUS
  <2>. HIDE DEF Bad
  <2>. QED  BY <2>1, LeastNatural
<1>2. n # 0
  BY <1>1, PowerAt
<1>3. n - 1 \in Nat /\ Power[n - 1] \in Nat \ {0}
  <2>1. n - 1 \in Nat /\ n - 1 \notin Bad
    BY <1>1, <1>2
  <2>. QED  BY <2>1
<1>4. Power[n] = Multiplier * Power[n - 1]
  BY <1>2, PowerAt
<1>5. Multiplier \in Nat \ {0}
  BY DelayAssumption
<1>. QED  BY <1>1, <1>3, <1>4, <1>5

-----------------------------------------------------------------------------
Backoffs == UNION {backoff_for(n) : n \in Nat \ {0}}

TimingInv == RetryInv /\ delays \in Seq(Backoffs) /\ SleepsBetweenAttempts

\* The timed actions are those of RetryPolicy.
LEMMA TimedIsRetry == [TimingNext]_timingVars => [RetryNext]_retryVars
BY DEF TimingNext, TimedExecute, TimedReturn, TimedRaise, TimedWake, timingVars, RetryNext

\* Every step keeps the number of sleeps right.
LEMMA TimingStep == TimingInv /\ [TimingNext]_timingVars => TimingInv'
<1>. SUFFICES ASSUME TimingInv, [TimingNext]_timingVars PROVE TimingInv'
  OBVIOUS
<1>0. /\ RetryInv /\ delays \in Seq(Backoffs) /\ SleepsBetweenAttempts
      /\ results \in Seq(Exceptions \cup {"ok"}) /\ attempt \in Nat \ {0}
  BY DEF TimingInv, RetryInv, RetryTypeOK
<1>1. RetryInv'
  BY <1>0, TimedIsRetry, ExecuteInv, CallReturnsInv, CallRaisesInv, SleepEndsInv,
     RetryUnchangedInv DEF RetryNext
<1>2. CASE TimedExecute
  BY <1>1, <1>2 DEF TimedExecute, Execute, TimingInv, SleepsBetweenAttempts
<1>3. CASE TimedReturn
  <2>1. /\ retryState = "call" /\ retryState' = "done" /\ delays' = delays
        /\ results' = Append(results, "ok")
    BY <1>3 DEF TimedReturn, CallReturns
  <2>2. Len(results') = Len(results) + 1 /\ results' # <<>> /\ Len(results) \in Nat
    BY <1>0, <2>1
  <2>. QED  BY <1>0, <1>1, <2>1, <2>2 DEF TimingInv, SleepsBetweenAttempts
<1>4. ASSUME NEW exc \in Exceptions, TimedRaise(exc) PROVE TimingInv'
  <2>1. /\ retryState = "call" /\ retryState' \in {"done", "sleep"}
        /\ results' = Append(results, exc)
    BY <1>4 DEF TimedRaise, CallRaises
  <2>2. Len(results') = Len(results) + 1 /\ results' # <<>> /\ Len(results) \in Nat
    BY <1>0, <2>1
  <2>3. Len(delays) = Len(results)
    BY <1>0, <2>1 DEF SleepsBetweenAttempts
  <2>4. CASE retryState' = "sleep"
    <3>1. PICK d \in Backoffs : delays' = Append(delays, d)
      BY <1>0, <1>4, <2>4 DEF TimedRaise, Backoffs
    <3>2. delays' \in Seq(Backoffs) /\ Len(delays') = Len(delays) + 1
      BY <1>0, <3>1
    <3>. QED  BY <1>1, <2>2, <2>3, <2>4, <3>2 DEF TimingInv, SleepsBetweenAttempts
  <2>5. CASE retryState' # "sleep"
    <3>1. delays' = delays /\ retryState' = "done"
      BY <1>4, <2>1, <2>5 DEF TimedRaise
    <3>. QED  BY <1>0, <1>1, <2>2, <2>3, <3>1 DEF TimingInv, SleepsBetweenAttempts
  <2>. QED  BY <2>4, <2>5
<1>5. CASE TimedWake
  BY <1>0, <1>1, <1>5 DEF TimedWake, SleepEnds, TimingInv, SleepsBetweenAttempts
<1>6. CASE UNCHANGED timingVars
  BY <1>0, <1>1, <1>6 DEF timingVars, retryVars, TimingInv, SleepsBetweenAttempts
<1>. QED  BY <1>2, <1>3, <1>4, <1>5, <1>6 DEF TimingNext

\* One sleep between each pair of attempts, and no other (retry.py:123-137).
THEOREM SleepsOnlyBetweenAttempts == TimingSpec => []SleepsBetweenAttempts
<1>1. TimingInit => TimingInv
  BY RetryInitInv DEF TimingInit, RetryInit, TimingInv, SleepsBetweenAttempts
<1>2. TimingInv => SleepsBetweenAttempts
  BY DEF TimingInv
<1>. QED  BY <1>1, <1>2, TimingStep, PTL DEF TimingSpec

\* The sleeps and their lengths change nothing about when execute() calls, gives up
\* and returns (retry.py:108-146): with its delays left out, every timed behaviour
\* is one of RetryPolicy.
THEOREM TimingImplementsRetry == TimingSpec => RetrySpec
<1>1. TimingInit => RetryInit
  BY DEF TimingInit
<1>. QED  BY <1>1, TimedIsRetry, PTL DEF TimingSpec, RetrySpec

-----------------------------------------------------------------------------
\* Each sleep is a draw for the attempt it follows.
DrawsFit == \A i \in DOMAIN delays : delays[i] \in backoff_for(i)

\* Attempt n appends the nth sleep.
LEMMA DrawsFitStep == TimingInv /\ DrawsFit /\ [TimingNext]_timingVars => DrawsFit'
<1>. SUFFICES ASSUME TimingInv, DrawsFit, [TimingNext]_timingVars PROVE DrawsFit'
  OBVIOUS
<1>0. delays \in Seq(Backoffs) /\ results \in Seq(Exceptions \cup {"ok"}) /\ attempt \in Nat \ {0}
  BY DEF TimingInv, RetryInv, RetryTypeOK
<1>1. CASE TimedExecute
  BY <1>1 DEF TimedExecute, DrawsFit
<1>2. CASE UNCHANGED delays
  BY <1>2 DEF DrawsFit
<1>3. ASSUME NEW exc \in Exceptions, TimedRaise(exc) PROVE DrawsFit'
  <2>1. CASE retryState' = "sleep"
    <3>1. PICK d \in backoff_for(attempt) : delays' = Append(delays, d)
      BY <1>3, <2>1 DEF TimedRaise
    <3>2. retryState = "call"
      BY <1>3 DEF TimedRaise, CallRaises
    <3>3. Len(delays) = attempt - 1
      <4>1. Len(results) = attempt - 1
        BY <3>2 DEF TimingInv, RetryInv, LoopCounter
      <4>2. Len(delays) = Len(results)
        BY <3>2 DEF TimingInv, SleepsBetweenAttempts
      <4>. QED  BY <4>1, <4>2
    <3>4. /\ DOMAIN delays' = DOMAIN delays \cup {attempt} /\ delays'[attempt] = d
          /\ \A i \in DOMAIN delays : delays'[i] = delays[i]
      BY <1>0, <3>1, <3>3
    <3>. QED  BY <3>1, <3>4 DEF DrawsFit
  <2>2. CASE retryState' # "sleep"
    BY <1>2, <1>3, <2>2 DEF TimedRaise
  <2>. QED  BY <2>1, <2>2
<1>. QED  BY <1>1, <1>2, <1>3 DEF TimingNext, TimedReturn, TimedWake, timingVars

LEMMA DrawsAlwaysFit == TimingSpec => [](TimingInv /\ DrawsFit)
<1>1. TimingInit => TimingInv /\ DrawsFit
  BY RetryInitInv DEF TimingInit, RetryInit, TimingInv, SleepsBetweenAttempts, DrawsFit
<1>. QED  BY <1>1, TimingStep, DrawsFitStep, PTL DEF TimingSpec

\* What a draw may be: the capped delay, give or take its share of jitter.
Raw(n) == Least(Exponential(n), MaxDelay)

\* A draw is no further from it than the jitter.
LEMMA DrawBand ==
  ASSUME NEW n \in Nat \ {0}, NEW d \in backoff_for(n)
  PROVE  /\ Raw(n) \in Nat /\ d \in Nat
         /\ Raw(n) - (Raw(n) * Jitter) \div 100 <= d
         /\ d <= Raw(n) + (Raw(n) * Jitter) \div 100
<1>1. Exponential(n) \in Nat
  <2>1. Power[n - 1] \in Nat /\ BaseDelay \in Nat
    BY PowerPositive, DelayAssumption
  <2>. QED  BY <2>1 DEF Exponential
<1>2. Raw(n) \in Nat
  BY <1>1, DelayAssumption DEF Raw, Least
<1>. DEFINE raw == Raw(n)  spread == (raw * Jitter) \div 100
<1>3. d \in {Greatest(0, e) : e \in (raw - spread) .. (raw + spread)}
  BY DEF backoff_for, Raw
<1>4. raw \in Nat /\ spread \in Nat
  <2>1. raw * Jitter \in Nat
    BY <1>2, DelayAssumption
  <2>. QED  BY <1>2, <2>1
<1>. HIDE DEF raw, spread
<1>5. PICK e \in (raw - spread) .. (raw + spread) : d = Greatest(0, e)
  BY <1>3
<1>6. d \in Nat /\ raw - spread <= d /\ d <= raw + spread
  BY <1>4, <1>5 DEF Greatest
<1>. QED  BY <1>2, <1>6 DEF raw, spread

\* The bands of two consecutive delays do not meet.  With the defaults of
\* retry.py:79-86 (a positive base delay, doubling, 25%) this is 125 < 150; with 34%
\* and doubling it no longer holds.
BandsApart == BaseDelay > 0 /\ 100 + Jitter < Multiplier * (100 - Jitter)

\* An earlier draw is below a later one that the cap does not shorten.
LEMMA BandsDoNotMeet ==
  ASSUME BandsApart, NEW n \in Nat \ {0, 1}, Exponential(n) <= MaxDelay,
         NEW c \in backoff_for(n - 1), NEW d \in backoff_for(n)
  PROVE  c < d
<1>. DEFINE p == Exponential(n - 1)  e == Exponential(n)
<1>1. p \in Nat \ {0} /\ e = Multiplier * p
  <2>. DEFINE k == Power[n - 2]
  <2>1. n - 2 \in Nat /\ (n - 1) - 1 = n - 2 /\ n - 1 \in Nat \ {0}
    OBVIOUS
  <2>2. k \in Nat \ {0} /\ Power[n - 1] = Multiplier * k
    BY <2>1, PowerPositive, PowerAt
  <2>3. p = BaseDelay * k /\ e = BaseDelay * (Multiplier * k)
    BY <2>1, <2>2 DEF Exponential
  <2>4. BaseDelay \in Nat \ {0} /\ Multiplier \in Nat \ {0}
    BY DelayAssumption DEF BandsApart
  <2>. HIDE DEF k, p, e
  <2>. QED  BY <2>2, <2>3, <2>4
<1>2. /\ Multiplier \in Nat \ {0} /\ Jitter \in Nat /\ MaxDelay \in Nat
      /\ 100 + Jitter < Multiplier * (100 - Jitter) /\ e <= MaxDelay
  BY DelayAssumption DEF BandsApart
<1>. HIDE DEF p, e
<1>3. e \in Nat /\ p <= e
  BY <1>1, <1>2
<1>4. Raw(n) = e /\ Raw(n - 1) = p
  BY <1>1, <1>2, <1>3 DEF Raw, Least, p, e
<1>5. /\ c \in Nat /\ c <= p + (p * Jitter) \div 100
      /\ d \in Nat /\ e - (e * Jitter) \div 100 <= d
  BY <1>4, DrawBand
<1>. DEFINE s == (p * Jitter) \div 100  t == (e * Jitter) \div 100
<1>6. s \in Nat /\ 100 * s <= p * Jitter /\ t \in Nat /\ 100 * t <= e * Jitter
  <2>1. p * Jitter \in Nat /\ e * Jitter \in Nat
    BY <1>1, <1>2, <1>3
  <2>. QED  BY <2>1
<1>7. p * (100 + Jitter) < e * (100 - Jitter)
  <2>1. p * (100 + Jitter) < p * (Multiplier * (100 - Jitter))
    BY <1>1, <1>2
  <2>2. p * (Multiplier * (100 - Jitter)) = e * (100 - Jitter)
    BY <1>1, <1>2
  <2>. QED  BY <2>1, <2>2
<1>8. p * (100 + Jitter) = 100 * p + p * Jitter /\ e * (100 - Jitter) = 100 * e - e * Jitter
  BY <1>1, <1>2, <1>3
<1>9. p * Jitter \in Nat /\ e * Jitter \in Nat
  BY <1>1, <1>2, <1>3
<1>. HIDE DEF s, t
<1>10. 100 * p + 100 * s < 100 * e - 100 * t
  BY <1>1, <1>3, <1>6, <1>7, <1>8, <1>9
<1>11. c <= p + s /\ e - t <= d
  BY <1>5 DEF s, t
<1>. QED  BY <1>1, <1>3, <1>5, <1>6, <1>10, <1>11

\* A later sleep is longer than the one before it until the cap is reached, whatever
\* the jitter draws (retry.py:97-105), for every budget and all delays whose
\* bands are apart.
THEOREM BackoffsGrow == BandsApart => (TimingSpec => []BackoffGrows)
<1>. SUFFICES ASSUME BandsApart PROVE TimingSpec => []BackoffGrows
  OBVIOUS
<1>1. TimingInv /\ DrawsFit => BackoffGrows
  <2>. SUFFICES ASSUME TimingInv, DrawsFit, NEW i \in 2 .. Len(delays),
                       Exponential(i) <= MaxDelay
                PROVE  delays[i - 1] < delays[i]
    BY DEF BackoffGrows
  <2>1. delays \in Seq(Backoffs)
    BY DEF TimingInv
  <2>2. i \in Nat \ {0, 1} /\ i \in DOMAIN delays /\ i - 1 \in DOMAIN delays
    BY <2>1
  <2>3. delays[i - 1] \in backoff_for(i - 1) /\ delays[i] \in backoff_for(i)
    BY <2>2 DEF DrawsFit
  <2>. QED  BY <2>2, <2>3, BandsDoNotMeet
<1>. QED  BY <1>1, DrawsAlwaysFit, PTL

\* A sleep after the cap was reached is the cap give or take its jitter, and no sleep
\* is longer (retry.py:101-106), for every budget and all delays.
THEOREM SleepsStayBounded == TimingSpec => []SleepsBounded
<1>1. TimingInv /\ DrawsFit => SleepsBounded
  <2>. DEFINE t == (MaxDelay * Jitter) \div 100
  <2>. SUFFICES ASSUME TimingInv, DrawsFit, NEW i \in DOMAIN delays
                PROVE  /\ delays[i] \in 0 .. MaxDelay + t
                       /\ Exponential(i) >= MaxDelay => delays[i] >= MaxDelay - t
    BY DEF SleepsBounded
  <2>1. i \in Nat \ {0} /\ delays[i] \in backoff_for(i)
    BY DEF TimingInv, DrawsFit
  <2>. DEFINE raw == Raw(i)  s == (raw * Jitter) \div 100
  <2>2. raw \in Nat /\ delays[i] \in Nat /\ raw - s <= delays[i] /\ delays[i] <= raw + s
    BY <2>1, DrawBand
  <2>3. /\ raw <= MaxDelay /\ MaxDelay \in Nat /\ Jitter \in Nat
        /\ Exponential(i) >= MaxDelay => raw = MaxDelay
    <3>1. Exponential(i) \in Nat
      <4>1. Power[i - 1] \in Nat /\ BaseDelay \in Nat
        BY <2>1, PowerPositive, DelayAssumption
      <4>. QED  BY <4>1 DEF Exponential
    <3>. QED  BY <3>1, DelayAssumption DEF Raw, Least
  <2>4. s <= t /\ s \in Nat /\ t \in Nat
    <3>. HIDE DEF raw
    <3>1. raw * Jitter <= MaxDelay * Jitter /\ raw * Jitter \in Nat /\ MaxDelay * Jitter \in Nat
      BY <2>2, <2>3
    <3>. QED  BY <3>1
  <2>5. raw = MaxDelay => s = t
    <3>. HIDE DEF raw
    <3>. QED  OBVIOUS
  <2>. HIDE DEF raw, s, t
  <2>6. delays[i] \in 0 .. MaxDelay + t
    BY <2>2, <2>3, <2>4
  <2>7. Exponential(i) >= MaxDelay => delays[i] >= MaxDelay - t
    <3>. HIDE DEF Exponential
    <3>. QED  BY <2>2, <2>3, <2>5
  <2>. QED  BY <2>6, <2>7
<1>. QED  BY <1>1, DrawsAlwaysFit, PTL
=============================================================================
