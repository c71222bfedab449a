-------------------------- MODULE AggregatorProofs --------------------------
(***************************************************************************)
(* Proofs about Aggregator for every set of products and prices, any       *)
(* number of orders and every point at which an interrupt may cut an       *)
(* update short.                                                           *)
(*                                                                         *)
(* The first part proves what the proofs need of the sums of Functions:    *)
(* they are defined by a CHOOSEn recursive function on the subsets of a    *)
(* set, and induction on finite sets is the existence of a least           *)
(* counterexample (WFMin with the strict subset ordering).                 *)
(*                                                                         *)
(* AggregatorInv says of every assignment of update() which prices it has  *)
(* seen: all of its key, or all but the one in hand when the order has not *)
(* reached that assignment yet.  Each field then fits the prices that its  *)
(* own assignment has seen, at every point of add().                       *)
(***************************************************************************)
EXTENDS Aggregator, FiniteSetTheorems, TLAPS

-----------------------------------------------------------------------------
\* The element that the fold of Folds takes out of a set first.
Pick(s) == CHOOSE x \in s : TRUE

\* Iterates(g, f, s): g sums f over each subset of s.
Iterates(g, f, s) ==
  g = [t \in SUBSET s |-> IF t = {} THEN 0 ELSE f[Pick(t)] + g[t \ {Pick(t)}]]

\* Induction on finite sets, as the least counterexample.
LEMMA LeastFiniteSet ==
  ASSUME NEW S, IsFiniteSet(S), NEW T, T \subseteq SUBSET S, T # {}
  PROVE  \E x \in T : IsFiniteSet(x) /\ \A y \in T : y \subseteq x => x = y
<1>. DEFINE R == StrictSubsetOrdering(S)  F == FiniteSubsetsOf(S)
<1>0. T \subseteq F
  BY FS_Subset DEF FiniteSubsetsOf
<1>1. IsWellFoundedOn(R, F)
  BY FS_StrictSubsetOrderingWellFounded
<1>2. \E x \in T : \A y \in T : ~ (<<y, x>> \in R)
  <2>. HIDE DEF R, F
  <2>. QED  BY <1>0, <1>1, WFMin, Zenon
<1>. QED  BY <1>0, <1>2 DEF StrictSubsetOrdering, FiniteSubsetsOf

\* What is taken out of a set was in it.
LEMMA PickIn == ASSUME NEW s, s # {} PROVE Pick(s) \in s
BY DEF Pick

\* One step of the recursion.
LEMMA IterateAt ==
  ASSUME NEW f, NEW s, NEW g, Iterates(g, f, s), NEW t \in SUBSET s
  PROVE  g[t] = IF t = {} THEN 0 ELSE f[Pick(t)] + g[t \ {Pick(t)}]
<1>1. g = [u \in SUBSET s |-> IF u = {} THEN 0 ELSE f[Pick(u)] + g[u \ {Pick(u)}]]
  BY DEF Iterates
<1>. QED  BY <1>1, Zenon

\* Two of them agree on the finite sets they share.
LEMMA IterateUnique ==
  ASSUME NEW f, NEW s, NEW t, NEW g, NEW h, Iterates(g, f, s), Iterates(h, f, t),
         NEW u \in SUBSET s, u \in SUBSET t, IsFiniteSet(u)
  PROVE  g[u] = h[u]
<1>. DEFINE Bad == {v \in SUBSET u : g[v] # h[v]}
<1>. SUFFICES ASSUME Bad # {} PROVE FALSE
  OBVIOUS
<1>2. PICK v \in Bad : IsFiniteSet(v) /\ \A w \in Bad : w \subseteq v => v = w
  <2>1. Bad \subseteq SUBSET u
    OBVIOUS
  <2>. HIDE DEF Bad
  <2>. QED  BY <2>1, LeastFiniteSet
<1>3. CASE v = {}
  BY <1>2, <1>3, IterateAt
<1>4. CASE v # {}
  <2>1. Pick(v) \in v
    BY <1>4, PickIn
  <2>2. g[v \ {Pick(v)}] = h[v \ {Pick(v)}]
    BY <1>2, <2>1
  <2>3. g[v] = f[Pick(v)] + g[v \ {Pick(v)}] /\ h[v] = f[Pick(v)] + h[v \ {Pick(v)}]
    BY <1>4, IterateAt
  <2>. QED  BY <2>2, <2>3
<1>. QED  BY <1>3, <1>4

\* There is one for every finite set.
LEMMA IterateExists ==
  ASSUME NEW f, NEW s, IsFiniteSet(s)
  PROVE  \E g : Iterates(g, f, s)
<1>. DEFINE Bad == {t \in SUBSET s : ~ \E g : Iterates(g, f, t)}
<1>. SUFFICES ASSUME Bad # {} PROVE FALSE
  OBVIOUS
<1>2. PICK t \in Bad : IsFiniteSet(t) /\ \A u \in Bad : u \subseteq t => t = u
  <2>1. Bad \subseteq SUBSET s
    OBVIOUS
  <2>. HIDE DEF Bad
  <2>. QED  BY <2>1, LeastFiniteSet
<1>. DEFINE G(u) == CHOOSE g : Iterates(g, f, u)
            Val(u) == IF u = {} THEN 0 ELSE f[Pick(u)] + G(u \ {Pick(u)})[u \ {Pick(u)}]
            H == [u \in SUBSET t |-> Val(u)]
<1>3. \A u \in SUBSET t : u # t => Iterates(G(u), f, u)
  BY <1>2
<1>4. \A u \in SUBSET t : u # t => G(u)[u] = Val(u)
  <2>. SUFFICES ASSUME NEW u \in SUBSET t, u # t PROVE G(u)[u] = Val(u)
    OBVIOUS
  <2>1. Iterates(G(u), f, u)
    BY <1>3
  <2>2. CASE u = {}
    BY <2>1, <2>2, IterateAt
  <2>3. CASE u # {}
    <3>. DEFINE w == u \ {Pick(u)}
    <3>1. Pick(u) \in u /\ w \in SUBSET t /\ w # t /\ w \in SUBSET u
      BY <2>3, PickIn
    <3>2. Iterates(G(w), f, w) /\ IsFiniteSet(w)
      BY <3>1, <1>3, <1>2, FS_Subset
    <3>3. G(u)[w] = G(w)[w]
      BY <2>1, <3>1, <3>2, IterateUnique
    <3>4. G(u)[u] = f[Pick(u)] + G(u)[w]
      BY <2>1, <2>3, IterateAt
    <3>. QED  BY <2>3, <3>3, <3>4
  <2>. QED  BY <2>2, <2>3
<1>5. \A u \in SUBSET t : u # {} => H[u \ {Pick(u)}] = G(u \ {Pick(u)})[u \ {Pick(u)}]
  <2>. SUFFICES ASSUME NEW u \in SUBSET t, u # {}
                PROVE  H[u \ {Pick(u)}] = G(u \ {Pick(u)})[u \ {Pick(u)}]
    OBVIOUS
  <2>. DEFINE w == u \ {Pick(u)}
  <2>1. w \in SUBSET t /\ w # t
    BY PickIn
  <2>2. H[w] = Val(w) /\ G(w)[w] = Val(w)
    BY <2>1, <1>4
  <2>. QED  BY <2>2
<1>6. \A u \in SUBSET t :
        Val(u) = IF u = {} THEN 0 ELSE f[Pick(u)] + H[u \ {Pick(u)}]
  <2>. HIDE DEF H, G
  <2>. QED  BY <1>5, Zenon
<1>7. H = [u \in SUBSET t |-> IF u = {} THEN 0 ELSE f[Pick(u)] + H[u \ {Pick(u)}]]
  <2>. HIDE DEF Val
  <2>. QED  BY <1>6
<1>8. Iterates(H, f, t)
  <2>. HIDE DEF H
  <2>. QED  BY <1>7 DEF Iterates
<1>. QED  BY <1>2, <1>8

\* A sum of Functions is the value of one of them at the whole set.
LEMMA SumIterate ==
  ASSUME NEW f, NEW s, NEW g, Iterates(g, f, s)
  PROVE  \E h : Iterates(h, f, s) /\ SumFunctionOnSet(f, s) = h[s]
BY DEF SumFunctionOnSet, FoldFunctionOnSet, MapThenFoldSet, Iterates, Pick

\* The recursion of a sum.
LEMMA SumRecursion ==
  ASSUME NEW f, NEW s, IsFiniteSet(s)
  PROVE  SumFunctionOnSet(f, s) =
           IF s = {} THEN 0 ELSE f[Pick(s)] + SumFunctionOnSet(f, s \ {Pick(s)})
<1>. DEFINE w == s \ {Pick(s)}
<1>1. PICK g : Iterates(g, f, s) /\ SumFunctionOnSet(f, s) = g[s]
  BY IterateExists, SumIterate
<1>2. IsFiniteSet(w)
  BY FS_Subset
<1>3. PICK h : Iterates(h, f, w) /\ SumFunctionOnSet(f, w) = h[w]
  BY <1>2, IterateExists, SumIterate
<1>4. g[w] = h[w]
  BY <1>1, <1>2, <1>3, IterateUnique
<1>5. g[s] = IF s = {} THEN 0 ELSE f[Pick(s)] + g[w]
  BY <1>1, IterateAt
<1>. QED  BY <1>1, <1>3, <1>4, <1>5

\* A sum of integers is an integer.
LEMMA SumType ==
  ASSUME NEW f, NEW S, IsFiniteSet(S), \A x \in S : f[x] \in Int
  PROVE  SumFunctionOnSet(f, S) \in Int
<1>. DEFINE Bad == {t \in SUBSET S : SumFunctionOnSet(f, t) \notin Int}
<1>. SUFFICES ASSUME Bad # {} PROVE FALSE
  OBVIOUS
<1>2. PICK t \in Bad : IsFiniteSet(t) /\ \A u \in Bad : u \subseteq t => t = u
  <2>1. Bad \subseteq SUBSET S
    OBVIOUS
  <2>. HIDE DEF Bad
  <2>. QED  BY <2>1, LeastFiniteSet
<1>3. t # {}
  <2>. SUFFICES ASSUME t = {} PROVE FALSE
    OBVIOUS
  <2>1. SumFunctionOnSet(f, t) = 0
    BY <1>2, SumRecursion
  <2>. QED  BY <1>2, <2>1
<1>4. Pick(t) \in t
  BY <1>3, PickIn
<1>5. SumFunctionOnSet(f, t \ {Pick(t)}) \in Int
  BY <1>2, <1>4
<1>. QED  BY <1>2, <1>3, <1>4, <1>5, SumRecursion

\* Any element may be taken out of a sum.
LEMMA SumTakeOut ==
  ASSUME NEW f, NEW S, IsFiniteSet(S), \A x \in S : f[x] \in Int, NEW a \in S
  PROVE  SumFunctionOnSet(f, S) = f[a] + SumFunctionOnSet(f, S \ {a})
<1>. DEFINE Sum(t) == SumFunctionOnSet(f, t)
            Bad == {t \in SUBSET S : \E x \in t : Sum(t) # f[x] + Sum(t \ {x})}
<1>. SUFFICES ASSUME Bad # {} PROVE FALSE
  OBVIOUS
<1>2. PICK t \in Bad : IsFiniteSet(t) /\ \A u \in Bad : u \subseteq t => t = u
  <2>1. Bad \subseteq SUBSET S
    OBVIOUS
  <2>. HIDE DEF Bad
  <2>. QED  BY <2>1, LeastFiniteSet
<1>3. PICK x \in t : Sum(t) # f[x] + Sum(t \ {x})
  BY <1>2
<1>. DEFINE y == Pick(t)
<1>4. y \in t /\ IsFiniteSet(t) /\ t # {}
  BY <1>2, <1>3, PickIn
<1>5. Sum(t) = f[y] + Sum(t \ {y})
  BY <1>4, SumRecursion
<1>6. x # y
  BY <1>3, <1>5
<1>7. \A v : v \in SUBSET t /\ v # t => v \notin Bad
  BY <1>2
<1>8. Sum(t \ {y}) = f[x] + Sum((t \ {y}) \ {x})
  BY <1>4, <1>6, <1>7
<1>9. Sum(t \ {x}) = f[y] + Sum((t \ {x}) \ {y})
  BY <1>4, <1>6, <1>7
<1>10. Sum((t \ {x}) \ {y}) = Sum((t \ {y}) \ {x})
  <2>1. (t \ {x}) \ {y} = (t \ {y}) \ {x}
    OBVIOUS
  <2>. QED  BY <2>1
<1>11. Sum((t \ {y}) \ {x}) \in Int /\ f[x] \in Int /\ f[y] \in Int
  BY <1>2, <1>4, SumType, FS_Subset
<1>12. Sum(t) = f[x] + Sum(t \ {x})
  <2>. HIDE DEF Sum, Bad, y
  <2>. QED  BY <1>5, <1>8, <1>9, <1>10, <1>11
<1>. QED  BY <1>3, <1>12

\* A sum looks at nothing but the summands.
LEMMA SumSame ==
  ASSUME NEW f, NEW g, NEW S, IsFiniteSet(S), \A x \in S : f[x] = g[x]
  PROVE  SumFunctionOnSet(f, S) = SumFunctionOnSet(g, S)
<1>. DEFINE Bad == {t \in SUBSET S : SumFunctionOnSet(f, t) # SumFunctionOnSet(g, t)}
<1>. SUFFICES ASSUME Bad # {} PROVE FALSE
  OBVIOUS
<1>2. PICK t \in Bad : IsFiniteSet(t) /\ \A u \in Bad : u \subseteq t => t = u
  <2>1. Bad \subseteq SUBSET S
    OBVIOUS
  <2>. HIDE DEF Bad
  <2>. QED  BY <2>1, LeastFiniteSet
<1>3. IsFiniteSet(t)
  BY <1>2
<1>4. t # {}
  BY <1>2, <1>3, SumRecursion
<1>5. Pick(t) \in t
  BY <1>4, PickIn
<1>6. SumFunctionOnSet(f, t \ {Pick(t)}) = SumFunctionOnSet(g, t \ {Pick(t)})
  BY <1>2, <1>5
<1>. QED  BY <1>2, <1>3, <1>4, <1>5, <1>6, SumRecursion

\* The sum of nothing.
LEMMA SumEmpty == ASSUME NEW f PROVE SumFunctionOnSet(f, {}) = 0
BY FS_EmptySet, SumRecursion

\* A new summand, and another value of an old one.
LEMMA SumAdd ==
  ASSUME NEW f, NEW S, IsFiniteSet(S), NEW a, a \notin S, \A x \in S \cup {a} : f[x] \in Int
  PROVE  SumFunctionOnSet(f, S \cup {a}) = SumFunctionOnSet(f, S) + f[a]
<1>1. (S \cup {a}) \ {a} = S
  OBVIOUS
<1>2. IsFiniteSet(S \cup {a})
  BY FS_AddElement
<1>3. SumFunctionOnSet(f, S \cup {a}) = f[a] + SumFunctionOnSet(f, (S \cup {a}) \ {a})
  BY <1>2, SumTakeOut
<1>4. SumFunctionOnSet(f, (S \cup {a}) \ {a}) = SumFunctionOnSet(f, S)
  BY <1>1
<1>5. SumFunctionOnSet(f, S) \in Int /\ f[a] \in Int
  BY SumType
<1>. QED  BY <1>3, <1>4, <1>5

\* One summand changes its value.
LEMMA SumChange ==
  ASSUME NEW f, NEW g, NEW S, IsFiniteSet(S), NEW a \in S,
         \A x \in S : f[x] \in Int, g[a] \in Int, \A x \in S \ {a} : g[x] = f[x]
  PROVE  SumFunctionOnSet(g, S) = SumFunctionOnSet(f, S) + (g[a] - f[a])
<1>1. IsFiniteSet(S \ {a}) /\ \A x \in S : g[x] \in Int
  BY FS_RemoveElement
<1>2. SumFunctionOnSet(f, S \ {a}) = SumFunctionOnSet(g, S \ {a})
  BY <1>1, SumSame
<1>3. SumFunctionOnSet(f, S \ {a}) \in Int
  BY <1>1, SumType
<1>4. SumFunctionOnSet(f, S) = f[a] + SumFunctionOnSet(f, S \ {a})
  BY SumTakeOut
<1>5. SumFunctionOnSet(g, S) = g[a] + SumFunctionOnSet(g, S \ {a})
  BY <1>1, SumTakeOut
<1>. QED  BY <1>2, <1>3, <1>4, <1>5

-----------------------------------------------------------------------------
\* The order in hand has not yet reached assignment k of the update of a key; 0 is
\* the registration of a product.
Behind(key, k) == at \in 1 .. IF key = All THEN k ELSE 6 + k

\* The prices that assignment k of a key has seen.
Seen(key, k) ==
  IF Behind(key, k) THEN Restrict(PricesOf(key), DOMAIN PricesOf(key) \ {Len(orders)})
  ELSE PricesOf(key)

TotalFits(v, prices) == v = IF NaN \in Range(prices) THEN NaN ELSE SumFunction(prices)

AverageFits(v, prices) ==
  IF NaN \in Range(prices) THEN v = NaN
  ELSE /\ v \in Int
       /\ v * Cardinality(DOMAIN prices) = Scale * SumFunction(prices)
       /\ DOMAIN prices = {} => v = 0

MinimumFits(v, prices) ==
  IF DOMAIN prices = {} THEN v = None
  ELSE IF StartsWithNaN(prices) THEN v = NaN
  ELSE v \in Range(prices) \ {NaN} /\ \A x \in Range(prices) \ {NaN} : v <= x

MaximumFits(v, prices) ==
  IF DOMAIN prices = {} THEN v = None
  ELSE IF StartsWithNaN(prices) THEN v = NaN
  ELSE v \in Range(prices) \ {NaN} /\ \A x \in Range(prices) \ {NaN} : x <= v

StatFits(key) ==
  /\ stats[key].count = Cardinality(DOMAIN Seen(key, 1))
  /\ TotalFits(stats[key].total, Seen(key, 2))
  /\ AverageFits(stats[key].average, Seen(key, 3))
  /\ MinimumFits(stats[key].minimum, Seen(key, 4))
  /\ MaximumFits(stats[key].maximum, Seen(key, 5))

Registered ==
  /\ IsFiniteSet(registered)
  /\ \A p \in Products : p \in registered <=> DOMAIN Seen(p, 0) # {}

Counts == [p \in Products |-> stats[p].count]
Totals == [p \in Products |-> stats[p].total]

RowsFit ==
  /\ stats[All].count = SumFunctionOnSet(Counts, registered) + IF at \in 2 .. 7 THEN 1 ELSE 0
  /\ stats[All].total # NaN
     => stats[All].total = SumFunctionOnSet(Totals, registered)
                           + IF at \in 3 .. 8 THEN InHand.price ELSE 0

AggregatorInv ==
  /\ AggregatorTypeOK
  /\ at # 0 => orders # <<>>
  /\ Len(orders) <= MaxOrders
  /\ \A key \in Products \cup {All} : StatFits(key)
  /\ Registered
  /\ RowsFit

-----------------------------------------------------------------------------
\* What a price may be, and a function from places in the stream to prices.
Price == Prices \cup {NaN}

PriceStream(f) ==
  /\ IsFiniteSet(DOMAIN f) /\ DOMAIN f \subseteq Nat
  /\ \A j \in DOMAIN f : f[j] \in Price

\* g is f with one more price, x at place i.
Extends(g, f, i, x) ==
  /\ i \notin DOMAIN f
  /\ DOMAIN g = DOMAIN f \cup {i}
  /\ g[i] = x
  /\ \A j \in DOMAIN f : g[j] = f[j]

\* Prices are integers or NaN, and None is no price.
LEMMA PriceFacts ==
  /\ \A x \in Price : x # NaN => x \in Int
  /\ NaN \notin Int /\ None \notin Int /\ NaN # None /\ None \notin Price
BY AggregatorAssumption DEF Price

\* What one more price does to the values, the count and the sum.
LEMMA RangeExtends ==
  ASSUME NEW f, NEW g, NEW i, NEW x, Extends(g, f, i, x)
  PROVE  Range(g) = Range(f) \cup {x}
BY DEF Extends, Range

LEMMA CountExtends ==
  ASSUME NEW f, PriceStream(f), NEW g, NEW i, NEW x, Extends(g, f, i, x)
  PROVE  /\ Cardinality(DOMAIN f) \in Nat
         /\ Cardinality(DOMAIN g) = Cardinality(DOMAIN f) + 1
         /\ IsFiniteSet(DOMAIN g) /\ DOMAIN g # {}
<1>. DEFINE S == DOMAIN f  T == DOMAIN g
<1>1. T = S \cup {i} /\ i \notin S /\ IsFiniteSet(S)
  BY DEF Extends, PriceStream
<1>. HIDE DEF S, T
<1>2. Cardinality(S) \in Nat /\ Cardinality(T) = Cardinality(S) + 1 /\ IsFiniteSet(T)
  BY <1>1, FS_AddElement, FS_CardinalityType
<1>3. T # {}
  BY <1>1
<1>. QED  BY <1>2, <1>3 DEF S, T

\* A stream without NaN has a sum.
LEMMA SumIsInt ==
  ASSUME NEW f, PriceStream(f), NaN \notin Range(f)
  PROVE  SumFunction(f) \in Int /\ \A j \in DOMAIN f : f[j] \in Int
<1>1. \A j \in DOMAIN f : f[j] \in Int
  BY PriceFacts DEF PriceStream, Range
<1>2. IsFiniteSet(DOMAIN f)
  BY DEF PriceStream
<1>. QED  BY <1>1, <1>2, SumType DEF SumFunction

\* One more price that is a number is added to the sum.
LEMMA SumExtends ==
  ASSUME NEW f, PriceStream(f), NaN \notin Range(f),
         NEW g, NEW i, NEW x \in Int, Extends(g, f, i, x)
  PROVE  SumFunction(g) = SumFunction(f) + x
<1>. DEFINE S == DOMAIN f
<1>1. /\ DOMAIN g = S \cup {i} /\ g[i] = x /\ i \notin S
      /\ \A j \in S : g[j] = f[j]
  BY DEF Extends
<1>2. \A j \in S : f[j] \in Int
  BY SumIsInt
<1>3. IsFiniteSet(S)
  BY DEF PriceStream
<1>. HIDE DEF S
<1>4. SumFunctionOnSet(g, S \cup {i}) = SumFunctionOnSet(g, S) + g[i]
  BY <1>1, <1>2, <1>3, SumAdd
<1>5. SumFunctionOnSet(g, S) = SumFunctionOnSet(f, S)
  BY <1>1, <1>3, SumSame
<1>6. SumFunction(g) = SumFunctionOnSet(g, S \cup {i}) /\ SumFunction(f) = SumFunctionOnSet(f, S)
  BY <1>1 DEF SumFunction, S
<1>. QED  BY <1>1, <1>4, <1>5, <1>6

\* The assignment of `total` (aggregator.py:24).
LEMMA TotalExtends ==
  ASSUME NEW f, PriceStream(f), NEW g, NEW i, NEW x \in Price, Extends(g, f, i, x),
         NEW v, TotalFits(v, f)
  PROVE  TotalFits(IF NaN \in {v, x} THEN NaN ELSE v + x, g)
<1>1. Range(g) = Range(f) \cup {x}
  BY RangeExtends
<1>2. CASE NaN \in Range(f)
  BY <1>1, <1>2 DEF TotalFits
<1>3. CASE NaN \notin Range(f)
  <2>1. v = SumFunction(f) /\ v # NaN
    BY <1>3, SumIsInt, PriceFacts DEF TotalFits
  <2>2. CASE x = NaN
    BY <1>1, <2>2 DEF TotalFits
  <2>3. CASE x # NaN
    <3>1. x \in Int
      BY <2>3, PriceFacts
    <3>2. SumFunction(g) = SumFunction(f) + x
      BY <1>3, <3>1, SumExtends
    <3>. QED  BY <1>1, <1>3, <2>1, <2>3, <3>2 DEF TotalFits
  <2>. QED  BY <2>2, <2>3
<1>. QED  BY <1>2, <1>3

\* The correction of the mean is exact.
LEMMA ExactMean ==
  ASSUME NEW n \in Nat, n + 1 <= MaxOrders, NEW avg \in Int, NEW total \in Int, NEW x \in Int,
         avg * n = Scale * total, n = 0 => avg = 0
  PROVE  /\ avg + (Scale * x - avg) \div (n + 1) \in Int
         /\ (avg + (Scale * x - avg) \div (n + 1)) * (n + 1) = Scale * (total + x)
<1>1. PICK a \in Int : Scale = (n + 1) * a
  <2>1. Scale % (n + 1) = 0 /\ Scale \in Int
    BY AggregatorAssumption
  <2>2. Scale = (n + 1) * (Scale \div (n + 1)) /\ Scale \div (n + 1) \in Int
    BY <2>1
  <2>. QED  BY <2>2
<1>2. PICK q \in Int : Scale * x - avg = (n + 1) * q
  <2>1. CASE n = 0
    <3>1. Scale * x - avg = (n + 1) * (Scale * x - avg) /\ Scale * x - avg \in Int
      BY <2>1, AggregatorAssumption
    <3>. QED  BY <3>1
  <2>2. CASE n # 0
    <3>1. PICK b \in Int : Scale = n * b
      <4>1. Scale % n = 0 /\ Scale \in Int
        BY <2>2, AggregatorAssumption
      <4>2. Scale = n * (Scale \div n) /\ Scale \div n \in Int
        BY <2>2, <4>1
      <4>. QED  BY <4>2
    <3>2. avg = b * total
      <4>1. n * avg = n * (b * total)
        BY <3>1
      <4>. QED  BY <2>2, <4>1
    <3>3. b = (n + 1) * (b - a)
      BY <1>1, <3>1
    <3>4. b * total = (n + 1) * ((b - a) * total)
      BY <3>3
    <3>5. Scale * x = (n + 1) * (a * x)
      BY <1>1
    <3>6. Scale * x - avg = (n + 1) * (a * x - (b - a) * total)
      BY <3>2, <3>4, <3>5
    <3>7. a * x - (b - a) * total \in Int
      OBVIOUS
    <3>. QED  BY <3>6, <3>7
  <2>. QED  BY <2>1, <2>2
<1>3. (Scale * x - avg) \div (n + 1) = q
  BY <1>2
<1>4. (avg + q) * (n + 1) = Scale * (total + x)
  <2>1. (avg + q) * (n + 1) = avg * n + avg + (n + 1) * q
    OBVIOUS
  <2>2. /\ Scale * (total + x) = Scale * total + Scale * x
        /\ Scale * total \in Int /\ Scale * x \in Int
    BY AggregatorAssumption
  <2>3. avg * n \in Int /\ (n + 1) * q \in Int
    OBVIOUS
  <2>. QED  BY <1>2, <2>1, <2>2, <2>3
<1>5. avg + (Scale * x - avg) \div (n + 1) = avg + q /\ avg + q \in Int
  BY <1>3
<1>. QED  BY <1>4, <1>5, Zenon

\* The assignment of `average` with the count already advanced.
LEMMA AverageExtends ==
  ASSUME NEW f, PriceStream(f), NEW g, NEW i, NEW x \in Price, Extends(g, f, i, x),
         NEW stat, AverageFits(stat.average, f),
         stat.count = Cardinality(DOMAIN g), stat.count <= MaxOrders
  PROVE  AverageFits(AverageAfter(stat, x), g)
<1>. DEFINE n == Cardinality(DOMAIN f)
<1>1. /\ Range(g) = Range(f) \cup {x}
      /\ n \in Nat /\ Cardinality(DOMAIN g) = n + 1 /\ n + 1 <= MaxOrders /\ DOMAIN g # {}
  BY RangeExtends, CountExtends
<1>2. CASE NaN \in Range(f) \cup {x}
  <2>1. AverageAfter(stat, x) = NaN
    BY <1>2 DEF AverageAfter, AverageFits
  <2>. QED  BY <1>1, <1>2, <2>1 DEF AverageFits
<1>3. CASE NaN \notin Range(f) \cup {x}
  <2>1. /\ stat.average \in Int /\ stat.average * n = Scale * SumFunction(f)
        /\ DOMAIN f = {} => stat.average = 0
    BY <1>3 DEF AverageFits
  <2>2. n = 0 => DOMAIN f = {}
    BY FS_EmptySet DEF PriceStream
  <2>3. x \in Int /\ SumFunction(f) \in Int /\ stat.average # NaN /\ x # NaN
    BY <1>3, <2>1, PriceFacts, SumIsInt
  <2>4. SumFunction(g) = SumFunction(f) + x
    BY <1>3, <2>3, SumExtends
  <2>5. AverageAfter(stat, x) = stat.average + (Scale * x - stat.average) \div (n + 1)
    BY <1>1, <2>3 DEF AverageAfter
  <2>6. /\ AverageAfter(stat, x) \in Int
        /\ AverageAfter(stat, x) * (n + 1) = Scale * (SumFunction(f) + x)
    <3>. HIDE DEF n
    <3>. QED  BY <1>1, <2>1, <2>2, <2>3, <2>5, ExactMean
  <2>. HIDE DEF n
  <2>. QED  BY <1>1, <1>3, <2>4, <2>6 DEF AverageFits
<1>. QED  BY <1>2, <1>3

\* Only the first price decides whether a stream starts with NaN.
LEMMA StartExtends ==
  ASSUME NEW f, PriceStream(f), NEW g, NEW i \in Nat, NEW x, Extends(g, f, i, x),
         \A j \in DOMAIN f : j < i
  PROVE  /\ DOMAIN f = {} => (StartsWithNaN(g) <=> x = NaN)
         /\ DOMAIN f # {} => (StartsWithNaN(g) <=> StartsWithNaN(f))
<1>1. /\ DOMAIN g = DOMAIN f \cup {i} /\ g[i] = x /\ i \notin DOMAIN f
      /\ \A j \in DOMAIN f : g[j] = f[j]
  BY DEF Extends
<1>2. DOMAIN f \subseteq Nat
  BY DEF PriceStream
<1>3. CASE DOMAIN f = {}
  BY <1>1, <1>3 DEF StartsWithNaN
<1>4. CASE DOMAIN f # {}
  <2>1. StartsWithNaN(g) => StartsWithNaN(f)
    BY <1>1, <1>2, <1>4 DEF StartsWithNaN
  <2>2. StartsWithNaN(f) => StartsWithNaN(g)
    BY <1>1, <1>2, <1>4 DEF StartsWithNaN
  <2>. QED  BY <1>4, <2>1, <2>2
<1>. QED  BY <1>3, <1>4

\* The values of a stream that are not NaN.
LEMMA RealPrices ==
  ASSUME NEW f, PriceStream(f)
  PROVE  /\ Range(f) \ {NaN} \subseteq Int
         /\ DOMAIN f = {} => Range(f) = {}
BY PriceFacts DEF PriceStream, Range

\* The assignments of `minimum` and `maximum`.
LEMMA MinimumExtends ==
  ASSUME NEW f, PriceStream(f), NEW g, NEW i \in Nat, NEW x \in Price, Extends(g, f, i, x),
         \A j \in DOMAIN f : j < i, NEW v, MinimumFits(v, f)
  PROVE  MinimumFits(Extreme(v, x, IsLess(x, v)), g)
<1>1. DOMAIN g # {} /\ Range(g) = Range(f) \cup {x}
  BY RangeExtends, CountExtends
<1>2. /\ DOMAIN f = {} => (StartsWithNaN(g) <=> x = NaN)
      /\ DOMAIN f # {} => (StartsWithNaN(g) <=> StartsWithNaN(f))
  BY StartExtends
<1>3. CASE DOMAIN f = {}
  <2>1. Extreme(v, x, IsLess(x, v)) = x
    BY <1>3 DEF MinimumFits, Extreme
  <2>2. Range(g) = {x}
    BY <1>1, <1>3, RealPrices
  <2>3. x # NaN => x <= x
    BY PriceFacts
  <2>. QED  BY <1>1, <1>2, <1>3, <2>1, <2>2, <2>3 DEF MinimumFits
<1>4. CASE DOMAIN f # {} /\ StartsWithNaN(f)
  <2>1. v = NaN
    BY <1>4 DEF MinimumFits
  <2>2. Extreme(v, x, IsLess(x, v)) = v
    BY <2>1, PriceFacts DEF Extreme, IsLess
  <2>. QED  BY <1>1, <1>2, <1>4, <2>1, <2>2 DEF MinimumFits
<1>5. CASE DOMAIN f # {} /\ ~StartsWithNaN(f)
  <2>1. v \in Range(f) \ {NaN} /\ \A y \in Range(f) \ {NaN} : v <= y
    BY <1>5 DEF MinimumFits
  <2>2. v \in Int /\ v # NaN /\ v # None /\ Range(f) \ {NaN} \subseteq Int
    BY <2>1, RealPrices, PriceFacts
  <2>. DEFINE new == Extreme(v, x, IsLess(x, v))
  <2>3. CASE x = NaN
    <3>1. new = v
      BY <2>2, <2>3 DEF Extreme, IsLess
    <3>2. Range(g) \ {NaN} = Range(f) \ {NaN}
      BY <1>1, <2>3
    <3>. QED  BY <1>1, <1>2, <1>5, <2>1, <3>1, <3>2 DEF MinimumFits
  <2>4. CASE x # NaN
    <3>1. x \in Int
      BY <2>4, PriceFacts
    <3>2. new = IF x < v THEN x ELSE v
      BY <2>2, <2>4 DEF Extreme, IsLess
    <3>3. Range(g) \ {NaN} = (Range(f) \ {NaN}) \cup {x}
      BY <1>1, <2>4
    <3>4. new \in Range(g) \ {NaN} /\ \A y \in Range(g) \ {NaN} : new <= y
      <4>. HIDE DEF new
      <4>. QED  BY <2>1, <2>2, <3>1, <3>2, <3>3
    <3>. QED  BY <1>1, <1>2, <1>5, <3>4 DEF MinimumFits
  <2>. QED  BY <2>3, <2>4
<1>. QED  BY <1>3, <1>4, <1>5

LEMMA MaximumExtends ==
  ASSUME NEW f, PriceStream(f), NEW g, NEW i \in Nat, NEW x \in Price, Extends(g, f, i, x),
         \A j \in DOMAIN f : j < i, NEW v, MaximumFits(v, f)
  PROVE  MaximumFits(Extreme(v, x, IsLess(v, x)), g)
<1>1. DOMAIN g # {} /\ Range(g) = Range(f) \cup {x}
  BY RangeExtends, CountExtends
<1>2. /\ DOMAIN f = {} => (StartsWithNaN(g) <=> x = NaN)
      /\ DOMAIN f # {} => (StartsWithNaN(g) <=> StartsWithNaN(f))
  BY StartExtends
<1>3. CASE DOMAIN f = {}
  <2>1. Extreme(v, x, IsLess(v, x)) = x
    BY <1>3 DEF MaximumFits, Extreme
  <2>2. Range(g) = {x}
    BY <1>1, <1>3, RealPrices
  <2>3. x # NaN => x <= x
    BY PriceFacts
  <2>. QED  BY <1>1, <1>2, <1>3, <2>1, <2>2, <2>3 DEF MaximumFits
<1>4. CASE DOMAIN f # {} /\ StartsWithNaN(f)
  <2>1. v = NaN
    BY <1>4 DEF MaximumFits
  <2>2. Extreme(v, x, IsLess(v, x)) = v
    BY <2>1, PriceFacts DEF Extreme, IsLess
  <2>. QED  BY <1>1, <1>2, <1>4, <2>1, <2>2 DEF MaximumFits
<1>5. CASE DOMAIN f # {} /\ ~StartsWithNaN(f)
  <2>1. v \in Range(f) \ {NaN} /\ \A y \in Range(f) \ {NaN} : y <= v
    BY <1>5 DEF MaximumFits
  <2>2. v \in Int /\ v # NaN /\ v # None /\ Range(f) \ {NaN} \subseteq Int
    BY <2>1, RealPrices, PriceFacts
  <2>. DEFINE new == Extreme(v, x, IsLess(v, x))
  <2>3. CASE x = NaN
    <3>1. new = v
      BY <2>2, <2>3 DEF Extreme, IsLess
    <3>2. Range(g) \ {NaN} = Range(f) \ {NaN}
      BY <1>1, <2>3
    <3>. QED  BY <1>1, <1>2, <1>5, <2>1, <3>1, <3>2 DEF MaximumFits
  <2>4. CASE x # NaN
    <3>1. x \in Int
      BY <2>4, PriceFacts
    <3>2. new = IF v < x THEN x ELSE v
      BY <2>2, <2>4 DEF Extreme, IsLess
    <3>3. Range(g) \ {NaN} = (Range(f) \ {NaN}) \cup {x}
      BY <1>1, <2>4
    <3>4. new \in Range(g) \ {NaN} /\ \A y \in Range(g) \ {NaN} : y <= new
      <4>. HIDE DEF new
      <4>. QED  BY <2>1, <2>2, <3>1, <3>2, <3>3
    <3>. QED  BY <1>1, <1>2, <1>5, <3>4 DEF MaximumFits
  <2>. QED  BY <2>3, <2>4
<1>. QED  BY <1>3, <1>4, <1>5

-----------------------------------------------------------------------------
Keys == Products \cup {All}

\* The assignment of add() that is number k of a key.
Place(key, k) == IF key = All THEN k ELSE 6 + k

\* Seen, by its places and values.
Mine(key, k) ==
  {i \in DOMAIN orders : key \in {All, orders[i].product} /\ ~(Behind(key, k) /\ i = Len(orders))}

SeenMine == \A key, k : Seen(key, k) = [i \in Mine(key, k) |-> orders[i].price]

\* Seen is what Mine says, in a state and in its successor.
LEMMA SeenIs == SeenMine
<1>. SUFFICES ASSUME NEW key, NEW k
              PROVE  Seen(key, k) = [i \in Mine(key, k) |-> orders[i].price]
  BY DEF SeenMine
<1>1. CASE Behind(key, k)
  <2>1. DOMAIN PricesOf(key) \ {Len(orders)} = Mine(key, k)
    BY <1>1 DEF PricesOf, Mine
  <2>2. \A i \in Mine(key, k) : PricesOf(key)[i] = orders[i].price
    BY DEF PricesOf, Mine
  <2>3. Seen(key, k) = [i \in Mine(key, k) |-> PricesOf(key)[i]]
    BY <1>1, <2>1 DEF Seen, Restrict
  <2>. QED  BY <2>2, <2>3
<1>2. CASE ~Behind(key, k)
  <2>1. Mine(key, k) = {i \in DOMAIN orders : key \in {All, orders[i].product}}
    BY <1>2 DEF Mine
  <2>. QED  BY <1>2, <2>1 DEF Seen, PricesOf
<1>. QED  BY <1>1, <1>2

LEMMA SeenIsNext == SeenMine'
BY SeenIs, PTL

\* The order in hand is the last of a sequence of orders.
LEMMA OrderFacts ==
  AggregatorTypeOK =>
    /\ DOMAIN orders = 1 .. Len(orders) /\ Len(orders) \in Nat
    /\ \A i \in DOMAIN orders : orders[i].price \in Price /\ orders[i].product \in Products
    /\ orders # <<>> => Len(orders) \in DOMAIN orders
<1>. HAVE AggregatorTypeOK
<1>. DEFINE Order == [product : Products, price : Price]
<1>1. orders \in Seq(Order)
  BY DEF AggregatorTypeOK, Price
<1>2. \A o \in Order : o.price \in Price /\ o.product \in Products
  OBVIOUS
<1>. HIDE DEF Order
<1>3. DOMAIN orders = 1 .. Len(orders) /\ Len(orders) \in Nat
  BY <1>1
<1>4. \A i \in DOMAIN orders : orders[i] \in Order
  BY <1>1
<1>5. orders # <<>> => Len(orders) \in DOMAIN orders
  BY <1>1
<1>. QED  BY <1>2, <1>3, <1>4, <1>5

SeenOK ==
  \A key, k :
    /\ DOMAIN Seen(key, k) = Mine(key, k)
    /\ \A i \in Mine(key, k) : Seen(key, k)[i] = orders[i].price
    /\ PriceStream(Seen(key, k))
    /\ Cardinality(DOMAIN Seen(key, k)) <= Len(orders)

\* What a key has seen is a stream of prices, one per place at most.
LEMMA SeenFacts == AggregatorTypeOK => SeenOK
<1>. SUFFICES ASSUME AggregatorTypeOK, NEW key, NEW k
              PROVE  /\ DOMAIN Seen(key, k) = Mine(key, k)
                     /\ \A i \in Mine(key, k) : Seen(key, k)[i] = orders[i].price
                     /\ PriceStream(Seen(key, k))
                     /\ Cardinality(DOMAIN Seen(key, k)) <= Len(orders)
  BY DEF SeenOK
<1>1. /\ DOMAIN Seen(key, k) = Mine(key, k)
      /\ \A i \in Mine(key, k) : Seen(key, k)[i] = orders[i].price
  BY SeenIs DEF SeenMine
<1>. DEFINE n == Len(orders)
<1>2. Mine(key, k) \subseteq 1 .. n /\ n \in Nat
  BY OrderFacts DEF Mine
<1>3. /\ IsFiniteSet(1 .. n) /\ Cardinality(1 .. n) = n
  <2>. HIDE DEF n
  <2>. QED  BY <1>2, FS_Interval
<1>4. IsFiniteSet(Mine(key, k)) /\ Cardinality(Mine(key, k)) <= n
  <2>. HIDE DEF n
  <2>. QED  BY <1>2, <1>3, FS_Subset
<1>5. \A i \in Mine(key, k) : orders[i].price \in Price
  BY OrderFacts DEF Mine
<1>6. PriceStream(Seen(key, k))
  BY <1>1, <1>2, <1>4, <1>5 DEF PriceStream
<1>. QED  BY <1>1, <1>4, <1>6

LEMMA SeenFactsNext == AggregatorTypeOK' => SeenOK'
BY SeenFacts, PTL

\* An assignment of another place leaves what a key has seen alone.
LEMMA SeenSame ==
  ASSUME AggregatorTypeOK, orders # <<>>, orders' = orders, at \in 1 .. 11, at' = (at + 1) % 12,
         NEW key, NEW k \in 0 .. 5,
         ~(at = Place(key, k) /\ key \in {All, InHand.product})
  PROVE  Seen(key, k)' = Seen(key, k)
<1>1. at = Place(key, k) \/ (Behind(key, k)' <=> Behind(key, k))
  <2>1. at' = IF at = 11 THEN 0 ELSE at + 1
    OBVIOUS
  <2>. QED  BY <2>1 DEF Place, Behind
<1>2. Mine(key, k)' = Mine(key, k)
  <2>1. CASE Behind(key, k)' <=> Behind(key, k)
    BY <2>1 DEF Mine
  <2>2. CASE key \notin {All, InHand.product}
    BY <2>2 DEF Mine, InHand
  <2>. QED  BY <1>1, <2>1, <2>2
<1>3. Seen(key, k)' = [i \in Mine(key, k)' |-> orders'[i].price]
  BY SeenIsNext DEF SeenMine
<1>. QED  BY <1>2, <1>3, SeenIs DEF SeenMine

\* The assignment of a key's place sees the price of the order in hand.
LEMMA SeenExtends ==
  ASSUME AggregatorTypeOK, AggregatorTypeOK',
         orders # <<>>, orders' = orders, at \in 1 .. 11, at' = (at + 1) % 12,
         NEW key, NEW k \in 0 .. 5, at = Place(key, k), key \in {All, InHand.product}
  PROVE  /\ Extends(Seen(key, k)', Seen(key, k), Len(orders), InHand.price)
         /\ \A j \in DOMAIN Seen(key, k) : j < Len(orders)
         /\ PriceStream(Seen(key, k)')
<1>. DEFINE n == Len(orders)
<1>1. /\ DOMAIN orders = 1 .. n /\ n \in Nat /\ n \in DOMAIN orders
  BY OrderFacts
<1>2. Behind(key, k) /\ ~ Behind(key, k)'
  <2>1. at' = IF at = 11 THEN 0 ELSE at + 1
    OBVIOUS
  <2>. QED  BY <2>1 DEF Place, Behind
<1>3. Mine(key, k)' = Mine(key, k) \cup {n} /\ n \notin Mine(key, k)
  BY <1>1, <1>2 DEF Mine, InHand
<1>4. /\ DOMAIN Seen(key, k)' = Mine(key, k)'
      /\ \A i \in Mine(key, k)' : Seen(key, k)'[i] = orders[i].price
      /\ PriceStream(Seen(key, k)')
  BY SeenFactsNext DEF SeenOK
<1>5. /\ DOMAIN Seen(key, k) = Mine(key, k)
      /\ \A i \in Mine(key, k) : Seen(key, k)[i] = orders[i].price
  BY SeenFacts DEF SeenOK
<1>6. \A j \in Mine(key, k) : j < n
  BY <1>1, <1>3 DEF Mine
<1>. QED  BY <1>3, <1>4, <1>5, <1>6 DEF Extends, InHand

\* A call of add() moves every assignment behind it.
LEMMA SeenAdd ==
  ASSUME AggregatorTypeOK, AggregatorTypeOK', at = 0, at' = 1,
         NEW o, orders' = Append(orders, o),
         NEW key, NEW k \in 0 .. 5, Place(key, k) # 0
  PROVE  Seen(key, k)' = Seen(key, k)
<1>. DEFINE n == Len(orders)
<1>1. /\ n \in Nat /\ Len(orders') = n + 1 /\ DOMAIN orders = 1 .. n /\ DOMAIN orders' = 1 .. n + 1
      /\ \A i \in 1 .. n : orders'[i] = orders[i]
  BY DEF AggregatorTypeOK
<1>2. ~Behind(key, k) /\ Behind(key, k)'
  BY DEF Behind, Place
<1>3. Mine(key, k)' = Mine(key, k)
  BY <1>1, <1>2 DEF Mine
<1>4. \A i \in Mine(key, k) : orders'[i] = orders[i]
  BY <1>1 DEF Mine
<1>5. Seen(key, k)' = [i \in Mine(key, k)' |-> orders'[i].price]
  BY SeenIsNext DEF SeenMine
<1>. QED  BY <1>3, <1>4, <1>5, SeenIs DEF SeenMine

-----------------------------------------------------------------------------
SumOrNaN(a, b) == IF NaN \in {a, b} THEN NaN ELSE a + b

\* Assignment n of update(), field by field.
Updated(u, stat, n, price) ==
  /\ u \in Stat
  /\ u.count = IF n = 1 THEN stat.count + 1 ELSE stat.count
  /\ u.total = IF n = 2 THEN SumOrNaN(stat.total, price) ELSE stat.total
  /\ u.average = IF n = 3 THEN AverageAfter(stat, price) ELSE stat.average
  /\ u.minimum = IF n = 4 THEN Extreme(stat.minimum, price, IsLess(price, stat.minimum))
                 ELSE stat.minimum
  /\ u.maximum = IF n = 5 THEN Extreme(stat.maximum, price, IsLess(stat.maximum, price))
                 ELSE stat.maximum

\* update() assigns one field and leaves the others.
LEMMA UpdateField ==
  ASSUME NEW stat \in Stat, NEW n \in 1 .. 5, NEW price \in Price, n = 3 => stat.count > 0
  PROVE  Updated(update(stat, Fields[n], price), stat, n, price)
<1>. DEFINE u == update(stat, Fields[n], price)
<1>. SUFFICES Updated(u, stat, n, price)
  OBVIOUS
<1>0. /\ Fields[1] = "count" /\ Fields[2] = "total" /\ Fields[3] = "average"
      /\ Fields[4] = "minimum" /\ Fields[5] = "maximum"
  BY DEF Fields
<1>1. /\ stat.count \in Nat /\ stat.total \in Int \cup {NaN} /\ stat.average \in Int \cup {NaN}
      /\ stat.minimum \in Number \cup {None} /\ stat.maximum \in Number \cup {None}
      /\ price \in Number
  BY AggregatorAssumption DEF Stat, Number, Price
<1>2. CASE n = 1
  <2>1. u = [stat EXCEPT !.count = stat.count + 1]
    BY <1>0, <1>2 DEF update
  <2>. HIDE DEF u
  <2>. QED  BY <1>1, <1>2, <2>1 DEF Stat, Updated
<1>3. CASE n = 2
  <2>1. u = [stat EXCEPT !.total = SumOrNaN(stat.total, price)]
    BY <1>0, <1>3 DEF update, SumOrNaN
  <2>2. SumOrNaN(stat.total, price) \in Number
    BY <1>1 DEF SumOrNaN, Number
  <2>. HIDE DEF u
  <2>. QED  BY <1>1, <1>3, <2>1, <2>2 DEF Stat, Updated
<1>4. CASE n = 3
  <2>1. u = [stat EXCEPT !.average = AverageAfter(stat, price)]
    BY <1>0, <1>4 DEF update
  <2>2. AverageAfter(stat, price) \in Number
    <3>1. CASE NaN \in {stat.average, price}
      BY <3>1 DEF AverageAfter, Number
    <3>2. CASE NaN \notin {stat.average, price}
      <4>1. stat.average \in Int /\ price \in Int /\ stat.count \in Nat \ {0} /\ Scale \in Nat
        BY <1>1, <1>4, <3>2, AggregatorAssumption DEF Number
      <4>2. (Scale * price - stat.average) \div stat.count \in Int
        BY <4>1
      <4>. QED  BY <3>2, <4>1, <4>2 DEF AverageAfter, Number
    <3>. QED  BY <3>1, <3>2
  <2>. HIDE DEF u
  <2>. QED  BY <1>1, <1>4, <2>1, <2>2 DEF Stat, Updated
<1>5. CASE n = 4
  <2>. DEFINE w == Extreme(stat.minimum, price, IsLess(price, stat.minimum))
  <2>1. u = [stat EXCEPT !.minimum = w]
    BY <1>0, <1>5 DEF update
  <2>2. w \in Number \cup {None}
    BY <1>1 DEF Extreme
  <2>. HIDE DEF u
  <2>. QED  BY <1>1, <1>5, <2>1, <2>2 DEF Stat, Updated
<1>6. CASE n = 5
  <2>. DEFINE w == Extreme(stat.maximum, price, IsLess(stat.maximum, price))
  <2>1. u = [stat EXCEPT !.maximum = w]
    BY <1>0, <1>6 DEF update
  <2>2. w \in Number \cup {None}
    BY <1>1 DEF Extreme
  <2>. HIDE DEF u
  <2>. QED  BY <1>1, <1>6, <2>1, <2>2 DEF Stat, Updated
<1>. HIDE DEF u
<1>. QED  BY <1>2, <1>3, <1>4, <1>5, <1>6

\* The key and the place of the assignment that is next.
Advance(key, n) ==
  /\ at \in 1 .. 11 /\ at' = (at + 1) % 12
  /\ orders # <<>> /\ orders' = orders
  /\ n \in 1 .. 5 /\ at = Place(key, n) /\ key \in {All, InHand.product}
  /\ stats' = [stats EXCEPT ![key] = update(stats[key], Fields[n], InHand.price)]

\* The key that is advanced; past its first field it has counted the order.
LEMMA AdvanceFacts ==
  ASSUME AggregatorInv, NEW key, NEW n, Advance(key, n)
  PROVE  /\ key \in Keys /\ stats \in [Keys -> Stat] /\ InHand.price \in Price
         /\ InHand.product \in Products
         /\ n # 1 => /\ Seen(key, 1) = PricesOf(key)
                     /\ Len(orders) \in DOMAIN Seen(key, 1) /\ stats[key].count > 0
<1>1. /\ Len(orders) \in DOMAIN orders /\ InHand.price \in Price /\ InHand.product \in Products
      /\ AggregatorTypeOK
  BY OrderFacts DEF AggregatorInv, Advance, InHand
<1>2. key \in Keys /\ stats \in [Keys -> Stat]
  BY <1>1 DEF Advance, Keys, AggregatorTypeOK
<1>3. ASSUME n # 1
      PROVE  /\ Seen(key, 1) = PricesOf(key)
             /\ Len(orders) \in DOMAIN Seen(key, 1) /\ stats[key].count > 0
  <2>1. ~Behind(key, 1)
    BY <1>3 DEF Behind, Advance, Place
  <2>2. Seen(key, 1) = PricesOf(key)
    BY <2>1 DEF Seen
  <2>3. Len(orders) \in DOMAIN PricesOf(key)
    BY <1>1 DEF PricesOf, Advance, InHand
  <2>4. stats[key].count = Cardinality(DOMAIN Seen(key, 1)) /\ PriceStream(Seen(key, 1))
    BY <1>1, <1>2, SeenFacts DEF AggregatorInv, StatFits, Keys, SeenOK
  <2>5. stats[key].count \in Nat /\ stats[key].count # 0
    BY <2>2, <2>3, <2>4, FS_EmptySet, FS_CardinalityType DEF PriceStream
  <2>. QED  BY <2>2, <2>3, <2>5
<1>. QED  BY <1>1, <1>2, <1>3

\* No assignment leaves the types, and the divisor of the mean is not 0.
LEMMA AdvanceType ==
  ASSUME AggregatorInv, NEW key, NEW n, Advance(key, n), UNCHANGED <<registered, interrupted>>
  PROVE  AggregatorTypeOK'
<1>1. /\ key \in Keys /\ stats \in [Keys -> Stat] /\ InHand.price \in Price
      /\ n = 3 => stats[key].count > 0
  BY AdvanceFacts
<1>. DEFINE u == update(stats[key], Fields[n], InHand.price)
<1>2. u \in Stat
  <2>1. stats[key] \in Stat /\ n \in 1 .. 5
    BY <1>1 DEF Advance
  <2>. QED  BY <1>1, <2>1, UpdateField DEF Updated
<1>3. stats' = [stats EXCEPT ![key] = u]
  BY DEF Advance
<1>4. stats' \in [Keys -> Stat]
  <2>. HIDE DEF u
  <2>. QED  BY <1>1, <1>2, <1>3
<1>5. at' \in 0 .. 11
  BY DEF Advance
<1>. QED  BY <1>4, <1>5 DEF AggregatorInv, AggregatorTypeOK, Advance, Keys

\* The key that is advanced sees one more price in field n.
LEMMA AdvanceFits ==
  ASSUME AggregatorInv, NEW key, NEW n, Advance(key, n), UNCHANGED <<registered, interrupted>>
  PROVE  StatFits(key)'
<1>. DEFINE price == InHand.price  i == Len(orders)  stat == stats[key]
            f == Seen(key, n)  g == Seen(key, n)'
<1>1. /\ key \in Keys /\ stats \in [Keys -> Stat] /\ price \in Price /\ n \in 1 .. 5
      /\ n = 3 => stat.count > 0
      /\ AggregatorTypeOK /\ AggregatorTypeOK' /\ i \in Nat
  <2>1. AggregatorTypeOK /\ AggregatorTypeOK' /\ n \in 1 .. 5
    BY AdvanceType DEF Advance, AggregatorInv
  <2>2. key \in Keys /\ stats \in [Keys -> Stat] /\ price \in Price /\ (n # 1 => stat.count > 0)
    BY AdvanceFacts
  <2>. QED  BY <2>1, <2>2, OrderFacts
<1>2. /\ stat.count = Cardinality(DOMAIN Seen(key, 1))
      /\ TotalFits(stat.total, Seen(key, 2))
      /\ AverageFits(stat.average, Seen(key, 3))
      /\ MinimumFits(stat.minimum, Seen(key, 4))
      /\ MaximumFits(stat.maximum, Seen(key, 5))
  BY <1>1 DEF AggregatorInv, StatFits, Keys
<1>3. /\ Extends(g, f, i, price) /\ PriceStream(f) /\ PriceStream(g)
      /\ \A j \in DOMAIN f : j < i
  BY <1>1, SeenExtends, SeenFacts DEF Advance, SeenOK
<1>4. \A k \in 1 .. 5 : k # n => Seen(key, k)' = Seen(key, k)
  <2>. SUFFICES ASSUME NEW k \in 1 .. 5, k # n PROVE Seen(key, k)' = Seen(key, k)
    OBVIOUS
  <2>1. at # Place(key, k)
    BY DEF Advance, Place
  <2>. QED  BY <1>1, <2>1, SeenSame DEF Advance
<1>5. /\ stats'[key].count = IF n = 1 THEN stat.count + 1 ELSE stat.count
      /\ stats'[key].total = IF n = 2 THEN SumOrNaN(stat.total, price) ELSE stat.total
      /\ stats'[key].average = IF n = 3 THEN AverageAfter(stat, price) ELSE stat.average
      /\ stats'[key].minimum = IF n = 4 THEN Extreme(stat.minimum, price, IsLess(price, stat.minimum))
                               ELSE stat.minimum
      /\ stats'[key].maximum = IF n = 5 THEN Extreme(stat.maximum, price, IsLess(stat.maximum, price))
                               ELSE stat.maximum
  <2>1. stats'[key] = update(stat, Fields[n], price) /\ stat \in Stat
    BY <1>1 DEF Advance
  <2>2. Updated(stats'[key], stat, n, price)
    BY <1>1, <2>1, UpdateField
  <2>. HIDE DEF stat, price
  <2>. QED  BY <2>2 DEF Updated
<1>. HIDE DEF price, i, stat, f, g
<1>6. stats'[key].count = Cardinality(DOMAIN Seen(key, 1)')
  <2>1. CASE n = 1
    BY <1>2, <1>3, <1>5, <2>1, CountExtends DEF f, g
  <2>2. CASE n # 1
    BY <1>2, <1>4, <1>5, <2>2
  <2>. QED  BY <2>1, <2>2
<1>7. TotalFits(stats'[key].total, Seen(key, 2)')
  <2>1. CASE n = 2
    <3>1. TotalFits(stat.total, f)
      BY <1>2, <2>1 DEF f
    <3>2. TotalFits(SumOrNaN(stat.total, price), g)
      BY <1>1, <1>3, <3>1, TotalExtends DEF SumOrNaN
    <3>. QED  BY <1>5, <2>1, <3>2 DEF g
  <2>2. CASE n # 2
    BY <1>2, <1>4, <1>5, <2>2
  <2>. QED  BY <2>1, <2>2
<1>8. AverageFits(stats'[key].average, Seen(key, 3)')
  <2>1. CASE n = 3
    <3>1. AverageFits(stat.average, f)
      BY <1>2, <2>1 DEF f
    <3>2. Seen(key, 1) = PricesOf(key)
      BY <2>1, AdvanceFacts
    <3>3. g = PricesOf(key)
      <4>1. ~Behind(key, 3)'
        <5>1. at' = IF at = 11 THEN 0 ELSE at + 1
          BY DEF Advance
        <5>. QED  BY <2>1, <5>1 DEF Behind, Advance, Place
      <4>2. PricesOf(key)' = PricesOf(key)
        BY DEF PricesOf, Advance
      <4>. QED  BY <2>1, <4>1, <4>2 DEF g, Seen
    <3>4. stat.count = Cardinality(DOMAIN g) /\ stat.count <= MaxOrders
      <4>1. Cardinality(DOMAIN Seen(key, 1)) <= Len(orders) /\ Len(orders) <= MaxOrders
        BY <1>1, SeenFacts DEF SeenOK, AggregatorInv
      <4>2. stat.count \in Nat /\ Len(orders) \in Nat /\ MaxOrders \in Nat
        BY <1>1, AggregatorAssumption DEF stat, Stat, i
      <4>. QED  BY <1>2, <3>2, <3>3, <4>1, <4>2
    <3>5. AverageFits(AverageAfter(stat, price), g)
      BY <1>1, <1>3, <3>1, <3>4, AverageExtends
    <3>. QED  BY <1>5, <2>1, <3>5 DEF g
  <2>2. CASE n # 3
    BY <1>2, <1>4, <1>5, <2>2
  <2>. QED  BY <2>1, <2>2
<1>9. MinimumFits(stats'[key].minimum, Seen(key, 4)')
  <2>1. CASE n = 4
    <3>1. MinimumFits(stat.minimum, f)
      BY <1>2, <2>1 DEF f
    <3>2. MinimumFits(Extreme(stat.minimum, price, IsLess(price, stat.minimum)), g)
      BY <1>1, <1>3, <3>1, MinimumExtends
    <3>. QED  BY <1>5, <2>1, <3>2 DEF g
  <2>2. CASE n # 4
    BY <1>2, <1>4, <1>5, <2>2
  <2>. QED  BY <2>1, <2>2
<1>10. MaximumFits(stats'[key].maximum, Seen(key, 5)')
  <2>1. CASE n = 5
    <3>1. MaximumFits(stat.maximum, f)
      BY <1>2, <2>1 DEF f
    <3>2. MaximumFits(Extreme(stat.maximum, price, IsLess(stat.maximum, price)), g)
      BY <1>1, <1>3, <3>1, MaximumExtends
    <3>. QED  BY <1>5, <2>1, <3>2 DEF g
  <2>2. CASE n # 5
    BY <1>2, <1>4, <1>5, <2>2
  <2>. QED  BY <2>1, <2>2
<1>. QED  BY <1>6, <1>7, <1>8, <1>9, <1>10 DEF StatFits

-----------------------------------------------------------------------------
\* The statistics of every other key stay as they are and still fit.
LEMMA OthersFit ==
  ASSUME AggregatorInv, NEW key, NEW n, Advance(key, n), UNCHANGED <<registered, interrupted>>,
         NEW c \in Keys, c # key
  PROVE  StatFits(c)'
<1>1. stats'[c] = stats[c]
  BY AdvanceFacts DEF Advance
<1>2. \A k \in 1 .. 5 : Seen(c, k)' = Seen(c, k)
  <2>. SUFFICES ASSUME NEW k \in 1 .. 5 PROVE Seen(c, k)' = Seen(c, k)
    OBVIOUS
  <2>1. ~(at = Place(c, k) /\ c \in {All, InHand.product})
    BY DEF Advance, Place
  <2>. QED  BY <2>1, SeenSame DEF Advance, AggregatorInv
<1>3. StatFits(c)
  BY DEF AggregatorInv, Keys
<1>. QED  BY <1>1, <1>2, <1>3 DEF StatFits

\* An update registers nothing.
LEMMA RegisteredStays ==
  ASSUME AggregatorInv, NEW key, NEW n, Advance(key, n), UNCHANGED <<registered, interrupted>>
  PROVE  Registered'
<1>1. \A p \in Products : Seen(p, 0)' = Seen(p, 0)
  <2>. SUFFICES ASSUME NEW p \in Products PROVE Seen(p, 0)' = Seen(p, 0)
    OBVIOUS
  <2>1. at # Place(p, 0)
    BY AggregatorAssumption DEF Advance, Place
  <2>. QED  BY <2>1, SeenSame DEF Advance, AggregatorInv
<1>. QED  BY <1>1 DEF AggregatorInv, Registered

\* The order in hand has a row once it is registered.
LEMMA InHandRegistered ==
  ASSUME AggregatorInv, at \in 7 .. 11
  PROVE  InHand.product \in registered
<1>1. /\ Len(orders) \in DOMAIN orders /\ InHand.product \in Products /\ AggregatorTypeOK
  BY OrderFacts DEF AggregatorInv, InHand
<1>2. ~Behind(InHand.product, 0)
  BY <1>1, AggregatorAssumption DEF Behind
<1>3. Len(orders) \in Mine(InHand.product, 0)
  BY <1>1, <1>2 DEF Mine, InHand
<1>4. DOMAIN Seen(InHand.product, 0) = Mine(InHand.product, 0)
  BY <1>1, SeenFacts DEF SeenOK
<1>. QED  BY <1>1, <1>3, <1>4 DEF AggregatorInv, Registered

\* As long as the total of all orders is a number, so is every other.
LEMMA TotalsReal ==
  ASSUME AggregatorInv, stats[All].total # NaN
  PROVE  /\ stats[All].total \in Int
         /\ \A p \in Products : stats[p].total \in Int
         /\ at \in 3 .. 11 => InHand.price \in Int
<1>1. AggregatorTypeOK /\ SeenOK
  BY SeenFacts DEF AggregatorInv
<1>2. \A key \in Keys : TotalFits(stats[key].total, Seen(key, 2))
  BY DEF AggregatorInv, StatFits, Keys
<1>3. NaN \notin Range(Seen(All, 2))
  BY <1>2 DEF TotalFits, Keys
<1>4. \A i \in Mine(All, 2) : orders[i].price # NaN
  BY <1>1, <1>3 DEF SeenOK, Range
<1>5. \A key \in Keys : Mine(key, 2) \subseteq Mine(All, 2)
  BY DEF Mine, Behind
<1>6. \A key \in Keys : stats[key].total \in Int
  <2>. SUFFICES ASSUME NEW key \in Keys PROVE stats[key].total \in Int
    OBVIOUS
  <2>1. NaN \notin Range(Seen(key, 2))
    BY <1>1, <1>4, <1>5 DEF SeenOK, Range
  <2>2. PriceStream(Seen(key, 2))
    BY <1>1 DEF SeenOK
  <2>3. SumFunction(Seen(key, 2)) \in Int
    BY <2>1, <2>2, SumIsInt
  <2>. QED  BY <1>2, <2>1, <2>3 DEF TotalFits
<1>7. ASSUME at \in 3 .. 11 PROVE InHand.price \in Int
  <2>1. Len(orders) \in DOMAIN orders /\ orders[Len(orders)].price \in Price
    BY <1>1, <1>7, OrderFacts DEF AggregatorInv
  <2>2. Len(orders) \in Mine(All, 2)
    BY <1>7, <2>1 DEF Mine, Behind
  <2>. QED  BY <1>4, <2>1, <2>2, PriceFacts DEF InHand
<1>. QED  BY <1>6, <1>7 DEF Keys

\* The rows keep adding up while the key of all orders is advanced.
LEMMA AdvanceAllRows ==
  ASSUME AggregatorInv, NEW n, Advance(All, n), UNCHANGED <<registered, interrupted>>
  PROVE  RowsFit'
<1>1. /\ at = n /\ at' = n + 1 /\ n \in 1 .. 5 /\ InHand' = InHand
  BY DEF Advance, Place, InHand
<1>2. Counts' = Counts /\ Totals' = Totals
  <2>1. \A p \in Products : stats'[p] = stats[p]
    BY AdvanceFacts, AggregatorAssumption DEF Advance, Keys
  <2>. QED  BY <2>1 DEF Counts, Totals
<1>3. Updated(stats'[All], stats[All], n, InHand.price)
  <2>1. /\ stats \in [Keys -> Stat] /\ All \in Keys /\ InHand.price \in Price
        /\ n # 1 => stats[All].count > 0
    BY AdvanceFacts
  <2>2. stats'[All] = update(stats[All], Fields[n], InHand.price) /\ stats[All] \in Stat
    BY <2>1 DEF Advance
  <2>. QED  BY <1>1, <2>1, <2>2, UpdateField
<1>. DEFINE counted == SumFunctionOnSet(Counts, registered)
            summed  == SumFunctionOnSet(Totals, registered)
<1>4. counted' = counted /\ summed' = summed
  BY <1>2
<1>5. /\ stats[All].count = counted + IF at \in 2 .. 7 THEN 1 ELSE 0
      /\ stats[All].total # NaN
         => stats[All].total = summed + IF at \in 3 .. 8 THEN InHand.price ELSE 0
  BY DEF AggregatorInv, RowsFit
<1>6. counted \in Int
  <2>1. \A p \in registered : Counts[p] \in Int
    BY DEF AggregatorInv, AggregatorTypeOK, Counts, Stat
  <2>. QED  BY <2>1, SumType DEF AggregatorInv, Registered
<1>7. stats[All].total # NaN => summed \in Int
  <2>1. stats[All].total # NaN => \A p \in registered : Totals[p] \in Int
    BY TotalsReal DEF AggregatorInv, AggregatorTypeOK, Totals
  <2>. QED  BY <2>1, SumType DEF AggregatorInv, Registered
<1>. HIDE DEF counted, summed
<1>8. stats'[All].count = counted + IF at' \in 2 .. 7 THEN 1 ELSE 0
  BY <1>1, <1>3, <1>5, <1>6 DEF Updated
<1>9. ASSUME stats'[All].total # NaN
      PROVE  stats'[All].total = summed + IF at' \in 3 .. 8 THEN InHand.price ELSE 0
  <2>1. CASE n = 2
    BY <1>1, <1>3, <1>5, <1>7, <1>9, <2>1 DEF Updated, SumOrNaN
  <2>2. CASE n # 2
    BY <1>1, <1>3, <1>5, <1>7, <1>9, <2>2 DEF Updated
  <2>. QED  BY <2>1, <2>2
<1>. QED  BY <1>1, <1>4, <1>8, <1>9 DEF RowsFit, counted, summed

\* And while the row of the product is advanced, which then catches up.
LEMMA AdvanceProductRows ==
  ASSUME AggregatorInv, NEW p \in Products, NEW n, Advance(p, n),
         UNCHANGED <<registered, interrupted>>
  PROVE  RowsFit'
<1>1. /\ at = 6 + n /\ n \in 1 .. 5 /\ at' = (IF n = 5 THEN 0 ELSE 7 + n)
      /\ InHand' = InHand /\ p = InHand.product /\ at \in 7 .. 11
  BY AggregatorAssumption DEF Advance, Place, InHand
<1>2. /\ p \in registered /\ IsFiniteSet(registered) /\ registered \subseteq Products
  BY <1>1, InHandRegistered DEF AggregatorInv, Registered, AggregatorTypeOK
<1>3. /\ stats'[All] = stats[All] /\ \A q \in Products \ {p} : stats'[q] = stats[q]
  BY AdvanceFacts, AggregatorAssumption DEF Advance, Keys
<1>4. Updated(stats'[p], stats[p], n, InHand.price)
  <2>1. /\ stats \in [Keys -> Stat] /\ p \in Keys /\ InHand.price \in Price
        /\ n # 1 => stats[p].count > 0
    BY AdvanceFacts
  <2>2. stats'[p] = update(stats[p], Fields[n], InHand.price) /\ stats[p] \in Stat
    BY <2>1 DEF Advance
  <2>. QED  BY <1>1, <2>1, <2>2, UpdateField
<1>5. /\ \A q \in registered : Counts[q] \in Int
      /\ Counts'[p] = Counts[p] + (IF n = 1 THEN 1 ELSE 0)
      /\ \A q \in registered \ {p} : Counts'[q] = Counts[q]
  <2>1. \A q \in registered : Counts[q] \in Int
    BY DEF AggregatorInv, AggregatorTypeOK, Counts, Stat
  <2>2. Counts'[p] = stats'[p].count /\ Counts[p] = stats[p].count
    BY DEF Counts
  <2>3. Counts'[p] = Counts[p] + (IF n = 1 THEN 1 ELSE 0)
    BY <1>2, <1>4, <2>1, <2>2 DEF Updated
  <2>4. \A q \in registered \ {p} : Counts'[q] = Counts[q]
    BY <1>2, <1>3 DEF Counts
  <2>. QED  BY <2>1, <2>3, <2>4
<1>. DEFINE counted == SumFunctionOnSet(Counts, registered)
            summed  == SumFunctionOnSet(Totals, registered)
<1>6. counted' = counted + (IF n = 1 THEN 1 ELSE 0) /\ counted \in Int
  <2>. DEFINE F == Counts  G == Counts'
  <2>1. /\ \A q \in registered : F[q] \in Int /\ G[p] \in Int
        /\ \A q \in registered \ {p} : G[q] = F[q]
    BY <1>2, <1>5
  <2>. HIDE DEF F, G
  <2>2. SumFunctionOnSet(G, registered) = SumFunctionOnSet(F, registered) + (G[p] - F[p])
    BY <1>2, <2>1, SumChange
  <2>3. SumFunctionOnSet(F, registered) \in Int
    BY <1>2, <2>1, SumType
  <2>4. G[p] - F[p] = IF n = 1 THEN 1 ELSE 0
    BY <1>2, <1>5 DEF F, G
  <2>5. counted' = SumFunctionOnSet(G, registered) /\ counted = SumFunctionOnSet(F, registered)
    BY DEF F, G
  <2>. QED  BY <2>2, <2>3, <2>4, <2>5
<1>7. ASSUME stats[All].total # NaN
      PROVE  /\ summed' = summed + (IF n = 2 THEN InHand.price ELSE 0) /\ summed \in Int
             /\ InHand.price \in Int
  <2>. DEFINE F == Totals  G == Totals'
  <2>1. /\ \A q \in Products : stats[q].total \in Int
        /\ InHand.price \in Int
    BY <1>1, <1>7, TotalsReal
  <2>2. F[p] = stats[p].total /\ G[p] = stats'[p].total
    BY DEF Totals
  <2>3. G[p] = F[p] + (IF n = 2 THEN InHand.price ELSE 0)
    BY <1>4, <2>1, <2>2, PriceFacts DEF Updated, SumOrNaN
  <2>4. /\ \A q \in registered : F[q] \in Int
        /\ \A q \in registered \ {p} : G[q] = F[q]
    BY <1>2, <1>3, <2>1 DEF Totals
  <2>. HIDE DEF F, G
  <2>5. G[p] \in Int /\ F[p] \in Int /\ G[p] - F[p] = IF n = 2 THEN InHand.price ELSE 0
    BY <1>2, <2>1, <2>3, <2>4
  <2>6. SumFunctionOnSet(G, registered) = SumFunctionOnSet(F, registered) + (G[p] - F[p])
    BY <1>2, <2>4, <2>5, SumChange
  <2>7. SumFunctionOnSet(F, registered) \in Int
    BY <1>2, <2>4, SumType
  <2>8. summed' = SumFunctionOnSet(G, registered) /\ summed = SumFunctionOnSet(F, registered)
    BY DEF F, G
  <2>. QED  BY <2>1, <2>5, <2>6, <2>7, <2>8
<1>8. /\ stats[All].count = counted + IF at \in 2 .. 7 THEN 1 ELSE 0
      /\ stats[All].total # NaN
         => stats[All].total = summed + IF at \in 3 .. 8 THEN InHand.price ELSE 0
  BY DEF AggregatorInv, RowsFit
<1>9. RowsFit' <=>
        /\ stats'[All].count = counted' + IF at' \in 2 .. 7 THEN 1 ELSE 0
        /\ stats'[All].total # NaN
           => stats'[All].total = summed' + IF at' \in 3 .. 8 THEN InHand'.price ELSE 0
  BY DEF RowsFit
<1>. HIDE DEF counted, summed
<1>10. stats'[All].count = counted' + IF at' \in 2 .. 7 THEN 1 ELSE 0
  BY <1>1, <1>3, <1>6, <1>8
<1>11. ASSUME stats'[All].total # NaN
       PROVE  stats'[All].total = summed' + IF at' \in 3 .. 8 THEN InHand'.price ELSE 0
  <2>1. CASE n = 2
    BY <1>1, <1>3, <1>7, <1>8, <1>11, <2>1
  <2>2. CASE n # 2
    BY <1>1, <1>3, <1>7, <1>8, <1>11, <2>2
  <2>. QED  BY <2>1, <2>2
<1>. QED  BY <1>9, <1>10, <1>11

-----------------------------------------------------------------------------
\* The action of an update is the advance of one key.
LEMMA UpdateOverallAdvances ==
  ASSUME AggregatorInv, UpdateOverall
  PROVE  \E n : Advance(All, n)
<1>1. stats \in [Keys -> Stat]
  BY DEF AggregatorInv, AggregatorTypeOK, Keys
<1>2. stats' = [stats EXCEPT ![All] = update(stats[All], Fields[at], InHand.price)]
  BY <1>1 DEF UpdateOverall, Keys
<1>3. PICK n : n = at
  OBVIOUS
<1>4. Advance(All, n)
  BY <1>2, <1>3 DEF UpdateOverall, Advance, Place, AggregatorInv
<1>. QED  BY <1>4

LEMMA UpdateProductAdvances ==
  ASSUME AggregatorInv, UpdateProduct
  PROVE  \E p \in Products : \E n : Advance(p, n)
<1>1. InHand.product \in Products /\ InHand.product # All
  BY OrderFacts, AggregatorAssumption DEF UpdateProduct, AggregatorInv, InHand
<1>2. stats' = [stats EXCEPT ![InHand.product]
                  = update(stats[InHand.product], Fields[at - 6], InHand.price)]
  BY DEF UpdateProduct
<1>3. /\ at \in 7 .. 11 /\ at - 6 \in 1 .. 5 /\ 6 + (at - 6) = at /\ at # 0
  BY DEF UpdateProduct
<1>4. PICK p, n : p = InHand.product /\ n = at - 6
  OBVIOUS
<1>5. Advance(p, n) /\ p \in Products
  BY <1>1, <1>2, <1>3, <1>4 DEF UpdateProduct, Advance, Place, AggregatorInv
<1>. QED  BY <1>5

\* One assignment of update(), all parts together.
LEMMA AdvanceInv ==
  ASSUME AggregatorInv, NEW key, NEW n, Advance(key, n), UNCHANGED <<registered, interrupted>>,
         RowsFit'
  PROVE  AggregatorInv'
<1>1. AggregatorTypeOK' /\ Registered'
  BY AdvanceType, RegisteredStays
<1>2. \A c \in Keys : StatFits(c)'
  BY AdvanceFits, OthersFit
<1>3. orders' # <<>> /\ Len(orders') <= MaxOrders
  BY DEF Advance, AggregatorInv
<1>. QED  BY <1>1, <1>2, <1>3 DEF AggregatorInv, Keys

\* setdefault() gives the product a row that has seen nothing yet.
LEMMA RegisterInv == AggregatorInv /\ Register => AggregatorInv'
<1>. SUFFICES ASSUME AggregatorInv, Register PROVE AggregatorInv'
  OBVIOUS
<1>0. PICK p : p = InHand.product
  OBVIOUS
<1>1. /\ at = 6 /\ at' = 7 /\ orders' = orders /\ stats' = stats /\ interrupted' = interrupted
      /\ registered' = registered \cup {p} /\ orders # <<>> /\ AggregatorTypeOK
      /\ p \in Products /\ p # All
  BY <1>0, OrderFacts, AggregatorAssumption DEF Register, AggregatorInv, InHand
<1>2. AggregatorTypeOK'
  BY <1>1 DEF AggregatorTypeOK
<1>3. \A c \in Keys, k \in 1 .. 5 : Seen(c, k)' = Seen(c, k)
  <2>. SUFFICES ASSUME NEW c \in Keys, NEW k \in 1 .. 5 PROVE Seen(c, k)' = Seen(c, k)
    OBVIOUS
  <2>1. at # Place(c, k)
    BY <1>1 DEF Place
  <2>. QED  BY <1>1, <2>1, SeenSame
<1>4. \A c \in Keys : StatFits(c)'
  BY <1>1, <1>3 DEF AggregatorInv, StatFits, Keys
<1>5. IsFiniteSet(registered) /\ \A q \in Products : q \in registered <=> DOMAIN Seen(q, 0) # {}
  BY DEF AggregatorInv, Registered
<1>6. Registered'
  <2>1. IsFiniteSet(registered')
    BY <1>1, <1>5, FS_AddElement
  <2>2. Extends(Seen(p, 0)', Seen(p, 0), Len(orders), InHand.price)
    <3>1. at \in 1 .. 11 /\ at' = (at + 1) % 12 /\ at = Place(p, 0) /\ p \in {All, InHand.product}
      BY <1>0, <1>1 DEF Place
    <3>. QED  BY <1>1, <1>2, <3>1, SeenExtends
  <2>3. DOMAIN Seen(p, 0)' # {}
    BY <2>2 DEF Extends
  <2>4. \A q \in Products : q # p => Seen(q, 0)' = Seen(q, 0)
    <3>. SUFFICES ASSUME NEW q \in Products, q # p PROVE Seen(q, 0)' = Seen(q, 0)
      OBVIOUS
    <3>1. q \notin {All, InHand.product}
      BY <1>0, AggregatorAssumption
    <3>. QED  BY <1>1, <3>1, SeenSame
  <2>5. \A q \in Products : q \in registered' <=> DOMAIN Seen(q, 0)' # {}
    <3>. SUFFICES ASSUME NEW q \in Products
                  PROVE  q \in registered' <=> DOMAIN Seen(q, 0)' # {}
      OBVIOUS
    <3>1. CASE q = p
      BY <1>1, <2>3, <3>1
    <3>2. CASE q # p
      <4>1. Seen(q, 0)' = Seen(q, 0) /\ (q \in registered' <=> q \in registered)
        BY <1>1, <2>4, <3>2
      <4>. QED  BY <1>5, <4>1
    <3>. QED  BY <3>1, <3>2
  <2>. QED  BY <2>1, <2>5 DEF Registered
<1>7. RowsFit'
  <2>. DEFINE counted == SumFunctionOnSet(Counts, registered)
              summed  == SumFunctionOnSet(Totals, registered)
  <2>1. Counts' = Counts /\ Totals' = Totals /\ InHand' = InHand
    BY <1>1 DEF Counts, Totals, InHand
  <2>2. \A q \in Products : Counts[q] \in Int
    BY <1>1 DEF AggregatorTypeOK, Counts, Stat
  <2>3. stats[All].total # NaN => \A q \in Products : Totals[q] \in Int
    BY TotalsReal DEF Totals
  <2>4. p \notin registered => Counts[p] = 0 /\ (stats[All].total # NaN => Totals[p] = 0)
    <3>. SUFFICES ASSUME p \notin registered
                  PROVE  Counts[p] = 0 /\ (stats[All].total # NaN => Totals[p] = 0)
      OBVIOUS
    <3>1. Mine(p, 0) = {} /\ SeenOK
      BY <1>1, <1>5, SeenFacts DEF SeenOK
    <3>2. Mine(p, 1) = {} /\ Mine(p, 2) = {}
      BY <1>1, <3>1 DEF Mine, Behind
    <3>3. DOMAIN Seen(p, 1) = {} /\ DOMAIN Seen(p, 2) = {}
      BY <3>1, <3>2 DEF SeenOK
    <3>4. stats[p].count = Cardinality(DOMAIN Seen(p, 1)) /\ TotalFits(stats[p].total, Seen(p, 2))
      BY <1>1 DEF AggregatorInv, StatFits
    <3>5. Range(Seen(p, 2)) = {} /\ SumFunction(Seen(p, 2)) = 0
      BY <3>3, SumEmpty DEF Range, SumFunction
    <3>6. Counts[p] = stats[p].count /\ Totals[p] = stats[p].total
      BY <1>1 DEF Counts, Totals
    <3>7. stats[p].count = 0
      BY <3>3, <3>4, FS_EmptySet
    <3>8. stats[p].total = 0
      BY <3>4, <3>5 DEF TotalFits
    <3>. QED  BY <3>6, <3>7, <3>8
  <2>5. counted' = counted
    <3>1. CASE p \in registered
      <4>1. registered' = registered
        BY <1>1, <3>1
      <4>. QED  BY <2>1, <4>1
    <3>2. CASE p \notin registered
      <4>. DEFINE F == Counts
      <4>1. \A q \in registered \cup {p} : F[q] \in Int
        BY <1>1, <2>2 DEF AggregatorTypeOK
      <4>2. F[p] = 0
        BY <2>4, <3>2
      <4>. HIDE DEF F
      <4>3. SumFunctionOnSet(F, registered \cup {p}) = SumFunctionOnSet(F, registered) + F[p]
        BY <1>5, <3>2, <4>1, SumAdd
      <4>4. SumFunctionOnSet(F, registered) \in Int
        BY <1>5, <4>1, SumType
      <4>5. counted' = SumFunctionOnSet(F, registered \cup {p})
        BY <1>1, <2>1 DEF F
      <4>6. counted = SumFunctionOnSet(F, registered)
        BY DEF F
      <4>. QED  BY <4>2, <4>3, <4>4, <4>5, <4>6
    <3>. QED  BY <3>1, <3>2
  <2>6. stats[All].total # NaN => summed' = summed
    <3>1. CASE p \in registered
      <4>1. registered' = registered
        BY <1>1, <3>1
      <4>. QED  BY <2>1, <4>1
    <3>2. CASE p \notin registered /\ stats[All].total # NaN
      <4>. DEFINE F == Totals
      <4>1. \A q \in registered \cup {p} : F[q] \in Int
        BY <1>1, <2>3, <3>2 DEF AggregatorTypeOK
      <4>2. F[p] = 0
        BY <2>4, <3>2
      <4>. HIDE DEF F
      <4>3. SumFunctionOnSet(F, registered \cup {p}) = SumFunctionOnSet(F, registered) + F[p]
        BY <1>5, <3>2, <4>1, SumAdd
      <4>4. SumFunctionOnSet(F, registered) \in Int
        BY <1>5, <4>1, SumType
      <4>5. summed' = SumFunctionOnSet(F, registered \cup {p})
        BY <1>1, <2>1 DEF F
      <4>6. summed = SumFunctionOnSet(F, registered)
        BY DEF F
      <4>. QED  BY <4>2, <4>3, <4>4, <4>5, <4>6
    <3>. QED  BY <3>1, <3>2
  <2>7. /\ stats[All].count = counted + 1
        /\ stats[All].total # NaN => stats[All].total = summed + InHand.price
    BY <1>1 DEF AggregatorInv, RowsFit
  <2>8. RowsFit' <=>
          /\ stats'[All].count = counted' + IF at' \in 2 .. 7 THEN 1 ELSE 0
          /\ stats'[All].total # NaN
             => stats'[All].total = summed' + IF at' \in 3 .. 8 THEN InHand'.price ELSE 0
    BY DEF RowsFit
  <2>. HIDE DEF counted, summed
  <2>. QED  BY <1>1, <2>1, <2>5, <2>6, <2>7, <2>8
<1>. QED  BY <1>1, <1>2, <1>4, <1>6, <1>7 DEF AggregatorInv, Keys

\* The call of add().
LEMMA AddInv ==
  ASSUME AggregatorInv, NEW product \in Products, NEW price \in Price, Add(product, price)
  PROVE  AggregatorInv'
<1>. DEFINE o == [product |-> product, price |-> price]
<1>1. /\ at = 0 /\ at' = 1 /\ orders' = Append(orders, o)
      /\ stats' = stats /\ registered' = registered /\ interrupted' = interrupted
      /\ AggregatorTypeOK /\ Len(orders) < MaxOrders
  BY DEF Add, AggregatorInv
<1>2. /\ orders' \in Seq([product : Products, price : Price]) /\ orders' # <<>>
      /\ Len(orders') = Len(orders) + 1 /\ Len(orders) \in Nat
  <2>. DEFINE Order == [product : Products, price : Price]
  <2>1. orders \in Seq(Order) /\ o \in Order
    BY <1>1 DEF AggregatorTypeOK, Price
  <2>. HIDE DEF Order, o
  <2>2. /\ Append(orders, o) \in Seq(Order) /\ Append(orders, o) # <<>>
        /\ Len(Append(orders, o)) = Len(orders) + 1 /\ Len(orders) \in Nat
    BY <2>1
  <2>. QED  BY <1>1, <2>2 DEF Order
<1>3. AggregatorTypeOK'
  BY <1>1, <1>2 DEF AggregatorTypeOK, Price
<1>4. Len(orders') <= MaxOrders
  BY <1>1, <1>2, AggregatorAssumption
<1>5. \A c \in Keys, k \in 0 .. 5 : Place(c, k) # 0 => Seen(c, k)' = Seen(c, k)
  <2>. HIDE DEF o
  <2>. QED  BY <1>1, <1>3, SeenAdd
<1>6. \A c \in Keys : StatFits(c)'
  <2>. SUFFICES ASSUME NEW c \in Keys PROVE StatFits(c)'
    OBVIOUS
  <2>1. \A k \in 1 .. 5 : Seen(c, k)' = Seen(c, k)
    <3>1. \A k \in 1 .. 5 : k \in 0 .. 5 /\ Place(c, k) # 0
      BY DEF Place
    <3>. QED  BY <1>5, <3>1
  <2>2. StatFits(c)
    BY DEF AggregatorInv, Keys
  <2>. QED  BY <1>1, <2>1, <2>2 DEF StatFits
<1>7. Registered'
  <2>1. \A q \in Products : Seen(q, 0)' = Seen(q, 0)
    <3>1. \A q \in Products : q \in Keys /\ Place(q, 0) # 0
      BY AggregatorAssumption DEF Place, Keys
    <3>. QED  BY <1>5, <3>1
  <2>. QED  BY <1>1, <2>1 DEF AggregatorInv, Registered
<1>8. RowsFit'
  BY <1>1 DEF AggregatorInv, RowsFit, Counts, Totals
<1>. QED  BY <1>2, <1>3, <1>4, <1>6, <1>7, <1>8 DEF AggregatorInv, Keys

\* The initial state, and all actions together.
LEMMA AggregatorInitInv == AggregatorInit => AggregatorInv
<1>. SUFFICES ASSUME AggregatorInit PROVE AggregatorInv
  OBVIOUS
<1>1. NewStat \in Stat
  BY DEF NewStat, Stat, Number
<1>2. AggregatorTypeOK
  <2>1. stats \in [Products \cup {All} -> Stat]
    BY <1>1 DEF AggregatorInit
  <2>2. orders \in Seq([product : Products, price : Prices \cup {NaN}])
    BY DEF AggregatorInit
  <2>3. at \in 0 .. 11 /\ registered \subseteq Products
    BY DEF AggregatorInit
  <2>4. interrupted \in BOOLEAN
    BY Zenon DEF AggregatorInit
  <2>. QED  BY <2>1, <2>2, <2>3, <2>4 DEF AggregatorTypeOK
<1>3. \A c, k : DOMAIN Seen(c, k) = {} /\ Range(Seen(c, k)) = {} /\ SumFunction(Seen(c, k)) = 0
  <2>. SUFFICES ASSUME NEW c, NEW k
                PROVE  /\ DOMAIN Seen(c, k) = {} /\ Range(Seen(c, k)) = {}
                       /\ SumFunction(Seen(c, k)) = 0
    OBVIOUS
  <2>1. Mine(c, k) = {}
    BY DEF Mine, AggregatorInit
  <2>2. DOMAIN Seen(c, k) = {}
    BY <1>2, <2>1, SeenFacts DEF SeenOK
  <2>. QED  BY <2>2, SumEmpty DEF Range, SumFunction
<1>4. \A c \in Keys : StatFits(c)
  <2>. SUFFICES ASSUME NEW c \in Keys PROVE StatFits(c)
    OBVIOUS
  <2>1. /\ stats[c].count = 0 /\ stats[c].total = 0 /\ stats[c].average = 0
        /\ stats[c].minimum = None /\ stats[c].maximum = None
    BY DEF AggregatorInit, NewStat, Keys
  <2>2. Cardinality({}) = 0
    BY FS_EmptySet
  <2>3. Scale * 0 = 0
    BY AggregatorAssumption
  <2>4. AverageFits(0, Seen(c, 3))
    BY <1>3, <2>2, <2>3 DEF AverageFits
  <2>. QED  BY <1>3, <2>1, <2>2, <2>4 DEF StatFits, TotalFits, MinimumFits, MaximumFits
<1>5. Registered
  BY <1>3, FS_EmptySet DEF Registered, AggregatorInit
<1>6. RowsFit
  <2>1. /\ stats[All].count = 0 /\ stats[All].total = 0 /\ at = 0 /\ registered = {}
    BY DEF AggregatorInit, NewStat
  <2>. QED  BY <2>1, SumEmpty DEF RowsFit
<1>7. orders = <<>> /\ at = 0 /\ Len(orders) <= MaxOrders
  BY AggregatorAssumption DEF AggregatorInit
<1>. QED  BY <1>2, <1>4, <1>5, <1>6, <1>7 DEF AggregatorInv, Keys

LEMMA AggregatorStep == AggregatorInv /\ [AggregatorNext]_aggregatorVars => AggregatorInv'
<1>. SUFFICES ASSUME AggregatorInv, [AggregatorNext]_aggregatorVars PROVE AggregatorInv'
  OBVIOUS
<1>1. ASSUME NEW product \in Products, NEW price \in Prices \cup {NaN}, Add(product, price)
      PROVE  AggregatorInv'
  BY <1>1, AddInv DEF Price
<1>2. CASE UpdateOverall
  <2>0. UNCHANGED <<registered, interrupted>>
    BY <1>2 DEF UpdateOverall
  <2>1. PICK n : Advance(All, n)
    BY <1>2, UpdateOverallAdvances
  <2>2. RowsFit'
    BY <2>0, <2>1, AdvanceAllRows
  <2>. QED  BY <2>0, <2>1, <2>2, AdvanceInv
<1>3. CASE Register
  BY <1>3, RegisterInv
<1>4. CASE UpdateProduct
  <2>0. UNCHANGED <<registered, interrupted>>
    BY <1>4 DEF UpdateProduct
  <2>p. PICK p \in Products : \E n : Advance(p, n)
    BY <1>4, UpdateProductAdvances
  <2>1. PICK n : Advance(p, n)
    BY <2>p
  <2>2. RowsFit'
    BY <2>0, <2>1, AdvanceProductRows
  <2>. QED  BY <2>0, <2>1, <2>2, AdvanceInv
<1>5. CASE interrupted' \in BOOLEAN /\ UNCHANGED <<stats, registered, orders, at>>
  <2>1. \A c, k : Seen(c, k)' = Seen(c, k)
    BY <1>5 DEF Seen, PricesOf, Behind
  <2>2. AggregatorTypeOK' /\ (at' # 0 => orders' # <<>>) /\ Len(orders') <= MaxOrders
    BY <1>5 DEF AggregatorInv, AggregatorTypeOK
  <2>3. \A c \in Keys : StatFits(c)'
    BY <1>5, <2>1 DEF AggregatorInv, StatFits, Keys
  <2>4. Registered'
    BY <1>5, <2>1 DEF AggregatorInv, Registered
  <2>5. RowsFit'
    BY <1>5 DEF AggregatorInv, RowsFit, Counts, Totals, InHand
  <2>. QED  BY <2>2, <2>3, <2>4, <2>5 DEF AggregatorInv, Keys
<1>6. CASE Interrupt
  BY <1>5, <1>6 DEF Interrupt
<1>7. CASE UNCHANGED aggregatorVars
  BY <1>5, <1>7 DEF aggregatorVars, AggregatorInv, AggregatorTypeOK
<1>. QED  BY <1>1, <1>2, <1>3, <1>4, <1>6, <1>7 DEF AggregatorNext

\* The invariant of every behaviour.
LEMMA AggregatorInvHolds == AggregatorSpec => []AggregatorInv
BY AggregatorInitInv, AggregatorStep, PTL DEF AggregatorSpec

-----------------------------------------------------------------------------
\* The five statistics and the keys of per_product keep their types
\* (aggregator.py:16-20 and 63-64).
THEOREM AggregatorTypes == AggregatorSpec => []AggregatorTypeOK
<1>1. AggregatorInv => AggregatorTypeOK
  BY DEF AggregatorInv
<1>. QED  BY <1>1, AggregatorInvHolds, PTL

\* A key that is not in hand has seen all its prices.
LEMMA SettledSeen ==
  ASSUME AggregatorInv, NEW key \in Settled, NEW k \in 1 .. 5
  PROVE  key \in Keys /\ Seen(key, k) = PricesOf(key)
<1>1. AggregatorTypeOK
  BY DEF AggregatorInv
<1>2. CASE at = 0
  BY <1>2 DEF Settled, Seen, Behind, Keys
<1>3. CASE at # 0
  <2>1. key \in Products /\ key # All /\ key # InHand.product
    BY <1>3, AggregatorAssumption DEF Settled
  <2>2. Len(orders) \notin DOMAIN PricesOf(key)
    BY <2>1 DEF PricesOf, InHand
  <2>3. Restrict(PricesOf(key), DOMAIN PricesOf(key) \ {Len(orders)}) = PricesOf(key)
    BY <2>2 DEF Restrict, PricesOf
  <2>. QED  BY <2>1, <2>3 DEF Seen, Keys
<1>. QED  BY <1>2, <1>3

\* The corrections of the mean add up to the mean of all prices at once, for any
\* number of orders in any sequence, and a NaN stays (aggregator.py:26-44).
THEOREM IncrementalMeans == AggregatorSpec => []MeansAreBatchMeans
<1>1. AggregatorInv => MeansAreBatchMeans
  <2>. SUFFICES ASSUME AggregatorInv, NEW key \in Settled
                PROVE  /\ stats[key].count = Cardinality(DOMAIN PricesOf(key))
                       /\ IF NaN \in Range(PricesOf(key))
                          THEN stats[key].total = NaN /\ stats[key].average = NaN
                          ELSE /\ stats[key].total = SumFunction(PricesOf(key))
                               /\ stats[key].average * stats[key].count
                                  = Scale * stats[key].total
    BY DEF MeansAreBatchMeans
  <2>1. StatFits(key) /\ \A k \in 1 .. 5 : Seen(key, k) = PricesOf(key)
    BY SettledSeen DEF AggregatorInv, Keys
  <2>2. /\ stats[key].count = Cardinality(DOMAIN PricesOf(key))
        /\ TotalFits(stats[key].total, PricesOf(key))
        /\ AverageFits(stats[key].average, PricesOf(key))
    BY <2>1 DEF StatFits
  <2>. QED  BY <2>2 DEF TotalFits, AverageFits
<1>. QED  BY <1>1, AggregatorInvHolds, PTL

\* The extremes are prices that bound the others, whatever a NaN does to the
\* comparisons on the way (aggregator.py:46-47).
THEOREM ExtremesHold == AggregatorSpec => []ExtremesAreKept
<1>1. AggregatorInv => ExtremesAreKept
  <2>. SUFFICES ASSUME AggregatorInv, NEW key \in Settled
                PROVE  LET prices == PricesOf(key)
                           real   == Range(prices) \ {NaN}
                           least  == stats[key].minimum
                           most   == stats[key].maximum
                       IN  IF DOMAIN prices = {} THEN {least, most} = {None}
                           ELSE IF StartsWithNaN(prices) THEN {least, most} = {NaN}
                           ELSE /\ {least, most} \subseteq real
                                /\ \A x \in real : least <= x /\ x <= most
    BY DEF ExtremesAreKept
  <2>1. StatFits(key) /\ \A k \in 1 .. 5 : Seen(key, k) = PricesOf(key)
    BY SettledSeen DEF AggregatorInv, Keys
  <2>2. /\ MinimumFits(stats[key].minimum, PricesOf(key))
        /\ MaximumFits(stats[key].maximum, PricesOf(key))
    BY <2>1 DEF StatFits
  <2>. QED  BY <2>2 DEF MinimumFits, MaximumFits
<1>. QED  BY <1>1, AggregatorInvHolds, PTL

\* The ALL row is the sum of the product rows, or one order ahead of it, for every
\* set of products (aggregator.py:68-71).
THEOREM RowsSum == AggregatorSpec => []RowsAddUp
<1>1. AggregatorInv => RowsAddUp
  <2>. SUFFICES ASSUME AggregatorInv PROVE RowsAddUp
    OBVIOUS
  <2>. DEFINE counted == SumFunctionOnSet(Counts, registered)
              summed  == SumFunctionOnSet(Totals, registered)
  <2>1. \A p \in registered : Counts[p] \in Int
    BY DEF AggregatorInv, AggregatorTypeOK, Counts, Stat
  <2>2. counted \in Int
    BY <2>1, SumType DEF AggregatorInv, Registered
  <2>3. stats[All].total # NaN => summed \in Int
    <3>1. stats[All].total # NaN => \A p \in registered : Totals[p] \in Int
      BY TotalsReal DEF AggregatorInv, AggregatorTypeOK, Totals
    <3>. QED  BY <3>1, SumType DEF AggregatorInv, Registered
  <2>4. /\ stats[All].count = counted + IF at \in 2 .. 7 THEN 1 ELSE 0
        /\ stats[All].total # NaN
           => stats[All].total = summed + IF at \in 3 .. 8 THEN InHand.price ELSE 0
    BY DEF AggregatorInv, RowsFit
  <2>5. RowsAddUp <=>
          /\ stats[All].count - counted \in {0, 1}
          /\ at = 0 => /\ stats[All].count = counted
                       /\ stats[All].total # NaN => stats[All].total = summed
    BY DEF RowsAddUp, Counts, Totals
  <2>. HIDE DEF counted, summed
  <2>. QED  BY <2>2, <2>3, <2>4, <2>5
<1>. QED  BY <1>1, AggregatorInvHolds, PTL

-----------------------------------------------------------------------------
\* The only row of the summary that can be without its extremes is that of a key
\* whose first order is being counted: an interrupt breaks the summary there and
\* nowhere else (aggregator.py:23-47 against 101-112).
BareRowIsFirstOrder ==
  \A key \in RowKeys :
    None \in {stats[key].minimum, stats[key].maximum}
      => /\ at \in IF key = All THEN 2 .. 5 ELSE 7 .. 11
         /\ DOMAIN PricesOf(key) = {Len(orders)}

\* InterruptedSummaryPrints, which the code breaks, holds but for that one row.
THEOREM SummaryPrintsElsewhere == AggregatorSpec => []BareRowIsFirstOrder
<1>1. AggregatorInv => BareRowIsFirstOrder
  <2>. SUFFICES ASSUME AggregatorInv, NEW key \in RowKeys,
                       None \in {stats[key].minimum, stats[key].maximum}
                PROVE  /\ at \in IF key = All THEN 2 .. 5 ELSE 7 .. 11
                       /\ DOMAIN PricesOf(key) = {Len(orders)}
    BY DEF BareRowIsFirstOrder
  <2>1. AggregatorTypeOK /\ SeenOK
    BY SeenFacts DEF AggregatorInv
  <2>2. key \in Keys /\ StatFits(key) /\ at \in 0 .. 11
    BY <2>1 DEF RowKeys, Keys, AggregatorTypeOK, AggregatorInv
  <2>3. \A k : DOMAIN Seen(key, k) = Mine(key, k) /\ PriceStream(Seen(key, k))
    BY <2>1 DEF SeenOK
  <2>4. \A k : None \notin Range(Seen(key, k))
    BY <2>3, PriceFacts DEF PriceStream, Range
  <2>5. Mine(key, 5) = {}
    <3>1. CASE stats[key].minimum = None
      <4>1. MinimumFits(None, Seen(key, 4))
        BY <2>2, <3>1 DEF StatFits
      <4>2. Mine(key, 4) = {}
        BY <2>3, <2>4, <4>1, PriceFacts DEF MinimumFits
      <4>. QED  BY <2>2, <4>2 DEF Mine, Behind
    <3>2. CASE stats[key].maximum = None
      <4>1. MaximumFits(None, Seen(key, 5))
        BY <2>2, <3>2 DEF StatFits
      <4>. QED  BY <2>3, <2>4, <4>1, PriceFacts DEF MaximumFits
    <3>. QED  BY <3>1, <3>2
  <2>6. Mine(key, IF key = All THEN 1 ELSE 0) # {}
    <3>1. CASE key = All
      <4>1. stats[key].count > 0
        BY <2>1, <3>1, AggregatorAssumption DEF RowKeys, AggregatorTypeOK
      <4>2. stats[key].count = Cardinality(Mine(key, 1))
        BY <2>2, <2>3 DEF StatFits
      <4>3. Cardinality({}) = 0
        BY FS_EmptySet
      <4>. QED  BY <3>1, <4>1, <4>2, <4>3
    <3>2. CASE key # All
      <4>1. key \in registered /\ key \in Products
        BY <2>2, <3>2 DEF RowKeys, Keys
      <4>. QED  BY <2>3, <3>2, <4>1 DEF AggregatorInv, Registered
    <3>. QED  BY <3>1, <3>2
  <2>7. DOMAIN PricesOf(key) = {i \in DOMAIN orders : key \in {All, orders[i].product}}
    BY DEF PricesOf
  <2>8. Behind(key, 5) /\ DOMAIN PricesOf(key) = {Len(orders)}
    BY <2>5, <2>6, <2>7 DEF Mine
  <2>9. ~Behind(key, IF key = All THEN 1 ELSE 0)
    BY <2>6, <2>7, <2>8 DEF Mine
  <2>10. at \in IF key = All THEN 2 .. 5 ELSE 7 .. 11
    BY <2>2, <2>8, <2>9 DEF Behind
  <2>. QED  BY <2>8, <2>10
<1>. QED  BY <1>1, AggregatorInvHolds, PTL
=============================================================================
