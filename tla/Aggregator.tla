----------------------------- MODULE Aggregator -----------------------------
(***************************************************************************)
(* The running statistics of consumer/aggregator.py: one _Stat over all    *)
(* orders and one per product.  A step is one assignment, because a        *)
(* KeyboardInterrupt can end the unit of work between any two of them, and *)
(* main() prints the summary from whatever is there.                       *)
(*                                                                         *)
(* Arithmetic is exact: averages are counted in units of 1/Scale, and      *)
(* Scale is a multiple of every count that occurs.  NaN, which validate()  *)
(* lets pass, absorbs sums and compares false.                             *)
(***************************************************************************)
EXTENDS Integers, Sequences, FiniteSets, Functions

CONSTANTS
  Products, Prices,   \* the names and the numbers orders carry
  NaN,                \* the price that is not a number
  None,               \* Python's None
  All,                \* the key of `overall` and of its row in the summary
  MaxOrders,          \* bound on the number of orders
  Scale

ASSUME AggregatorAssumption ==
  /\ Prices \subseteq Int
  /\ {NaN, None} \cap Int = {} /\ NaN # None
  /\ All \notin Products
  /\ MaxOrders \in Nat \ {0} /\ Scale \in Nat \ {0}
  /\ \A n \in 1 .. MaxOrders : Scale % n = 0

VARIABLES
  stats,        \* the _Stat of each key; that of a product counts once registered
  registered,   \* the keys of per_product
  orders,       \* history: what add() was called with, the last one now or before
  at,           \* the assignment of add() that is next, 0 outside add()
  interrupted   \* a KeyboardInterrupt ended the loop

aggregatorVars == <<stats, registered, orders, at, interrupted>>

-----------------------------------------------------------------------------
Number == Int \cup {NaN}
Stat == [count : Nat, total : Number, average : Number,
         minimum : Number \cup {None}, maximum : Number \cup {None}]

NewStat == [count |-> 0, total |-> 0, average |-> 0, minimum |-> None, maximum |-> None]

IsLess(a, b) == NaN \notin {a, b} /\ a < b

\* Mutant of AverageAfter: the divisor is the count before this price.
AverageAfterOldCount(stat, price) ==
  IF NaN \in {stat.average, price} \/ stat.count = 1 THEN price
  ELSE stat.average + (Scale * price - stat.average) \div (stat.count - 1)

\* The correction of the average, with the count already advanced.
AverageAfter(stat, price) ==
  IF NaN \in {stat.average, price} THEN NaN
  ELSE stat.average + (Scale * price - stat.average) \div stat.count

\* Mutant of Extreme: the comparison is the wrong way round.
ExtremeFlipped(old, price, better) == IF old = None \/ ~better THEN price ELSE old

\* min() and max() of Python: the second argument wins only by the comparison.
Extreme(old, price, better) == IF old = None \/ better THEN price ELSE old

\* One assignment of _Stat.update.
Fields == <<"count", "total", "average", "minimum", "maximum">>

update(stat, field, price) ==
  CASE field = "count"   -> [stat EXCEPT !.count = @ + 1]
    [] field = "total"   -> [stat EXCEPT !.total = IF NaN \in {@, price} THEN NaN ELSE @ + price]
    [] field = "average" -> [stat EXCEPT !.average = AverageAfter(stat, price)]
    [] field = "minimum" -> [stat EXCEPT !.minimum = Extreme(@, price, IsLess(price, @))]
    [] field = "maximum" -> [stat EXCEPT !.maximum = Extreme(@, price, IsLess(@, price))]

-----------------------------------------------------------------------------
AggregatorInit ==
  /\ stats = [key \in Products \cup {All} |-> NewStat]
  /\ registered = {}
  /\ orders = <<>>
  /\ at = 0
  /\ interrupted = FALSE

\* add(product, price) is called.
Add(product, price) ==
  /\ at = 0 /\ ~interrupted
  /\ Len(orders) < MaxOrders
  /\ orders' = Append(orders, [product |-> product, price |-> price])
  /\ at' = 1
  /\ UNCHANGED <<stats, registered, interrupted>>

InHand == orders[Len(orders)]

\* Statements 1 to 5: self.overall.update(price).
UpdateOverall ==
  /\ at \in 1 .. 5 /\ ~interrupted
  /\ stats' = [stats EXCEPT ![All] = update(@, Fields[at], InHand.price)]
  /\ at' = at + 1
  /\ UNCHANGED <<registered, orders, interrupted>>

\* Mutant of Register: the product gets a new _Stat every time.
RegisterAnew ==
  /\ at = 6 /\ ~interrupted
  /\ registered' = registered \cup {InHand.product}
  /\ stats' = [stats EXCEPT ![InHand.product] = NewStat]
  /\ at' = 7
  /\ UNCHANGED <<orders, interrupted>>

\* Mutant of Register: the row is keyed by the other field of the order.
RegisterByPrice ==
  /\ at = 6 /\ ~interrupted
  /\ registered' = registered \cup {InHand.price}
  /\ at' = 7
  /\ UNCHANGED <<stats, orders, interrupted>>

\* Statement 6: per_product.setdefault.
Register ==
  /\ at = 6 /\ ~interrupted
  /\ registered' = registered \cup {InHand.product}
  /\ at' = 7
  /\ UNCHANGED <<stats, orders, interrupted>>

\* Statements 7 to 11: the update of the product's _Stat, and the return.
UpdateProduct ==
  /\ at \in 7 .. 11 /\ ~interrupted
  /\ stats' = [stats EXCEPT ![InHand.product] = update(@, Fields[at - 6], InHand.price)]
  /\ at' = (at + 1) % 12
  /\ UNCHANGED <<registered, orders, interrupted>>

\* KeyboardInterrupt is no Exception: the retry policy does not catch it.
Interrupt ==
  /\ ~interrupted
  /\ interrupted' = TRUE
  /\ UNCHANGED <<stats, registered, orders, at>>

AggregatorNext ==
  \/ \E product \in Products, price \in Prices \cup {NaN} : Add(product, price)
  \/ UpdateOverall \/ Register \/ UpdateProduct
  \/ Interrupt

AggregatorSpec == AggregatorInit /\ [][AggregatorNext]_aggregatorVars

-----------------------------------------------------------------------------
\* Type correctness.
AggregatorTypeOK ==
  /\ stats \in [Products \cup {All} -> Stat]
  /\ registered \subseteq Products
  /\ orders \in Seq([product : Products, price : Prices \cup {NaN}])
  /\ at \in 0 .. 11
  /\ interrupted \in BOOLEAN

\* The prices of a key, by the place of their order in the stream.
PricesOf(key) ==
  LET mine == {i \in DOMAIN orders : key \in {All, orders[i].product}}
  IN  [i \in mine |-> orders[i].price]

StartsWithNaN(prices) ==
  \E i \in DOMAIN prices : prices[i] = NaN /\ \A j \in DOMAIN prices : i <= j

\* The keys whose statistics are complete for the orders so far.
Settled == IF at = 0 THEN Products \cup {All} ELSE Products \ {InHand.product}

\* The incremental mean is the mean of all prices computed at once, for all orders
\* and for each product, in whatever order they arrived, and NaN from the first NaN
\* on (aggregator.py:26-44, test_aggregator.py:42 and 62).
MeansAreBatchMeans ==
  \A key \in Settled :
    LET prices == PricesOf(key)  stat == stats[key] IN
    /\ stat.count = Cardinality(DOMAIN prices)
    /\ IF NaN \in Range(prices) THEN stat.total = NaN /\ stat.average = NaN
       ELSE /\ stat.total = SumFunction(prices)
            /\ stat.average * stat.count = Scale * stat.total

\* The extremes bound every price and are prices; a NaN that comes later leaves
\* them alone, and one that comes first stays for good (aggregator.py:46-47).
ExtremesAreKept ==
  \A key \in Settled :
    LET prices == PricesOf(key)
        real   == Range(prices) \ {NaN}
        least  == stats[key].minimum
        most   == stats[key].maximum
    IN  IF DOMAIN prices = {} THEN {least, most} = {None}
        ELSE IF StartsWithNaN(prices) THEN {least, most} = {NaN}
        ELSE {least, most} \subseteq real /\ \A x \in real : least <= x /\ x <= most

\* An order is counted in its product's row and in the ALL row, or its add() was
\* cut short: the rows differ from their sum by that one order at most
\* (aggregator.py:68-71, test_aggregator.py:89-95).
RowsAddUp ==
  LET counted == SumFunctionOnSet([p \in Products |-> stats[p].count], registered)
      summed  == SumFunctionOnSet([p \in Products |-> stats[p].total], registered)
  IN  /\ stats[All].count - counted \in {0, 1}
      /\ at = 0 => /\ stats[All].count = counted
                   /\ stats[All].total # NaN => stats[All].total = summed

-----------------------------------------------------------------------------
\* The rows of the summary: the registered products, and ALL once it counts.
RowKeys == registered \cup {key \in {All} : stats[key].count > 0}

\* consumer.py:238-240: after a KeyboardInterrupt, "the finally block still closes
\* the consumer and prints the summary rather than dumping a traceback".  A row
\* can only be formatted when its extremes are numbers (aggregator.py:104 and 111).
InterruptedSummaryPrints ==
  interrupted => \A key \in RowKeys : None \notin {stats[key].minimum, stats[key].maximum}
=============================================================================
