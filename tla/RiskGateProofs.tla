--------------------------- MODULE RiskGateProofs ---------------------------
(***************************************************************************)
(* That the invariants of RiskGate hold for any symbols, prices, limits    *)
(* and bounds.                                                             *)
(*                                                                         *)
(* The account and the cash flow are sums over the orders.  The proof      *)
(* first shows what a step does to one order, then what it does to a sum,  *)
(* and keeps to sums from there on.                                        *)
(***************************************************************************)
EXTENDS RiskGate, SumTheorems, SequenceTheorems, TLAPS

-----------------------------------------------------------------------------
(* The orders *)

Statuses == {"working", "filled", "booked", "untracked", "replayed", "dead"}
Live == {"working"} \cup Executed
OrdersType == orders \in [Symbols -> Seq(Order)]

\* An order is found by its symbol and its place in the sequence of the symbol.
LEMMA AllMember ==
  \A s, i : <<s, i>> \in All <=> s \in Symbols /\ i \in DOMAIN orders[s]
BY DEF All

LEMMA AllPairs ==
  \A o \in All : o = <<o[1], o[2]>> /\ o[1] \in Symbols /\ o[2] \in DOMAIN orders[o[1]]
BY DEF All

\* There are finitely many orders.
LEMMA AllFinite ==
  ASSUME OrdersType
  PROVE  IsFiniteSet(All)
<1> DEFINE Places(s) == {<<s, i>> : i \in DOMAIN orders[s]}
           Parts == {Places(s) : s \in Symbols}
           pick == [s \in Symbols |-> Places(s)]
<1>1. \A s \in Symbols : IsFiniteSet(Places(s))
  <2> TAKE s \in Symbols
  <2>1. DOMAIN orders[s] = 1..Len(orders[s]) /\ Len(orders[s]) \in Nat
    BY LenProperties DEF OrdersType
  <2>2. IsFiniteSet(DOMAIN orders[s])
    BY <2>1, FS_Interval
  <2> DEFINE h == [i \in DOMAIN orders[s] |-> <<s, i>>]
  <2>3. Places(s) = {h[i] : i \in DOMAIN orders[s]}
    OBVIOUS
  <2> HIDE DEF h
  <2> QED BY <2>2, <2>3, FiniteImage
<1>2. Parts = {pick[s] : s \in Symbols}
  OBVIOUS
<1>3. IsFiniteSet(Parts)
  <2> HIDE DEF pick, Parts
  <2> QED BY <1>2, SymbolsAssumption, FiniteImage
<1>4. \A P \in Parts : IsFiniteSet(P)
  BY <1>1
<1>5. All = UNION Parts
  BY DEF All
<1> QED BY <1>3, <1>4, <1>5, FS_UNION

\* An order is a record of its type.
LEMMA GetType ==
  ASSUME OrdersType
  PROVE  \A o \in All : Get(o) \in Order /\ o[2] \in 1..Len(orders[o[1]]) /\ o[2] \in Nat
<1> TAKE o \in All
<1>1. o[1] \in Symbols /\ o[2] \in DOMAIN orders[o[1]]
  BY AllPairs
<1>2. orders[o[1]] \in Seq(Order)
  BY <1>1 DEF OrdersType
<1>3. DOMAIN orders[o[1]] = 1..Len(orders[o[1]]) /\ Len(orders[o[1]]) \in Nat
  BY <1>2, LenProperties
<1>4. orders[o[1]][o[2]] \in Order
  BY <1>1, <1>2, <1>3, ElementOfSeq
<1> QED BY <1>1, <1>3, <1>4 DEF Get

\* One order changes, the others are what they were.
LEMMA ChangeOrder ==
  ASSUME OrdersType, NEW s \in Symbols, NEW i \in DOMAIN orders[s], NEW r \in Order,
         orders' = [orders EXCEPT ![s][i] = r]
  PROVE  /\ OrdersType'
         /\ All' = All /\ <<s, i>> \in All
         /\ \A o \in All : Get(o)' = IF o = <<s, i>> THEN r ELSE Get(o)
         /\ \A t \in Symbols : Len(orders'[t]) = Len(orders[t])
<1>1. orders[s] \in Seq(Order) /\ i \in 1..Len(orders[s])
  BY LenProperties DEF OrdersType
<1> DEFINE new == [orders[s] EXCEPT ![i] = r]
<1>2. new \in Seq(Order) /\ Len(new) = Len(orders[s])
  BY <1>1, ExceptSeq
<1>3. DOMAIN new = DOMAIN orders[s] /\ new[i] = r /\ \A j \in DOMAIN orders[s] : j # i => new[j] = orders[s][j]
  BY <1>1
<1>4. orders' = [orders EXCEPT ![s] = new]
  OBVIOUS
<1> HIDE DEF new
<1>5. orders'[s] = new /\ \A t \in Symbols : t # s => orders'[t] = orders[t]
  BY <1>4 DEF OrdersType
<1>6. orders' \in [Symbols -> Seq(Order)]
  BY <1>2, <1>4 DEF OrdersType
<1>7. \A t \in Symbols : DOMAIN orders'[t] = DOMAIN orders[t]
  BY <1>3, <1>5
<1>8. All' = All
  BY <1>7 DEF All
<1>9. <<s, i>> \in All
  BY AllMember
<1>10. ASSUME NEW o \in All PROVE orders'[o[1]][o[2]] = IF o = <<s, i>> THEN r ELSE orders[o[1]][o[2]]
  <2>1. o = <<o[1], o[2]>> /\ o[1] \in Symbols /\ o[2] \in DOMAIN orders[o[1]]
    BY AllPairs
  <2>2. CASE o[1] = s
    <3>1. orders'[o[1]][o[2]] = new[o[2]]
      BY <1>5, <2>2
    <3>2. o = <<s, i>> <=> o[2] = i
      BY <2>1, <2>2
    <3> QED BY <1>3, <2>1, <2>2, <3>1, <3>2
  <2>3. CASE o[1] # s
    <3>1. o # <<s, i>>
      BY <2>3
    <3> QED BY <1>5, <2>1, <2>3, <3>1
  <2> QED BY <2>2, <2>3
<1>11. \A t \in Symbols : Len(orders'[t]) = Len(orders[t])
  BY <1>2, <1>5
<1> QED BY <1>6, <1>8, <1>9, <1>10, <1>11 DEF OrdersType, Get

\* One order more, the others are what they were.
LEMMA AddOrder ==
  ASSUME OrdersType, NEW s \in Symbols, NEW r \in Order,
         NEW n, n = Len(orders[s]) + 1,
         orders' = [orders EXCEPT ![s] = Append(@, r)]
  PROVE  /\ OrdersType'
         /\ n \in Nat /\ All' = All \cup {<<s, n>>} /\ <<s, n>> \notin All
         /\ Get(<<s, n>>)' = r
         /\ \A o \in All : Get(o)' = Get(o)
         /\ Len(orders'[s]) = n
         /\ \A t \in Symbols \ {s} : Len(orders'[t]) = Len(orders[t])
<1> DEFINE new == Append(orders[s], r)
<1>1. orders[s] \in Seq(Order) /\ DOMAIN orders[s] = 1..Len(orders[s]) /\ Len(orders[s]) \in Nat
  BY LenProperties DEF OrdersType
<1>2. new \in Seq(Order) /\ Len(new) = n /\ new[n] = r
      /\ \A j \in 1..Len(orders[s]) : new[j] = orders[s][j]
  BY <1>1, AppendProperties
<1>3. DOMAIN new = 1..n
  BY <1>2, LenProperties
<1>4. 1..n = (1..Len(orders[s])) \cup {n} /\ n \notin 1..Len(orders[s])
  BY <1>1
<1>5. orders' = [orders EXCEPT ![s] = new]
  OBVIOUS
<1> HIDE DEF new
<1>6. orders'[s] = new /\ \A t \in Symbols : t # s => orders'[t] = orders[t]
  BY <1>5 DEF OrdersType
<1>7. orders' \in [Symbols -> Seq(Order)]
  BY <1>2, <1>5 DEF OrdersType
<1>8. DOMAIN orders'[s] = DOMAIN orders[s] \cup {n}
  BY <1>1, <1>3, <1>4, <1>6
<1>9. All' = All \cup {<<s, n>>}
  <2>1. \A t \in Symbols : t # s => DOMAIN orders'[t] = DOMAIN orders[t]
    BY <1>6
  <2>2. All' = UNION {{<<t, i>> : i \in DOMAIN orders'[t]} : t \in Symbols}
    BY DEF All
  <2>3. ASSUME NEW t \in Symbols, NEW i \in DOMAIN orders'[t] PROVE <<t, i>> \in All \cup {<<s, n>>}
    BY <1>8, <2>1, AllMember
  <2>4. ASSUME NEW t \in Symbols, NEW i \in DOMAIN orders[t] PROVE <<t, i>> \in All'
    BY <1>8, <2>1, <2>2
  <2>5. <<s, n>> \in All'
    BY <1>8, <2>2
  <2>6. All \subseteq All'
    BY <2>4 DEF All
  <2>7. All' \subseteq All \cup {<<s, n>>}
    BY <2>2, <2>3
  <2> QED BY <2>5, <2>6, <2>7
<1>10. <<s, n>> \notin All
  BY <1>1, <1>4, AllMember
<1>11. orders'[s][n] = r
  BY <1>2, <1>6
<1>12. ASSUME NEW o \in All PROVE orders'[o[1]][o[2]] = orders[o[1]][o[2]]
  <2>1. o[1] \in Symbols /\ o[2] \in DOMAIN orders[o[1]]
    BY AllPairs
  <2> QED BY <1>1, <1>2, <1>6, <2>1
<1>13. Len(orders'[s]) = n /\ \A t \in Symbols : t # s => Len(orders'[t]) = Len(orders[t])
  BY <1>2, <1>6
<1>14. Get(<<s, n>>)' = r /\ \A o \in All : Get(o)' = Get(o)
  BY <1>11, <1>12 DEF Get
<1>15. n \in Nat
  BY <1>1
<1> QED BY <1>7, <1>9, <1>10, <1>13, <1>14, <1>15 DEF OrdersType

-----------------------------------------------------------------------------
(* The sums *)

\* What an order adds to the buying power, and to the cash flow.
CashOf(r) ==
  IF r.side = "buy" /\ r.st \in Live THEN -r.price
  ELSE IF r.side = "sell" /\ r.st \in Executed THEN r.price ELSE 0
FlowOf(r) ==
  IF r.row /\ r.today /\ r.st \in Known THEN (IF r.side = "sell" THEN r.price ELSE -r.price) ELSE 0

Cash == [o \in All |-> CashOf(Get(o))]
Flows == [o \in All |-> FlowOf(Get(o))]
Unseen == [o \in All |-> Get(o).unseen]

\* A set of orders that Of selects is a set of orders.
LEMMA OfSubset ==
  \A side, sts : Of(side, sts) \subseteq All
BY DEF Of

\* The price of a set of orders is the sum over all orders of the price of those in the set.
LEMMA ValueIsSum ==
  ASSUME OrdersType, NEW S \in SUBSET All,
         NEW g, \A o \in All : g[o] = IF o \in S THEN Get(o).price ELSE 0
  PROVE  Value(S) = SumFunctionOnSet(g, All) /\ Value(S) \in Int
<1> DEFINE f == [o \in S |-> Get(o).price]
<1>1. \A o \in S : f[o] = Get(o).price /\ Get(o).price \in Int
  BY GetType DEF Order
<1>2. IsFiniteSet(All) /\ IsFiniteSet(S)
  BY AllFinite, FS_Subset
<1>3. Value(S) = SumFunctionOnSet(f, S)
  BY DEF Value
<1> HIDE DEF f
<1>4. SumFunctionOnSet(g, All) = SumFunctionOnSet(f, S)
  <2>1. (\A o \in S : f[o] \in Int /\ g[o] = f[o]) /\ \A o \in All \ S : g[o] = 0
    BY <1>1
  <2> QED BY <1>2, <2>1, SumFilter
<1>5. SumFunctionOnSet(f, S) \in Int
  BY <1>1, <1>2, SumInt
<1> QED BY <1>3, <1>4, <1>5

\* The terms are integers.
LEMMA TermTypes ==
  ASSUME OrdersType
  PROVE  \A o \in All : Cash[o] \in Int /\ Flows[o] \in Int /\ Unseen[o] \in Nat
<1> TAKE o \in All
<1>1. Get(o) \in Order
  BY GetType
<1>2. Get(o).price \in Nat /\ Get(o).unseen \in Nat
  BY <1>1 DEF Order
<1>3. CashOf(Get(o)) \in Int /\ FlowOf(Get(o)) \in Int
  BY <1>2 DEF CashOf, FlowOf
<1> QED BY <1>2, <1>3 DEF Cash, Flows, Unseen

\* The buying power is what the day began with and what each order adds.
LEMMA BuyingPowerIsSum ==
  ASSUME OrdersType
  PROVE  /\ BuyingPower = Power + SumFunctionOnSet(Cash, All)
         /\ SumFunctionOnSet(Cash, All) \in Int /\ BuyingPower \in Int
<1> DEFINE B == Of("buy", {"working"} \cup Executed)
           S == Of("sell", Executed)
           b == [o \in All |-> IF o \in B THEN Get(o).price ELSE 0]
           s == [o \in All |-> IF o \in S THEN Get(o).price ELSE 0]
<1>1. B \in SUBSET All /\ S \in SUBSET All
  BY OfSubset
<1>2. IsFiniteSet(All)
  BY AllFinite
<1>3. Value(B) = SumFunctionOnSet(b, All) /\ Value(B) \in Int
  <2>1. \A o \in All : b[o] = IF o \in B THEN Get(o).price ELSE 0
    OBVIOUS
  <2> HIDE DEF b, B
  <2> QED BY <1>1, <2>1, ValueIsSum
<1>4. Value(S) = SumFunctionOnSet(s, All) /\ Value(S) \in Int
  <2>1. \A o \in All : s[o] = IF o \in S THEN Get(o).price ELSE 0
    OBVIOUS
  <2> HIDE DEF s, S
  <2> QED BY <1>1, <2>1, ValueIsSum
<1>5. \A o \in All : b[o] \in Int /\ s[o] \in Int /\ Cash[o] \in Int
  BY TermTypes, GetType DEF Order
<1>6. ASSUME NEW o \in All PROVE s[o] = b[o] + Cash[o]
  <2>1. Get(o) \in Order
    BY GetType
  <2>2. Get(o).price \in Nat /\ Get(o).side \in {"buy", "sell"}
    BY <2>1 DEF Order
  <2>3. o \in B <=> Get(o).side = "buy" /\ Get(o).st \in Live
    BY DEF Of, Live
  <2>4. o \in S <=> Get(o).side = "sell" /\ Get(o).st \in Executed
    BY DEF Of
  <2>5. Cash[o] = CashOf(Get(o))
    BY DEF Cash
  <2> HIDE DEF B, S
  <2>6. Get(o).side = "buy" \/ Get(o).side = "sell"
    BY <2>2
  <2> QED BY <2>2, <2>3, <2>4, <2>5, <2>6 DEF CashOf
<1> HIDE DEF b, s
<1>7. SumFunctionOnSet(s, All) = SumFunctionOnSet(b, All) + SumFunctionOnSet(Cash, All)
  BY <1>2, <1>5, <1>6, SumPlus
<1>8. SumFunctionOnSet(Cash, All) \in Int
  BY <1>2, <1>5, SumInt
<1>9. BuyingPower = Power - Value(B) + Value(S)
  BY DEF BuyingPower
<1> HIDE DEF B, S
<1> QED BY <1>3, <1>4, <1>7, <1>8, <1>9, LimitsAssumption DEF LimitsAssumption

\* The cash flow is what each order adds.
LEMMA FlowIsSum ==
  ASSUME OrdersType
  PROVE  Flow = SumFunctionOnSet(Flows, All) /\ Flow \in Int
<1> DEFINE B == Joined("buy")
           S == Joined("sell")
           b == [o \in All |-> IF o \in B THEN Get(o).price ELSE 0]
           s == [o \in All |-> IF o \in S THEN Get(o).price ELSE 0]
<1>1. B \in SUBSET All /\ S \in SUBSET All
  BY OfSubset DEF Joined
<1>2. IsFiniteSet(All)
  BY AllFinite
<1>3. Value(B) = SumFunctionOnSet(b, All) /\ Value(B) \in Int
  <2>1. \A o \in All : b[o] = IF o \in B THEN Get(o).price ELSE 0
    OBVIOUS
  <2> HIDE DEF b, B
  <2> QED BY <1>1, <2>1, ValueIsSum
<1>4. Value(S) = SumFunctionOnSet(s, All) /\ Value(S) \in Int
  <2>1. \A o \in All : s[o] = IF o \in S THEN Get(o).price ELSE 0
    OBVIOUS
  <2> HIDE DEF s, S
  <2> QED BY <1>1, <2>1, ValueIsSum
<1>5. \A o \in All : b[o] \in Int /\ s[o] \in Int /\ Flows[o] \in Int
  BY TermTypes, GetType DEF Order
<1>6. ASSUME NEW o \in All PROVE s[o] = b[o] + Flows[o]
  <2>1. Get(o) \in Order
    BY GetType
  <2>2. Get(o).price \in Nat /\ Get(o).side \in {"buy", "sell"}
    BY <2>1 DEF Order
  <2>3. o \in B <=> Get(o).side = "buy" /\ Get(o).st \in Known /\ Get(o).row /\ Get(o).today
    BY DEF Of, Joined
  <2>4. o \in S <=> Get(o).side = "sell" /\ Get(o).st \in Known /\ Get(o).row /\ Get(o).today
    BY DEF Of, Joined
  <2>5. Flows[o] = FlowOf(Get(o))
    BY DEF Flows
  <2> HIDE DEF B, S
  <2>6. Get(o).side = "buy" \/ Get(o).side = "sell"
    BY <2>2
  <2> QED BY <2>2, <2>3, <2>4, <2>5, <2>6 DEF FlowOf
<1> HIDE DEF b, s
<1>7. SumFunctionOnSet(s, All) = SumFunctionOnSet(b, All) + SumFunctionOnSet(Flows, All)
  BY <1>2, <1>5, <1>6, SumPlus
<1>8. SumFunctionOnSet(Flows, All) \in Int
  BY <1>2, <1>5, SumInt
<1>9. Flow = Value(S) - Value(B)
  BY DEF Flow
<1> HIDE DEF B, S
<1> QED BY <1>3, <1>4, <1>7, <1>8, <1>9

\* What the orders did not see, summed.
UnseenCost == SumFunctionOnSet(Unseen, All)

LEMMA UnseenCostType ==
  ASSUME OrdersType
  PROVE  UnseenCost \in Nat
BY AllFinite, TermTypes, SumNat DEF UnseenCost

\* The step makes the order a the record r and leaves the others alone.
Changes(a, r) ==
  /\ OrdersType /\ OrdersType'
  /\ r \in Order /\ a \in All
  /\ All' = All
  /\ \A o \in All : Get(o)' = IF o = a THEN r ELSE Get(o)

\* The step adds the order a with the record r and leaves the others alone.
Adds(a, r) ==
  /\ OrdersType /\ OrdersType'
  /\ r \in Order /\ a \notin All
  /\ All' = All \cup {a}
  /\ Get(a)' = r
  /\ \A o \in All : Get(o)' = Get(o)

\* The sums change by what the order does.
LEMMA ChangedSums ==
  ASSUME NEW a, NEW r, Changes(a, r)
  PROVE  /\ BuyingPower' = BuyingPower - CashOf(Get(a)) + CashOf(r)
         /\ Flow' = Flow - FlowOf(Get(a)) + FlowOf(r)
         /\ r.unseen = Get(a).unseen => UnseenCost' = UnseenCost
<1>1. OrdersType /\ OrdersType' /\ r \in Order /\ a \in All /\ All' = All
  BY DEF Changes
<1>2. \A o \in All : Get(o)' = IF o = a THEN r ELSE Get(o)
  BY DEF Changes
<1>3. IsFiniteSet(All)
  BY <1>1, AllFinite
<1>4. \A o \in All : Cash[o] \in Int /\ Flows[o] \in Int /\ Unseen[o] \in Int
  BY <1>1, TermTypes
<1>5. Cash[a] = CashOf(Get(a)) /\ Flows[a] = FlowOf(Get(a)) /\ Unseen[a] = Get(a).unseen
  BY <1>1 DEF Cash, Flows, Unseen
<1>6. r.price \in Nat /\ r.unseen \in Nat
  BY <1>1 DEF Order
<1>7. CashOf(r) \in Int /\ FlowOf(r) \in Int
  BY <1>6 DEF CashOf, FlowOf
<1>8. /\ Cash' = [o \in All |-> CashOf(Get(o)')]
      /\ Flows' = [o \in All |-> FlowOf(Get(o)')]
      /\ Unseen' = [o \in All |-> Get(o)'.unseen]
  BY <1>1 DEF Cash, Flows, Unseen, CashOf, FlowOf
<1>9. Cash'[a] = CashOf(r) /\ Flows'[a] = FlowOf(r) /\ Unseen'[a] = r.unseen
  BY <1>1, <1>2, <1>8
<1>10. \A o \in All \ {a} : Cash'[o] = Cash[o] /\ Flows'[o] = Flows[o] /\ Unseen'[o] = Unseen[o]
  BY <1>2, <1>8 DEF Cash, Flows, Unseen
<1>11. SumFunctionOnSet(Cash', All) = SumFunctionOnSet(Cash, All) - CashOf(Get(a)) + CashOf(r)
  BY <1>1, <1>3, <1>4, <1>5, <1>7, <1>9, <1>10, SumChange
<1>12. SumFunctionOnSet(Flows', All) = SumFunctionOnSet(Flows, All) - FlowOf(Get(a)) + FlowOf(r)
  BY <1>1, <1>3, <1>4, <1>5, <1>7, <1>9, <1>10, SumChange
<1>13. BuyingPower = Power + SumFunctionOnSet(Cash, All) /\ SumFunctionOnSet(Cash, All) \in Int
  BY <1>1, BuyingPowerIsSum
<1>14. BuyingPower' = Power + SumFunctionOnSet(Cash', All)
  <2>1. (OrdersType => BuyingPower = Power + SumFunctionOnSet(Cash, All))'
    BY BuyingPowerIsSum, PTL
  <2> QED BY <1>1, <2>1
<1>15. Flow = SumFunctionOnSet(Flows, All) /\ Flow' = SumFunctionOnSet(Flows', All)
  <2>1. (OrdersType => Flow = SumFunctionOnSet(Flows, All))'
    BY FlowIsSum, PTL
  <2> QED BY <1>1, <2>1, FlowIsSum
<1>16. ASSUME r.unseen = Get(a).unseen PROVE UnseenCost' = UnseenCost
  <2>1. \A o \in All : Unseen'[o] = Unseen[o]
    BY <1>5, <1>9, <1>10, <1>16
  <2>2. SumFunctionOnSet(Unseen', All) = SumFunctionOnSet(Unseen, All)
    BY <1>3, <2>1, SumSame
  <2> QED BY <1>1, <2>2 DEF UnseenCost
<1>17. CashOf(Get(a)) \in Int
  BY <1>1, <1>4, <1>5
<1>18. BuyingPower' = BuyingPower - CashOf(Get(a)) + CashOf(r)
  BY <1>7, <1>11, <1>13, <1>14, <1>17, LimitsAssumption DEF LimitsAssumption
<1> QED BY <1>12, <1>15, <1>16, <1>18

LEMMA AddedSums ==
  ASSUME NEW a, NEW r, Adds(a, r)
  PROVE  /\ BuyingPower' = BuyingPower + CashOf(r)
         /\ Flow' = Flow + FlowOf(r)
         /\ UnseenCost' = UnseenCost + r.unseen
<1>1. OrdersType /\ OrdersType' /\ r \in Order /\ a \notin All /\ All' = All \cup {a}
  BY DEF Adds
<1>2. Get(a)' = r /\ \A o \in All : Get(o)' = Get(o)
  BY DEF Adds
<1>3. IsFiniteSet(All)
  BY <1>1, AllFinite
<1>4. \A o \in All : Cash[o] \in Int /\ Flows[o] \in Int /\ Unseen[o] \in Int
  BY <1>1, TermTypes
<1>5. r.price \in Nat /\ r.unseen \in Nat
  BY <1>1 DEF Order
<1>6. CashOf(r) \in Int /\ FlowOf(r) \in Int
  BY <1>5 DEF CashOf, FlowOf
<1>7. /\ Cash' = [o \in All \cup {a} |-> CashOf(Get(o)')]
      /\ Flows' = [o \in All \cup {a} |-> FlowOf(Get(o)')]
      /\ Unseen' = [o \in All \cup {a} |-> Get(o)'.unseen]
  BY <1>1 DEF Cash, Flows, Unseen, CashOf, FlowOf
<1>8. Cash'[a] = CashOf(r) /\ Flows'[a] = FlowOf(r) /\ Unseen'[a] = r.unseen
  BY <1>2, <1>7
<1>9. \A o \in All : Cash'[o] = Cash[o] /\ Flows'[o] = Flows[o] /\ Unseen'[o] = Unseen[o]
  BY <1>2, <1>7 DEF Cash, Flows, Unseen
<1>10. \A o \in All \cup {a} : Cash'[o] \in Int /\ Flows'[o] \in Int /\ Unseen'[o] \in Int
  BY <1>4, <1>5, <1>6, <1>8, <1>9
<1>11. /\ SumFunctionOnSet(Cash', All) = SumFunctionOnSet(Cash, All)
       /\ SumFunctionOnSet(Flows', All) = SumFunctionOnSet(Flows, All)
       /\ SumFunctionOnSet(Unseen', All) = SumFunctionOnSet(Unseen, All)
  BY <1>3, <1>9, SumSame
<1>12. SumFunctionOnSet(Cash', All \cup {a}) = CashOf(r) + SumFunctionOnSet(Cash', All)
  <2> DEFINE f == Cash'
  <2>1. \A x \in All \cup {a} : f[x] \in Int
    BY <1>10
  <2>2. f[a] = CashOf(r) /\ a \notin All
    BY <1>1, <1>8
  <2>3. SumFunctionOnSet(f, All \cup {a}) = f[a] + SumFunctionOnSet(f, All)
    <3> HIDE DEF f
    <3> QED BY <1>3, <2>1, <2>2, SumAdd
  <2> QED BY <2>2, <2>3
<1>13. SumFunctionOnSet(Flows', All \cup {a}) = FlowOf(r) + SumFunctionOnSet(Flows', All)
  <2> DEFINE f == Flows'
  <2>1. \A x \in All \cup {a} : f[x] \in Int
    BY <1>10
  <2>2. f[a] = FlowOf(r) /\ a \notin All
    BY <1>1, <1>8
  <2>3. SumFunctionOnSet(f, All \cup {a}) = f[a] + SumFunctionOnSet(f, All)
    <3> HIDE DEF f
    <3> QED BY <1>3, <2>1, <2>2, SumAdd
  <2> QED BY <2>2, <2>3
<1>14. SumFunctionOnSet(Unseen', All \cup {a}) = r.unseen + SumFunctionOnSet(Unseen', All)
  <2> DEFINE f == Unseen'
  <2>1. \A x \in All \cup {a} : f[x] \in Int
    BY <1>10
  <2>2. f[a] = r.unseen /\ a \notin All
    BY <1>1, <1>8
  <2>3. SumFunctionOnSet(f, All \cup {a}) = f[a] + SumFunctionOnSet(f, All)
    <3> HIDE DEF f
    <3> QED BY <1>3, <2>1, <2>2, SumAdd
  <2> QED BY <2>2, <2>3
<1>15. BuyingPower = Power + SumFunctionOnSet(Cash, All) /\ SumFunctionOnSet(Cash, All) \in Int
  BY <1>1, BuyingPowerIsSum
<1>16. BuyingPower' = Power + SumFunctionOnSet(Cash', All')
  <2>1. (OrdersType => BuyingPower = Power + SumFunctionOnSet(Cash, All))'
    BY BuyingPowerIsSum, PTL
  <2> QED BY <1>1, <2>1
<1>17. Flow = SumFunctionOnSet(Flows, All) /\ Flow \in Int /\ Flow' = SumFunctionOnSet(Flows', All')
  <2>1. (OrdersType => Flow = SumFunctionOnSet(Flows, All))'
    BY FlowIsSum, PTL
  <2> QED BY <1>1, <2>1, FlowIsSum
<1>18. BuyingPower' = BuyingPower + CashOf(r)
  BY <1>1, <1>6, <1>11, <1>12, <1>15, <1>16, LimitsAssumption DEF LimitsAssumption
<1>19. Flow' = Flow + FlowOf(r)
  BY <1>1, <1>6, <1>11, <1>13, <1>17
<1>20. UnseenCost' = UnseenCost + r.unseen
  <2>1. UnseenCost = SumFunctionOnSet(Unseen, All) /\ UnseenCost' = SumFunctionOnSet(Unseen', All')
    BY DEF UnseenCost
  <2>2. UnseenCost \in Nat
    BY <1>1, UnseenCostType
  <2> QED BY <1>1, <1>5, <1>11, <1>14, <2>1, <2>2
<1> QED BY <1>18, <1>19, <1>20

-----------------------------------------------------------------------------
(* The inductive invariant *)

Reading == {"flow", "flowRead", "limited", "account", "quote"}

\* A call for an entry that has not sent its order; one that passed the limits.
Ordering(s) == call[s] \in Reading \/ (call[s] = "place" /\ s \in wants)
Admitted(s) == call[s] \in {"account", "quote"} \/ (call[s] = "place" /\ s \in wants)

Last(s) == <<s, Len(orders[s])>>

\* Where a call is and what it has done: an entry is wanted until it returns, and
\* log_order is for the last order of the symbol, which has no row yet.
CallInv ==
  /\ \A s \in Symbols : call[s] \in Reading => s \in wants
  /\ \A s \in Symbols : call[s] = "log" =>
       /\ Last(s) \in All
       /\ ~Get(Last(s)).row
       /\ Get(Last(s)).side = "buy" => s \in wants

\* The orders of a symbol before one of them.
Before(o, side, sts) == {p \in Of(side, sts) : p[1] = o[1] /\ p[2] < o[2]}

\* Each sell that may execute has a share of its own to sell, bought before it.
SellsCovered ==
  \A o \in Of("sell", Live) :
    Cardinality(Before(o, "sell", Live)) < Cardinality(Before(o, "buy", Executed))

\* What is left of the buying power a call has read.
PowerInv ==
  \A s \in Symbols :
    /\ call[s] = "quote" => BuyingPower >= power[s] - unseen[s]
    /\ call[s] = "place" /\ s \in wants =>
         BuyingPower - price[s] >= -unseen[s] \/ price[s] <= unseen[s]

\* A buy that no other entry was in flight with, until it is booked.
Pending(o) ==
  /\ Get(o).side = "buy" /\ ~Get(o).crowd
  /\ Get(o).st \in {"working", "filled"} \/ (call[o[1]] = "log" /\ o = Last(o[1]))

\* There is at most one, and then no call that will make another.
Alone ==
  /\ \A s, t \in Symbols : Ordering(s) /\ ~crowd[s] /\ Ordering(t) /\ ~crowd[t] => s = t
  /\ \A s \in Symbols, o \in All : ~(Ordering(s) /\ ~crowd[s] /\ Pending(o))
  /\ \A o, p \in All : Pending(o) /\ Pending(p) => o = p

\* Between the reading of the flow and the booking of the buy the flow only rises,
\* or begins again at nothing on a new day.
FlowInv ==
  ~Crowded =>
    /\ \A s \in Symbols : call[s] = "flowRead" /\ ~crowd[s] => Flow >= pnl[s] \/ Flow >= 0
    /\ \A s \in Symbols : Admitted(s) /\ ~crowd[s] => Flow > -Limit
    /\ \A o \in All : Pending(o) => Flow > -Limit

Positions == {s \in Symbols : Net(s, Executed) > 0}
\* The positions a strategy may have, those the tracker does not know included.
MaxHoldings == MaxPositions + Cardinality(Missed)

\* What holds of entries that do not overlap: between the count and the booking
\* of the buy no other position is opened.
Counts ==
  /\ \A s \in Symbols : call[s] \in {"flow", "flowRead"} /\ ~crowd[s] =>
       Cardinality(Positions) <= count[s] + Cardinality(Missed)
  /\ \A s \in Symbols : Admitted(s) /\ ~crowd[s] => Cardinality(Positions) < MaxHoldings
  /\ \A o \in All : Pending(o) /\ Get(o).st = "working" => Cardinality(Positions \cup {o[1]}) <= MaxHoldings
  /\ Cardinality(Positions) <= MaxHoldings
CountInv == ~Crowded => Counts

\* The loss is no greater than what the flow shows and what it leaves out.
LossInv == \A s \in Symbols : call[s] = "flowRead" => loss[s] + carried[s] >= pnl[s]

BaseInv == TypeOK /\ CallInv /\ SellsCovered

-----------------------------------------------------------------------------
(* What the actions do to the orders *)

\* Place adds an order.
LEMMA PlaceAdds ==
  ASSUME TypeOK, NEW s \in Symbols, Place(s)
  PROVE  \E n \in Nat, r \in Order :
           /\ Adds(<<s, n>>, r)
           /\ n = Len(orders[s]) + 1 /\ Len(orders'[s]) = n
           /\ \A t \in Symbols \ {s} : Len(orders'[t]) = Len(orders[t])
           /\ r.side = (IF s \in wants THEN "buy" ELSE "sell") /\ r.price = price[s]
           /\ r.st = (IF s \in wants \/ Held(s) > 0 THEN "working" ELSE "dead")
           /\ ~r.row /\ ~r.today /\ r.crowd = crowd[s] /\ r.unseen = unseen[s]
<1>1. OrdersType
  BY DEF TypeOK, OrdersType
<1> DEFINE r == [side |-> IF s \in wants THEN "buy" ELSE "sell", price |-> price[s],
                 st |-> IF s \in wants \/ Held(s) > 0 THEN "working" ELSE "dead",
                 row |-> FALSE, today |-> FALSE, crowd |-> crowd[s], unseen |-> unseen[s]]
<1>2. orders' = [orders EXCEPT ![s] = Append(@, r)]
  BY DEF Place
<1>3. price[s] \in Nat /\ unseen[s] \in Nat
  BY DEF TypeOK
<1>4. crowd[s] \in BOOLEAN
  BY DEF TypeOK
<1>5. r \in Order
  BY <1>3, <1>4 DEF Order
<1>6. PICK q \in Order : q = r
  BY <1>5
<1>7. PICK n : n = Len(orders[s]) + 1
  OBVIOUS
<1>8. /\ q.side = (IF s \in wants THEN "buy" ELSE "sell") /\ q.price = price[s]
      /\ q.st = (IF s \in wants \/ Held(s) > 0 THEN "working" ELSE "dead")
      /\ ~q.row /\ ~q.today /\ q.crowd = crowd[s] /\ q.unseen = unseen[s]
  BY <1>6
<1>9. orders' = [orders EXCEPT ![s] = Append(@, q)]
  BY <1>2, <1>6
<1> HIDE DEF r
<1>10. /\ OrdersType'
       /\ n \in Nat /\ All' = All \cup {<<s, n>>} /\ <<s, n>> \notin All
       /\ Get(<<s, n>>)' = q
       /\ \A o \in All : Get(o)' = Get(o)
       /\ Len(orders'[s]) = n
       /\ \A t \in Symbols \ {s} : Len(orders'[t]) = Len(orders[t])
  BY <1>1, <1>7, <1>9, AddOrder
<1>11. Adds(<<s, n>>, q)
  BY <1>1, <1>10 DEF Adds
<1> QED BY <1>7, <1>8, <1>10, <1>11

\* A step that replaces an order changes it in the sense above.
LEMMA ReplaceChanges ==
  ASSUME OrdersType, NEW s \in Symbols, NEW i \in DOMAIN orders[s], NEW r \in Order,
         orders' = [orders EXCEPT ![s][i] = r]
  PROVE  Changes(<<s, i>>, r) /\ \A t \in Symbols : Len(orders'[t]) = Len(orders[t])
<1>1. /\ OrdersType' /\ All' = All /\ <<s, i>> \in All
      /\ \A o \in All : Get(o)' = IF o = <<s, i>> THEN r ELSE Get(o)
      /\ \A t \in Symbols : Len(orders'[t]) = Len(orders[t])
  BY ChangeOrder
<1> QED BY <1>1 DEF Changes

\* log_order gives the last order of the symbol its row.
LEMMA LogChanges ==
  ASSUME TypeOK, CallInv, NEW s \in Symbols, Log(s)
  PROVE  \E n \in Nat, r \in Order :
           /\ n = Len(orders[s]) /\ <<s, n>> \in All
           /\ Changes(<<s, n>>, r)
           /\ r.row /\ r.side = Get(<<s, n>>).side /\ r.price = Get(<<s, n>>).price
           /\ r.st = Get(<<s, n>>).st /\ r.today = Get(<<s, n>>).today
           /\ r.crowd = Get(<<s, n>>).crowd /\ r.unseen = Get(<<s, n>>).unseen
           /\ ~Get(<<s, n>>).row
           /\ \A t \in Symbols : Len(orders'[t]) = Len(orders[t])
<1>1. OrdersType
  BY DEF TypeOK, OrdersType
<1>2. PICK n : n = Len(orders[s])
  OBVIOUS
<1>3. <<s, n>> \in All /\ ~Get(<<s, n>>).row
  BY <1>2 DEF CallInv, Log, Last
<1>4. Get(<<s, n>>) \in Order /\ Get(<<s, n>>) = orders[s][n] /\ n \in Nat
  BY <1>1, <1>3, GetType DEF Get
<1>5. n \in DOMAIN orders[s]
  BY <1>3, AllMember
<1>6. PICK r : r = [Get(<<s, n>>) EXCEPT !.row = TRUE]
  OBVIOUS
<1>7. r \in Order
  BY <1>4, <1>6 DEF Order
<1>8. /\ r.st = Get(<<s, n>>).st /\ r.side = Get(<<s, n>>).side /\ r.price = Get(<<s, n>>).price
      /\ r.row /\ r.today = Get(<<s, n>>).today
      /\ r.crowd = Get(<<s, n>>).crowd /\ r.unseen = Get(<<s, n>>).unseen
  BY <1>4, <1>6 DEF Order
<1>9. orders' = [orders EXCEPT ![s][n] = r]
  BY <1>2, <1>4, <1>6 DEF Log
<1>10. /\ OrdersType' /\ All' = All
       /\ \A o \in All : Get(o)' = IF o = <<s, n>> THEN r ELSE Get(o)
       /\ \A t \in Symbols : Len(orders'[t]) = Len(orders[t])
  BY <1>1, <1>5, <1>7, <1>9, ChangeOrder
<1>11. Changes(<<s, n>>, r)
  BY <1>1, <1>3, <1>7, <1>10 DEF Changes
<1> QED BY <1>2, <1>3, <1>4, <1>7, <1>8, <1>10, <1>11

-----------------------------------------------------------------------------
(* Sells are covered *)

\* Orders of a symbol before another are finitely many.
BeforeCountable ==
  \A o, side, sts : /\ IsFiniteSet(Before(o, side, sts)) /\ Before(o, side, sts) \subseteq All
                    /\ Cardinality(Before(o, side, sts)) \in Nat

LEMMA BeforeFinite ==
  ASSUME OrdersType
  PROVE  BeforeCountable
<1> SUFFICES ASSUME NEW o, NEW side, NEW sts
             PROVE  /\ IsFiniteSet(Before(o, side, sts)) /\ Before(o, side, sts) \subseteq All
                    /\ Cardinality(Before(o, side, sts)) \in Nat
  BY DEF BeforeCountable
<1>1. Before(o, side, sts) \subseteq All
  BY DEF Before, Of
<1>2. IsFiniteSet(Before(o, side, sts))
  BY <1>1, AllFinite, FS_Subset
<1> QED BY <1>1, <1>2, FS_CardinalityType

LEMMA MarkKeepsCovered ==
  ASSUME SellsCovered, NEW a, NEW r, Changes(a, r),
         r.side = Get(a).side,
         r.st \in Live => Get(a).st \in Live,
         Get(a).st \in Executed => r.st \in Executed
  PROVE  SellsCovered'
<1>1. All' = All /\ a \in All /\ \A o \in All : Get(o)' = IF o = a THEN r ELSE Get(o)
  BY DEF Changes
<1>2. OrdersType /\ OrdersType'
  BY DEF Changes
<1>3. Of("sell", Live)' \subseteq Of("sell", Live)
  BY <1>1 DEF Of, Live, Executed
<1>4. Of("buy", Executed) \subseteq Of("buy", Executed)'
  BY <1>1 DEF Of, Executed
<1> SUFFICES ASSUME NEW o \in Of("sell", Live)'
             PROVE  (Cardinality(Before(o, "sell", Live)) < Cardinality(Before(o, "buy", Executed)))'
  BY DEF SellsCovered, Live, Executed
<1>5. Cardinality(Before(o, "sell", Live)) < Cardinality(Before(o, "buy", Executed))
  BY <1>3 DEF SellsCovered
<1>6. Before(o, "sell", Live)' \subseteq Before(o, "sell", Live)
  BY <1>3 DEF Before
<1>7. Before(o, "buy", Executed) \subseteq Before(o, "buy", Executed)'
  BY <1>4 DEF Before
<1>8. Cardinality(Before(o, "sell", Live)') <= Cardinality(Before(o, "sell", Live))
  BY <1>2, <1>6, BeforeFinite, FS_Subset DEF BeforeCountable
<1>9. IsFiniteSet(Before(o, "buy", Executed)') /\ Cardinality(Before(o, "buy", Executed)') \in Nat
      /\ Cardinality(Before(o, "sell", Live)') \in Nat
  <2>1. BeforeCountable'
    <3>1. (OrdersType => BeforeCountable)'
      BY BeforeFinite, PTL
    <3> QED BY <1>2, <3>1
  <2>2. IsFiniteSet(Before(o, "buy", Executed)') /\ Cardinality(Before(o, "buy", Executed)') \in Nat
    BY <2>1 DEF BeforeCountable, Executed
  <2>3. Cardinality(Before(o, "sell", Live)') \in Nat
    BY <2>1 DEF BeforeCountable, Live, Executed
  <2> QED BY <2>2, <2>3
<1>10. Cardinality(Before(o, "buy", Executed)) <= Cardinality(Before(o, "buy", Executed)')
  BY <1>7, <1>9, FS_Subset
<1>11. Cardinality(Before(o, "sell", Live)) \in Nat /\ Cardinality(Before(o, "buy", Executed)) \in Nat
  BY <1>2, BeforeFinite DEF BeforeCountable
<1> QED BY <1>5, <1>8, <1>9, <1>10, <1>11

LEMMA AddKeepsCovered ==
  ASSUME SellsCovered, NEW s \in Symbols, NEW n \in Nat, NEW r, Adds(<<s, n>>, r),
         \A o \in All : o[1] = s => o[2] < n,
         r.st \notin Executed,
         r.side = "sell" /\ r.st \in Live => Held(s) > 0
  PROVE  SellsCovered'
<1>1. /\ All' = All \cup {<<s, n>>} /\ <<s, n>> \notin All
      /\ Get(<<s, n>>)' = r /\ \A o \in All : Get(o)' = Get(o)
      /\ OrdersType
  BY DEF Adds
<1>2. \A o \in All : o[2] \in Nat
  BY <1>1, GetType
<1>3. \A side : Of(side, Executed)' = Of(side, Executed)
  BY <1>1 DEF Of, Executed
<1>4. Of("sell", Live)' \subseteq Of("sell", Live) \cup {<<s, n>>}
      /\ Of("sell", Live) \subseteq Of("sell", Live)'
  BY <1>1 DEF Of, Live, Executed
<1> SUFFICES ASSUME NEW o \in Of("sell", Live)'
             PROVE  (Cardinality(Before(o, "sell", Live)) < Cardinality(Before(o, "buy", Executed)))'
  BY DEF SellsCovered, Live, Executed
<1>5. CASE o \in Of("sell", Live)
  <2>1. o \in All
    BY <1>5 DEF Of
  <2>2. ~ (<<s, n>>[1] = o[1] /\ <<s, n>>[2] < o[2])
    BY <1>2, <2>1
  <2>3. Before(o, "sell", Live)' = Before(o, "sell", Live)
    BY <1>4, <2>2 DEF Before
  <2>4. Before(o, "buy", Executed)' = Before(o, "buy", Executed)
    BY <1>3 DEF Before, Executed
  <2> QED BY <1>5, <2>3, <2>4 DEF SellsCovered
<1>6. CASE o = <<s, n>>
  <2> DEFINE B == {p \in Of("buy", Executed) : p[1] = s}
             X == {p \in Of("sell", Executed) : p[1] = s}
             W == {p \in Of("sell", {"working"}) : p[1] = s}
  <2>1. Held(s) > 0
    <3>1. o \in Of("sell", Live)'
      OBVIOUS
    <3> QED BY <1>1, <1>6, <3>1 DEF Of, Live, Executed
  <2>2. Held(s) = Cardinality(B) - Cardinality(X) - Cardinality(W)
    BY DEF Held, Net
  <2>3. B \subseteq All /\ X \subseteq All /\ W \subseteq All
    BY DEF Of
  <2>4. X \cap W = {}
    BY DEF Of, Executed
  <2>5. Before(o, "buy", Executed)' = B
    <3>1. Before(o, "buy", Executed)' = {p \in Of("buy", Executed) : p[1] = s /\ p[2] < n}
      BY <1>3, <1>6 DEF Before, Executed
    <3> QED BY <2>3, <3>1
  <2>6. Before(o, "sell", Live)' = X \cup W
    <3>1. Before(o, "sell", Live)' = {p \in Of("sell", Live)' : p[1] = s /\ p[2] < n}
      BY <1>6 DEF Before, Live, Executed
    <3>2. ~ (n < n)
      OBVIOUS
    <3>3. {p \in Of("sell", Live)' : p[1] = s /\ p[2] < n} = {p \in Of("sell", Live) : p[1] = s /\ p[2] < n}
      BY <1>4, <3>2
    <3>4. {p \in Of("sell", Live) : p[1] = s /\ p[2] < n} = {p \in Of("sell", Live) : p[1] = s}
      BY DEF Of
    <3>5. {p \in Of("sell", Live) : p[1] = s} = X \cup W
      BY DEF Of, Live
    <3> QED BY <3>1, <3>3, <3>4, <3>5
  <2> HIDE DEF B, X, W
  <2>7. IsFiniteSet(B) /\ IsFiniteSet(X) /\ IsFiniteSet(W)
    BY <1>1, <2>3, AllFinite, FS_Subset
  <2>8. Cardinality(B) \in Nat /\ Cardinality(X) \in Nat /\ Cardinality(W) \in Nat
    BY <2>7, FS_CardinalityType
  <2>9. Cardinality(X \cup W) = Cardinality(X) + Cardinality(W)
    <3>1. Cardinality(X \cup W) = Cardinality(X) + Cardinality(W) - Cardinality(X \cap W)
      BY <2>7, FS_Union
    <3>2. Cardinality(X \cap W) = 0
      BY <2>4, FS_EmptySet
    <3> QED BY <2>8, <3>1, <3>2
  <2>10. Cardinality(X \cup W) < Cardinality(B)
    BY <2>1, <2>2, <2>8, <2>9
  <2>11. Cardinality(Before(o, "sell", Live)') = Cardinality(X \cup W)
         /\ Cardinality(Before(o, "buy", Executed)') = Cardinality(B)
    BY <2>5, <2>6
  <2>12. Cardinality(Before(o, "sell", Live)') < Cardinality(Before(o, "buy", Executed)')
    BY <2>10, <2>11
  <2> QED BY <2>12
<1> QED BY <1>4, <1>5, <1>6

-----------------------------------------------------------------------------
(* What a sell sold *)

\* Every sell that executed sold a share whose buy executed before it.
LEMMA BoughtExists ==
  ASSUME OrdersType, SellsCovered, NEW o \in Of("sell", Executed)
  PROVE  /\ Bought(o) \in Of("buy", Executed)
         /\ Bought(o)[1] = o[1] /\ Bought(o)[2] < o[2]
         /\ Cardinality(UpTo(Bought(o), "buy")) = Cardinality(UpTo(o, "sell"))
<1> DEFINE s == o[1]
           C(m) == {p \in Of("buy", Executed) : p[1] = s /\ p[2] <= m}
           k == Cardinality(UpTo(o, "sell"))
           T == {m \in Nat : k <= Cardinality(C(m))}
<1>1. IsFiniteSet(All) /\ \A p \in All : p[2] \in Nat /\ p[2] >= 1 /\ p = <<p[1], p[2]>>
  <2>1. \A p \in All : p[2] \in 1..Len(orders[p[1]]) /\ p[2] \in Nat /\ p = <<p[1], p[2]>>
    BY GetType, AllPairs
  <2> QED BY <2>1, AllFinite
<1>2. \A m : IsFiniteSet(C(m)) /\ Cardinality(C(m)) \in Nat
  <2> TAKE m
  <2>1. C(m) \subseteq All
    BY DEF Of
  <2> HIDE DEF C
  <2> QED BY <1>1, <2>1, FS_Subset, FS_CardinalityType
<1>3. o \in All /\ o[2] \in Nat /\ o[2] >= 1
  BY <1>1 DEF Of
<1>4. k \in Nat /\ k >= 1 /\ k <= Cardinality(C(o[2] - 1))
  <2> DEFINE E == Before(o, "sell", Executed)
             L == Before(o, "sell", Live)
             B == Before(o, "buy", Executed)
  <2>1. UpTo(o, "sell") = E \cup {o} /\ o \notin E
    <3>1. \A p \in All : p[1] = o[1] /\ p[2] = o[2] => p = o
      BY <1>1, <1>3
    <3>2. \A p \in All : p[2] <= o[2] <=> p[2] < o[2] \/ p[2] = o[2]
      BY <1>1, <1>3
    <3>3. ~ (o[2] < o[2])
      BY <1>3
    <3> QED BY <3>1, <3>2, <3>3 DEF UpTo, Before, Of
  <2>2. E \subseteq L
    BY DEF Before, Of, Live
  <2>3. IsFiniteSet(E) /\ IsFiniteSet(L) /\ Cardinality(E) \in Nat /\ Cardinality(L) \in Nat
        /\ Cardinality(B) \in Nat
    BY BeforeFinite DEF BeforeCountable
  <2>4. Cardinality(L) < Cardinality(B)
    BY DEF SellsCovered, Of, Live
  <2>5. C(o[2] - 1) = B
    <3>1. \A p \in All : p[2] <= o[2] - 1 <=> p[2] < o[2]
      BY <1>1, <1>3
    <3> QED BY <3>1 DEF Before, Of
  <2> HIDE DEF E, L, B, C
  <2>6. Cardinality(E) <= Cardinality(L)
    BY <2>2, <2>3, FS_Subset
  <2>7. Cardinality(E \cup {o}) = Cardinality(E) + 1
    BY <2>1, <2>3, FS_AddElement
  <2>8. k = Cardinality(E) + 1
    BY <2>1, <2>7
  <2>9. Cardinality(C(o[2] - 1)) = Cardinality(B)
    BY <2>5
  <2> HIDE DEF k
  <2> QED BY <2>3, <2>4, <2>6, <2>8, <2>9
<1>5. o[2] - 1 \in T
  <2> HIDE DEF C, k
  <2> QED BY <1>3, <1>4
<1>6. T \subseteq Nat
  OBVIOUS
<1> HIDE DEF T
<1>7. PICK m \in T : \A j \in T : m <= j
  BY <1>5, <1>6, LeastNat
<1>8. m \in Nat /\ k <= Cardinality(C(m)) /\ m <= o[2] - 1
  BY <1>5, <1>7 DEF T
<1>9. m # 0
  <2> SUFFICES ASSUME m = 0 PROVE FALSE
    OBVIOUS
  <2>1. C(m) = {}
    BY <1>1 DEF Of
  <2>2. Cardinality(C(m)) = 0
    BY <2>1, FS_EmptySet
  <2> HIDE DEF C, k
  <2> QED BY <1>4, <1>8, <2>2
<1>10. m - 1 \in Nat /\ Cardinality(C(m - 1)) < k
  <2>1. m - 1 \in Nat /\ ~ (m <= m - 1)
    BY <1>8, <1>9
  <2>2. m - 1 \notin T
    BY <1>7, <2>1
  <2>3. ~ (k <= Cardinality(C(m - 1)))
    BY <2>1, <2>2 DEF T
  <2> HIDE DEF C, k
  <2> QED BY <1>2, <1>4, <2>1, <2>3
<1> DEFINE b == <<s, m>>
<1>11. \A p \in All : p[2] <= m <=> p[2] <= m - 1 \/ p[2] = m
  BY <1>1, <1>8, <1>9
<1>12. C(m) \subseteq C(m - 1) \cup {b}
  BY <1>1, <1>11 DEF Of
<1>13. b \in C(m)
  <2> SUFFICES ASSUME b \notin C(m) PROVE FALSE
    OBVIOUS
  <2>1. C(m) \subseteq C(m - 1)
    BY <1>12
  <2> HIDE DEF C, k
  <2>2. Cardinality(C(m)) <= Cardinality(C(m - 1))
    BY <1>2, <2>1, FS_Subset
  <2> QED BY <1>2, <1>4, <1>8, <1>10, <2>2
<1>14. C(m - 1) \subseteq C(m) /\ b \notin C(m - 1)
  <2>1. ~ (m <= m - 1)
    BY <1>8
  <2> QED BY <1>11, <2>1 DEF Of
<1>15. Cardinality(C(m)) = Cardinality(C(m - 1)) + 1
  <2>1. C(m) = C(m - 1) \cup {b}
    BY <1>12, <1>13, <1>14
  <2> HIDE DEF C, b
  <2> QED BY <1>2, <1>14, <2>1, FS_AddElement
<1>16. Cardinality(C(m)) = k
  <2> HIDE DEF C, k
  <2> QED BY <1>2, <1>4, <1>8, <1>10, <1>15
<1>17. b \in Of("buy", Executed) /\ b[1] = o[1] /\ b[2] < o[2]
  BY <1>3, <1>8, <1>13
<1>18. \A p \in Of("buy", Executed) : p[1] = o[1] => UpTo(p, "buy") = C(p[2])
  BY DEF UpTo
<1>19. b[1] = o[1] /\ Cardinality(UpTo(b, "buy")) = Cardinality(UpTo(o, "sell"))
  BY <1>16, <1>17, <1>18
<1>20. /\ Bought(o) \in Of("buy", Executed) /\ Bought(o)[1] = o[1]
       /\ Cardinality(UpTo(Bought(o), "buy")) = Cardinality(UpTo(o, "sell"))
  BY <1>17, <1>19 DEF Bought
<1>21. Bought(o)[2] < o[2]
  <2> DEFINE c == Bought(o)
  <2>1. c \in All /\ c[2] \in Nat
    BY <1>1, <1>20 DEF Of
  <2>2. Cardinality(C(c[2])) = k
    BY <1>18, <1>20
  <2> SUFFICES ASSUME ~ (c[2] < o[2]) PROVE FALSE
    OBVIOUS
  <2>3. c \in C(c[2]) /\ c \notin C(m)
    <3>1. c[2] <= c[2] /\ ~ (c[2] <= m)
      BY <1>3, <1>8, <2>1
    <3> QED BY <1>20, <3>1
  <2>4. C(m) \subseteq C(c[2])
    <3>1. \A p \in All : p[2] <= m => p[2] <= c[2]
      BY <1>1, <1>3, <1>8, <2>1
    <3> QED BY <3>1 DEF Of
  <2>5. C(m) # C(c[2])
    BY <2>3
  <2> HIDE DEF C, k, c
  <2>6. Cardinality(C(m)) < Cardinality(C(c[2]))
    BY <1>2, <2>4, <2>5, FS_Subset
  <2> QED BY <1>2, <1>16, <2>2, <2>6
<1> QED BY <1>20, <1>21

\* No share is sold twice.
LEMMA BoughtInjective ==
  ASSUME OrdersType, SellsCovered,
         NEW o \in Of("sell", Executed), NEW p \in Of("sell", Executed), Bought(o) = Bought(p)
  PROVE  o = p
<1>1. \A q \in All : q[2] \in Nat /\ q = <<q[1], q[2]>>
  BY GetType, AllPairs
<1>2. o \in All /\ p \in All
  BY DEF Of
<1>3. o[1] = p[1] /\ Cardinality(UpTo(o, "sell")) = Cardinality(UpTo(p, "sell"))
  BY BoughtExists
<1>4. ASSUME NEW q \in Of("sell", Executed), NEW r \in Of("sell", Executed), q[1] = r[1], q[2] < r[2]
      PROVE  Cardinality(UpTo(q, "sell")) # Cardinality(UpTo(r, "sell"))
  <2>1. q \in All /\ r \in All
    BY DEF Of
  <2>2. UpTo(q, "sell") \subseteq UpTo(r, "sell")
    <3>1. \A t \in All : t[2] <= q[2] => t[2] <= r[2]
      BY <1>1, <1>4, <2>1
    <3> QED BY <1>4, <3>1 DEF UpTo, Of
  <2>3. r \in UpTo(r, "sell") /\ r \notin UpTo(q, "sell")
    <3>1. r[2] <= r[2] /\ ~ (r[2] <= q[2])
      BY <1>1, <1>4, <2>1
    <3> QED BY <3>1 DEF UpTo
  <2>4. IsFiniteSet(UpTo(r, "sell"))
    <3>1. UpTo(r, "sell") \subseteq All
      BY DEF UpTo, Of
    <3> QED BY <3>1, AllFinite, FS_Subset
  <2>5. UpTo(q, "sell") # UpTo(r, "sell")
    BY <2>3
  <2>6. Cardinality(UpTo(q, "sell")) \in Nat /\ Cardinality(UpTo(r, "sell")) \in Nat
    BY <2>2, <2>4, FS_Subset, FS_CardinalityType
  <2>7. Cardinality(UpTo(q, "sell")) < Cardinality(UpTo(r, "sell"))
    BY <2>2, <2>4, <2>5, <2>6, FS_Subset
  <2> QED BY <2>6, <2>7
<1>5. ~ (o[2] < p[2]) /\ ~ (p[2] < o[2])
  BY <1>3, <1>4
<1>6. o[2] \in Nat /\ p[2] \in Nat /\ o = <<o[1], o[2]>> /\ p = <<p[1], p[2]>>
  BY <1>1, <1>2
<1>7. o[2] = p[2]
  BY <1>5, <1>6
<1> QED BY <1>3, <1>6, <1>7

\* The gain of a recorded sell is an integer, what it brought of an earlier cost is a
\* number, and so are their sums.
LEMMA RealizedType ==
  ASSUME OrdersType, SellsCovered
  PROVE  /\ Realized \in Int /\ Carried \in Nat
         /\ \A o \in Joined("sell") : Gain[o] \in Int /\ Brought[o] \in Nat
<1>1. \A o \in All : Get(o).price \in Nat
  BY GetType DEF Order
<1>2. \A o \in Joined("sell") : o \in Of("sell", Executed) /\ o \in All
  BY DEF Joined, Of, Known, Executed
<1>3. \A o \in Joined("sell") : Bought(o) \in All
  BY <1>2, BoughtExists DEF Of
<1>4. \A o \in Joined("sell") : Gain[o] = Get(o).price - Get(Bought(o)).price
  BY DEF Gain
<1>5. \A o \in Joined("sell") : Gain[o] \in Int
  BY <1>1, <1>2, <1>3, <1>4
<1>6. \A o \in Joined("sell") : Brought[o] \in Nat
  <2>1. \A o \in Joined("sell") : Brought[o] = IF Bought(o) \in Joined("buy") THEN 0 ELSE Get(Bought(o)).price
    BY DEF Brought
  <2> QED BY <1>1, <1>3, <2>1
<1>7. IsFiniteSet(Joined("sell"))
  <2>1. Joined("sell") \subseteq All
    BY <1>2
  <2> QED BY <2>1, AllFinite, FS_Subset
<1>8. Realized \in Int
  BY <1>5, <1>7, SumInt DEF Realized
<1>9. Carried \in Nat
  BY <1>6, <1>7, SumNat DEF Carried
<1> QED BY <1>5, <1>6, <1>8, <1>9

\* The purchase of a share the flow has sold is in the flow, or its cost is carried: what
\* was lost in trades is no more than what flowed out and what is carried.
LEMMA FlowWithinRealized ==
  ASSUME OrdersType, SellsCovered
  PROVE  Flow <= Realized + Carried
<1> DEFINE S == Joined("sell")
           B == Joined("buy")
           P == [o \in All |-> Get(o).price]
           h == [o \in S |-> Bought(o)]
           cost == [o \in S |-> Get(Bought(o)).price]
           shown == [o \in S |-> IF Bought(o) \in B THEN Get(Bought(o)).price ELSE 0]
           paid == [o \in S |-> Get(o).price]
           Shown == {o \in S : Bought(o) \in B}
           Image == {h[o] : o \in Shown}
<1>1. S \subseteq All /\ B \subseteq All /\ IsFiniteSet(All) /\ IsFiniteSet(S) /\ IsFiniteSet(B)
  <2>1. S \subseteq All /\ B \subseteq All
    BY DEF Joined, Of
  <2> HIDE DEF S, B
  <2> QED BY <2>1, AllFinite, FS_Subset
<1>2. \A o \in S : o \in Of("sell", Executed)
  BY DEF Joined, Of, Known, Executed
<1>3. \A o \in All : P[o] \in Nat /\ P[o] = Get(o).price
  BY GetType DEF Order
<1>4. \A o \in S : Bought(o) \in All
  BY <1>2, BoughtExists DEF Of
<1>5. \A o \in S : cost[o] \in Nat /\ cost[o] = Get(Bought(o)).price
  BY <1>3, <1>4
<1>6. \A o \in S : shown[o] \in Nat /\ Brought[o] \in Nat /\ cost[o] = shown[o] + Brought[o]
  <2>1. \A o \in S : Brought[o] = IF Bought(o) \in B THEN 0 ELSE Get(Bought(o)).price
    BY DEF Brought
  <2>2. \A o \in S : shown[o] = IF Bought(o) \in B THEN Get(Bought(o)).price ELSE 0
    OBVIOUS
  <2>3. \A o \in S : Get(Bought(o)).price \in Nat
    BY <1>3, <1>4
  <2> HIDE DEF S, B, cost, shown
  <2> QED BY <1>5, <2>1, <2>2, <2>3
<1>7. Shown \in SUBSET S /\ IsFiniteSet(Shown)
  <2>1. Shown \subseteq S
    OBVIOUS
  <2> HIDE DEF S, Shown
  <2> QED BY <1>1, <2>1, FS_Subset
<1>8. (\A o \in Shown : shown[o] = P[h[o]] /\ h[o] \in B) /\ \A o \in S \ Shown : shown[o] = 0
  BY <1>1, <1>3
<1>9. \A o, p \in Shown : h[o] = h[p] => o = p
  BY <1>2, BoughtInjective
<1>10. \A o \in S : paid[o] = Gain[o] + cost[o] /\ paid[o] \in Int /\ Gain[o] \in Int
  <2>1. \A o \in S : Gain[o] = Get(o).price - Get(Bought(o)).price
    BY DEF Gain
  <2>2. \A o \in S : paid[o] = Get(o).price
    OBVIOUS
  <2>3. \A o \in S : Get(o).price \in Int /\ Get(Bought(o)).price \in Int
    BY <1>1, <1>3, <1>4
  <2> HIDE DEF S, paid, cost
  <2> QED BY <1>5, <2>1, <2>2, <2>3
<1>11. Value(S) = SumFunctionOnSet(paid, S)
  BY DEF Value
<1>12. Value(B) = SumFunctionOnSet(P, B)
  <2> DEFINE g == [o \in B |-> Get(o).price]
  <2>1. Value(B) = SumFunctionOnSet(g, B)
    BY DEF Value
  <2>2. \A o \in B : g[o] = P[o]
    BY <1>1, <1>3
  <2> HIDE DEF g, B, P
  <2> QED BY <1>1, <2>1, <2>2, SumSame
<1>13. Flow = Value(S) - Value(B) /\ Realized = SumFunctionOnSet(Gain, S)
       /\ Carried = SumFunctionOnSet(Brought, S)
  BY DEF Flow, Realized, Carried
<1>14. \A o \in B : P[o] \in Nat
  BY <1>1, <1>3
<1> HIDE DEF S, B, P, h, cost, shown, paid, Shown, Image
<1>15. SumFunctionOnSet(paid, S) = SumFunctionOnSet(Gain, S) + SumFunctionOnSet(cost, S)
  BY <1>1, <1>5, <1>10, SumPlus
<1>16. SumFunctionOnSet(cost, S) = SumFunctionOnSet(shown, S) + SumFunctionOnSet(Brought, S)
  BY <1>1, <1>6, SumPlus
<1>17. SumFunctionOnSet(shown, S) = SumFunctionOnSet(shown, Shown)
  <2>1. \A o \in Shown : shown[o] \in Int /\ shown[o] = shown[o]
    BY <1>6, <1>7
  <2> QED BY <1>1, <1>7, <1>8, <2>1, SumFilter
<1>18. SumFunctionOnSet(shown, Shown) = SumFunctionOnSet(P, Image)
  <2>1. \A o \in Shown : shown[o] \in Int /\ P[h[o]] = shown[o]
    BY <1>6, <1>7, <1>8
  <2> QED BY <1>7, <1>9, <2>1, SumImage DEF Image
<1>19. SumFunctionOnSet(P, Image) <= SumFunctionOnSet(P, B)
  <2>1. Image \in SUBSET B
    BY <1>8 DEF Image
  <2>2. (\A o \in Image : P[o] \in Int) /\ \A o \in B \ Image : P[o] \in Nat
    BY <1>14, <2>1
  <2> QED BY <1>1, <2>1, <2>2, SumSubset
<1>20. /\ SumFunctionOnSet(Gain, S) \in Int /\ SumFunctionOnSet(cost, S) \in Int
       /\ SumFunctionOnSet(shown, S) \in Int /\ SumFunctionOnSet(Brought, S) \in Int
       /\ SumFunctionOnSet(P, B) \in Int
  <2>1. \A o \in B : P[o] \in Int
    BY <1>14
  <2>2. \A o \in S : cost[o] \in Int /\ shown[o] \in Int /\ Brought[o] \in Int
    BY <1>5, <1>6
  <2> QED BY <1>1, <1>10, <2>1, <2>2, SumInt
<1> QED BY <1>11, <1>12, <1>13, <1>15, <1>16, <1>17, <1>18, <1>19, <1>20

-----------------------------------------------------------------------------
(* The steps *)

\* Steps of a call that do not touch the orders.
Quiet(s) ==
  \/ RouteEntry(s) \/ RouteExit(s) \/ ReadFlow(s) \/ LimitBlocks(s) \/ MaxBlocks(s) \/ Admit(s)
  \/ ReadAccount(s) \/ PowerAllows(s) \/ PowerBlocks(s) \/ QuoteFails(s) \/ CallFails(s)

\* Events of an order, which leave the calls alone.
Events(s, i) ==
  BrokerFill(s, i) \/ BrokerKill(s, i) \/ Book(s, i) \/ BookEarly(s, i) \/ RecordReplayed(s, i)

\* Every step is one of these.
LEMMA Steps ==
  ASSUME [Next]_vars
  PROVE  \/ \E s \in Symbols : Quiet(s) \/ Place(s) \/ Log(s)
         \/ \E s \in Symbols : \E i \in DOMAIN orders[s] : Events(s, i)
         \/ NewDay \/ Restart
         \/ UNCHANGED vars
BY DEF Next, Route, Quiet, Events

LEMMA QuietOrders ==
  ASSUME NEW s, Quiet(s)
  PROVE  orders' = orders
BY DEF Quiet, RouteEntry, RouteExit, ReadFlow, LimitBlocks, MaxBlocks, Admit,
       ReadAccount, PowerAllows, PowerBlocks, QuoteFails, CallFails

\* What an event makes of an order that was in one state.
Becomes(order, st) ==
  \/ order.st = "working" /\ st \in {"filled", "dead"}
  \/ order.st = "filled" /\ st \in {IF order.row THEN "booked" ELSE "untracked", "replayed"}

\* An event in the terms of the lemmas above.
LEMMA EventChanges ==
  ASSUME TypeOK, NEW s \in Symbols, NEW i \in DOMAIN orders[s], Events(s, i)
  PROVE  \E r \in Order :
           /\ Changes(<<s, i>>, r) /\ <<s, i>> \in All
           /\ r.side = Get(<<s, i>>).side /\ r.price = Get(<<s, i>>).price
           /\ r.row = Get(<<s, i>>).row /\ r.crowd = Get(<<s, i>>).crowd
           /\ r.unseen = Get(<<s, i>>).unseen
           /\ \A t \in Symbols : Len(orders'[t]) = Len(orders[t])
           /\ Becomes(Get(<<s, i>>), r.st)
<1>1. <<s, i>> \in All /\ Get(<<s, i>>) = orders[s][i]
  BY AllMember DEF Get
<1>2. OrdersType
  BY DEF TypeOK, OrdersType
<1>3. Get(<<s, i>>) \in Order
  BY <1>1, <1>2, GetType
<1> DEFINE Marked(x, b) == [Get(<<s, i>>) EXCEPT !.st = x, !.today = b]
<1>4. ASSUME NEW x \in Statuses, orders' = [orders EXCEPT ![s][i].st = x]
      PROVE  orders' = [orders EXCEPT ![s][i] = Marked(x, Get(<<s, i>>).today)]
  <2>1. [Get(<<s, i>>) EXCEPT !.st = x] = Marked(x, Get(<<s, i>>).today)
    BY <1>3 DEF Order
  <2>2. orders' = [orders EXCEPT ![s][i] = [Get(<<s, i>>) EXCEPT !.st = x]]
    BY <1>1, <1>4
  <2> QED BY <2>1, <2>2
<1>5. \E x \in Statuses, b \in BOOLEAN :
        /\ orders' = [orders EXCEPT ![s][i] = Marked(x, b)]
        /\ Becomes(Get(<<s, i>>), x)
  <2>1. CASE BrokerFill(s, i)
    <3>1. orders' = [orders EXCEPT ![s][i] = Marked("filled", TRUE)]
      BY <1>1, <2>1 DEF BrokerFill
    <3>2. Becomes(Get(<<s, i>>), "filled") /\ "filled" \in Statuses
      BY <1>1, <2>1 DEF BrokerFill, Becomes, Statuses
    <3> QED BY <3>1, <3>2
  <2>2. ASSUME NEW x \in Statuses, Mark(s, i, x), Becomes(Get(<<s, i>>), x)
        PROVE  \E b \in BOOLEAN : orders' = [orders EXCEPT ![s][i] = Marked(x, b)]
    <3>1. Get(<<s, i>>).today \in BOOLEAN
      BY <1>3 DEF Order
    <3>2. orders' = [orders EXCEPT ![s][i] = Marked(x, Get(<<s, i>>).today)]
      BY <1>4, <2>2 DEF Mark
    <3> QED BY <3>1, <3>2
  <2>3. ~BrokerFill(s, i) => \E x \in Statuses : Mark(s, i, x) /\ Becomes(Get(<<s, i>>), x)
    BY <1>1 DEF Events, BrokerKill, Book, BookEarly, RecordReplayed, Becomes, Statuses
  <2> QED BY <2>1, <2>2, <2>3
<1>6. ASSUME NEW x \in Statuses, NEW b \in BOOLEAN
      PROVE  /\ Marked(x, b) \in Order
             /\ Marked(x, b).st = x /\ Marked(x, b).side = Get(<<s, i>>).side
             /\ Marked(x, b).price = Get(<<s, i>>).price /\ Marked(x, b).row = Get(<<s, i>>).row
             /\ Marked(x, b).crowd = Get(<<s, i>>).crowd /\ Marked(x, b).unseen = Get(<<s, i>>).unseen
  BY <1>3 DEF Order, Statuses
<1> HIDE DEF Marked
<1>7. PICK r \in Order :
        /\ orders' = [orders EXCEPT ![s][i] = r]
        /\ r.side = Get(<<s, i>>).side /\ r.price = Get(<<s, i>>).price
        /\ r.row = Get(<<s, i>>).row /\ r.crowd = Get(<<s, i>>).crowd
        /\ r.unseen = Get(<<s, i>>).unseen
        /\ Becomes(Get(<<s, i>>), r.st)
  BY <1>5, <1>6
<1>8. Changes(<<s, i>>, r) /\ \A t \in Symbols : Len(orders'[t]) = Len(orders[t])
  BY <1>2, <1>7, ReplaceChanges
<1> QED BY <1>1, <1>7, <1>8

LEMMA EventsLeave ==
  ASSUME NEW s, NEW i, Events(s, i)
  PROVE  UNCHANGED <<call, wants, reads, history, failures, days>>
BY DEF Events, BrokerFill, BrokerKill, Book, BookEarly, RecordReplayed, Mark

-----------------------------------------------------------------------------
(* A new day and a restart *)

\* The step leaves of each order all but its day, and what the tracker has of it.
Remaps ==
  /\ OrdersType /\ OrdersType'
  /\ All' = All
  /\ \A t \in Symbols : Len(orders'[t]) = Len(orders[t])
  /\ \A o \in All :
       /\ Get(o)'.side = Get(o).side /\ Get(o)'.price = Get(o).price /\ Get(o)'.row = Get(o).row
       /\ Get(o)'.crowd = Get(o).crowd /\ Get(o)'.unseen = Get(o).unseen
       /\ Get(o)'.st = Get(o).st \/ (Get(o).st = "booked" /\ Get(o)'.st = "untracked")

LEMMA PlaceTypes ==
  ASSUME OrdersType
  PROVE  \A s \in Symbols : \A i \in DOMAIN orders[s] : orders[s][i] \in Order
<1> SUFFICES ASSUME NEW s \in Symbols, NEW i \in DOMAIN orders[s] PROVE orders[s][i] \in Order
  OBVIOUS
<1>1. orders[s] \in Seq(Order)
  BY DEF OrdersType
<1>2. DOMAIN orders[s] = 1..Len(orders[s])
  BY <1>1, LenProperties
<1> QED BY <1>1, <1>2, ElementOfSeq

\* Each order is replaced by one of its type.
LEMMA MapOrders ==
  ASSUME OrdersType,
         NEW f, \A s \in Symbols : \A i \in DOMAIN orders[s] : f[s][i] \in Order,
         orders' = [s \in Symbols |-> [i \in DOMAIN orders[s] |-> f[s][i]]]
  PROVE  /\ OrdersType' /\ All' = All
         /\ \A t \in Symbols : Len(orders'[t]) = Len(orders[t])
         /\ \A o \in All : Get(o)' = f[o[1]][o[2]]
<1>1. ASSUME NEW s \in Symbols
      PROVE  /\ orders'[s] \in Seq(Order) /\ Len(orders'[s]) = Len(orders[s])
             /\ DOMAIN orders'[s] = DOMAIN orders[s]
             /\ \A i \in DOMAIN orders[s] : orders'[s][i] = f[s][i]
  <2>1. DOMAIN orders[s] = 1..Len(orders[s]) /\ Len(orders[s]) \in Nat
    BY LenProperties DEF OrdersType
  <2>2. orders'[s] = [i \in DOMAIN orders[s] |-> f[s][i]]
    OBVIOUS
  <2>3. orders'[s] \in [1..Len(orders[s]) -> Order]
    BY <2>1, <2>2
  <2>4. orders'[s] \in Seq(Order)
    BY <2>1, <2>3
  <2>5. Len(orders'[s]) = Len(orders[s])
    BY <2>1, <2>3, <2>4, LenProperties
  <2> QED BY <2>1, <2>2, <2>4, <2>5
<1>2. orders' \in [Symbols -> Seq(Order)]
  BY <1>1
<1>3. All' = All
  BY <1>1 DEF All
<1>4. \A o \in All : Get(o)' = f[o[1]][o[2]]
  BY <1>1, AllPairs DEF Get
<1> QED BY <1>1, <1>2, <1>3, <1>4 DEF OrdersType

LEMMA NewDayRemaps ==
  ASSUME TypeOK, NewDay
  PROVE  /\ Remaps /\ \A o \in All : Get(o)'.st = Get(o).st /\ ~Get(o)'.today
         /\ UNCHANGED <<call, wants, reads, history, failures>> /\ days' = days + 1
<1>1. OrdersType
  BY DEF TypeOK, OrdersType
<1> DEFINE f == [s \in Symbols |-> [i \in DOMAIN orders[s] |-> [orders[s][i] EXCEPT !.today = FALSE]]]
<1>2. \A s \in Symbols : \A i \in DOMAIN orders[s] : orders[s][i] \in Order
  BY <1>1, PlaceTypes
<1>3. \A s \in Symbols : \A i \in DOMAIN orders[s] : f[s][i] = [orders[s][i] EXCEPT !.today = FALSE]
  OBVIOUS
<1>4. orders' = [s \in Symbols |-> [i \in DOMAIN orders[s] |-> f[s][i]]]
  BY DEF NewDay
<1> HIDE DEF f
<1>5. \A s \in Symbols : \A i \in DOMAIN orders[s] : f[s][i] \in Order
  <2> TAKE s \in Symbols
  <2> TAKE i \in DOMAIN orders[s]
  <2>1. orders[s][i] \in Order /\ f[s][i] = [orders[s][i] EXCEPT !.today = FALSE]
    BY <1>2, <1>3
  <2> QED BY <2>1 DEF Order
<1>6. /\ OrdersType' /\ All' = All
      /\ \A t \in Symbols : Len(orders'[t]) = Len(orders[t])
      /\ \A o \in All : Get(o)' = f[o[1]][o[2]]
  BY <1>1, <1>4, <1>5, MapOrders
<1>7. \A o \in All : Get(o) \in Order /\ Get(o)' = [Get(o) EXCEPT !.today = FALSE]
  BY <1>1, <1>3, <1>6, AllPairs, GetType DEF Get
<1>8. \A o \in All :
       /\ Get(o)'.side = Get(o).side /\ Get(o)'.price = Get(o).price /\ Get(o)'.row = Get(o).row
       /\ Get(o)'.crowd = Get(o).crowd /\ Get(o)'.unseen = Get(o).unseen
       /\ Get(o)'.st = Get(o).st /\ ~Get(o)'.today
  BY <1>7 DEF Order
<1> QED BY <1>1, <1>6, <1>8 DEF Remaps, NewDay

LEMMA RestartRemaps ==
  ASSUME TypeOK, Restart
  PROVE  Remaps /\ \A o \in All : Get(o)'.today = Get(o).today
<1>1. OrdersType
  BY DEF TypeOK, OrdersType
<1> DEFINE f == [s \in Symbols |-> [i \in DOMAIN orders[s] |-> Forgotten(orders[s][i])]]
<1>2. \A s \in Symbols : \A i \in DOMAIN orders[s] : orders[s][i] \in Order
  BY <1>1, PlaceTypes
<1>3. \A s \in Symbols : \A i \in DOMAIN orders[s] : f[s][i] = Forgotten(orders[s][i])
  OBVIOUS
<1>4. orders' = [s \in Symbols |-> [i \in DOMAIN orders[s] |-> f[s][i]]]
  BY DEF Restart
<1> HIDE DEF f
<1>5. \A q \in Order :
        /\ Forgotten(q) \in Order
        /\ Forgotten(q).side = q.side /\ Forgotten(q).price = q.price /\ Forgotten(q).row = q.row
        /\ Forgotten(q).crowd = q.crowd /\ Forgotten(q).unseen = q.unseen
        /\ Forgotten(q).today = q.today
        /\ Forgotten(q).st = q.st \/ (q.st = "booked" /\ Forgotten(q).st = "untracked")
  BY DEF Order, Forgotten
<1>6. \A s \in Symbols : \A i \in DOMAIN orders[s] : f[s][i] \in Order
  BY <1>2, <1>3, <1>5
<1>7. /\ OrdersType' /\ All' = All
      /\ \A t \in Symbols : Len(orders'[t]) = Len(orders[t])
      /\ \A o \in All : Get(o)' = f[o[1]][o[2]]
  BY <1>1, <1>4, <1>6, MapOrders
<1>8. \A o \in All : Get(o) \in Order /\ Get(o)' = Forgotten(Get(o))
  BY <1>1, <1>3, <1>7, AllPairs, GetType DEF Get
<1> QED BY <1>1, <1>5, <1>7, <1>8 DEF Remaps

\* The account, the positions and the buys stay.
LEMMA RemapsLeave ==
  ASSUME Remaps
  PROVE  /\ BuyingPower' = BuyingPower /\ UnseenCost' = UnseenCost
         /\ (SellsCovered => SellsCovered') /\ Positions' = Positions
         /\ Buys' = Buys /\ (Crowded' <=> Crowded)
         /\ \A t \in Symbols : Last(t)' = Last(t)
         /\ Missed \subseteq Missed'
<1>1. OrdersType /\ OrdersType' /\ All' = All
  BY DEF Remaps
<1>2. \A o \in All :
       /\ Get(o)'.side = Get(o).side /\ Get(o)'.price = Get(o).price
       /\ Get(o)'.crowd = Get(o).crowd /\ Get(o)'.unseen = Get(o).unseen
       /\ Get(o)'.st = Get(o).st \/ (Get(o).st = "booked" /\ Get(o)'.st = "untracked")
  BY DEF Remaps
<1>3. IsFiniteSet(All)
  BY <1>1, AllFinite
<1>4. \A o \in All : CashOf(Get(o)') = CashOf(Get(o))
  BY <1>2 DEF CashOf, Live, Executed
<1>5. BuyingPower' = BuyingPower
  <2>1. Cash' = [o \in All |-> CashOf(Get(o)')]
    BY <1>1 DEF Cash, CashOf
  <2>2. \A o \in All : Cash'[o] = Cash[o]
    BY <1>4, <2>1 DEF Cash
  <2>3. SumFunctionOnSet(Cash', All) = SumFunctionOnSet(Cash, All)
    BY <1>3, <2>2, SumSame
  <2>4. BuyingPower = Power + SumFunctionOnSet(Cash, All)
    BY <1>1, BuyingPowerIsSum
  <2>5. BuyingPower' = Power + SumFunctionOnSet(Cash', All)
    <3>1. (OrdersType => BuyingPower = Power + SumFunctionOnSet(Cash, All))'
      BY BuyingPowerIsSum, PTL
    <3> QED BY <1>1, <3>1
  <2> QED BY <2>3, <2>4, <2>5
<1>6. UnseenCost' = UnseenCost
  <2>1. Unseen' = [o \in All |-> Get(o)'.unseen]
    BY <1>1 DEF Unseen
  <2>2. \A o \in All : Unseen'[o] = Unseen[o]
    BY <1>2, <2>1 DEF Unseen
  <2>3. SumFunctionOnSet(Unseen', All) = SumFunctionOnSet(Unseen, All)
    BY <1>3, <2>2, SumSame
  <2> QED BY <1>1, <2>3 DEF UnseenCost
<1>7. ASSUME NEW side PROVE Of(side, Executed)' = Of(side, Executed) /\ Of(side, Live)' = Of(side, Live)
  BY <1>1, <1>2 DEF Of, Executed, Live
<1>8. ASSUME SellsCovered PROVE SellsCovered'
  <2>1. \A o, side : Before(o, side, Executed)' = Before(o, side, Executed)
                     /\ Before(o, side, Live)' = Before(o, side, Live)
    BY <1>7 DEF Before, Executed, Live
  <2> SUFFICES ASSUME NEW o \in Of("sell", Live)'
               PROVE  (Cardinality(Before(o, "sell", Live)) < Cardinality(Before(o, "buy", Executed)))'
    BY DEF SellsCovered, Live, Executed
  <2>2. Cardinality(Before(o, "sell", Live)) < Cardinality(Before(o, "buy", Executed))
    BY <1>7, <1>8 DEF SellsCovered
  <2>3. Before(o, "sell", Live)' = Before(o, "sell", Live)
        /\ Before(o, "buy", Executed)' = Before(o, "buy", Executed)
    BY <2>1
  <2> QED BY <2>2, <2>3
<1>9. Positions' = Positions
  <2>1. \A t : Net(t, Executed)' = Net(t, Executed)
    <3>1. Of("buy", Executed)' = Of("buy", Executed) /\ Of("sell", Executed)' = Of("sell", Executed)
      BY <1>7
    <3> QED BY <3>1 DEF Net, Executed
  <2> QED BY <2>1 DEF Positions, Executed
<1>10. Buys' = Buys
  BY <1>1, <1>2 DEF Buys, Of, Executed
<1>11. Crowded' <=> Crowded
  <2>1. Buys \subseteq All
    BY DEF Buys, Of
  <2> QED BY <1>2, <1>10, <2>1 DEF Crowded
<1>12. \A t \in Symbols : Last(t)' = Last(t)
  BY DEF Remaps, Last
<1>13. Missed \subseteq Missed'
  <2> SUFFICES ASSUME NEW s \in Symbols, NEW i \in DOMAIN orders[s],
                      orders[s][i].st \in {"untracked", "replayed"}
               PROVE  s \in Missed'
    BY DEF Missed
  <2>1. <<s, i>> \in All /\ Get(<<s, i>>) = orders[s][i] /\ Get(<<s, i>>)' = orders'[s][i]
    BY AllMember DEF Get
  <2>2. orders'[s][i].st \in {"untracked", "replayed"}
    BY <1>2, <2>1
  <2>3. i \in DOMAIN orders'[s]
    <3>1. DOMAIN orders[s] = 1..Len(orders[s]) /\ DOMAIN orders'[s] = 1..Len(orders'[s])
      BY <1>1, LenProperties DEF OrdersType
    <3> QED BY <3>1 DEF Remaps
  <2> QED BY <2>2, <2>3 DEF Missed
<1> QED BY <1>5, <1>6, <1>8, <1>9, <1>10, <1>11, <1>12, <1>13

-----------------------------------------------------------------------------
(* Calls *)

\* Everything that is computed from the orders stays when they do.
LEMMA SameOrders ==
  ASSUME orders' = orders
  PROVE  /\ All' = All /\ \A o : Get(o)' = Get(o)
         /\ Flow' = Flow /\ BuyingPower' = BuyingPower
         /\ Crowded' = Crowded /\ Missed' = Missed /\ Positions' = Positions
         /\ \A s : Last(s)' = Last(s)
         /\ SellsCovered' = SellsCovered /\ UnseenCost' = UnseenCost
BY DEF All, Get, Flow, BuyingPower, Value, Joined, Of, Crowded, Buys, Missed,
       Positions, Net, Last, SellsCovered, Before, UnseenCost, Unseen, Executed, Known, Live

\* A set of symbols is finite.
LEMMA SymbolsCount ==
  ASSUME NEW S, S \subseteq Symbols
  PROVE  IsFiniteSet(S) /\ Cardinality(S) \in Nat
BY SymbolsAssumption, FS_Subset, FS_CardinalityType

\* Everything has its type when a call goes on.
LEMMA QuietType ==
  ASSUME BaseInv, NEW s \in Symbols, Quiet(s)
  PROVE  TypeOK'
<1> DEFINE Phases == {"idle", "flow", "flowRead", "limited", "account", "quote", "place", "log"}
<1>1. OrdersType /\ SellsCovered /\ TypeOK
  BY DEF BaseInv, TypeOK, OrdersType
<1>2. orders' = orders
  BY QuietOrders
<1>3. All' = All /\ \A o : Get(o)' = Get(o)
  BY <1>2, SameOrders
<1>4. orders' \in [Symbols -> Seq(Order)] /\ \A o \in All' : Get(o)'.st = "booked" => Get(o)'.row
  BY <1>1, <1>2, <1>3 DEF TypeOK
<1>5. Flow \in Int /\ BuyingPower \in Int /\ Realized \in Int /\ Carried \in Nat /\ Cardinality(Tracked) \in Nat
  <2>1. Tracked \subseteq Symbols
    BY DEF Tracked
  <2> QED BY <1>1, <2>1, FlowIsSum, BuyingPowerIsSum, RealizedType, SymbolsCount
<1>6. Prices \subseteq Nat
  BY PricesAssumption DEF PricesAssumption
<1>7. /\ call \in [Symbols -> Phases] /\ wants \subseteq Symbols
      /\ count \in [Symbols -> Nat] /\ pnl \in [Symbols -> Int] /\ power \in [Symbols -> Int]
      /\ price \in [Symbols -> Nat] /\ loss \in [Symbols -> Int] /\ carried \in [Symbols -> Nat]
      /\ unseen \in [Symbols -> Nat] /\ failures \in Nat /\ days \in Nat
  BY <1>1 DEF TypeOK
<1>8. crowd \in [Symbols -> BOOLEAN]
  BY <1>1 DEF TypeOK
<1>9. \E phase \in Phases : call' = [call EXCEPT ![s] = phase]
  BY DEF Quiet, Goto, Return, RouteEntry, RouteExit, ReadFlow, LimitBlocks, MaxBlocks, Admit,
         ReadAccount, PowerAllows, PowerBlocks, QuoteFails, CallFails
<1>10. wants' \subseteq Symbols
  BY <1>7 DEF Quiet, RouteEntry, RouteExit, ReadFlow, LimitBlocks, MaxBlocks, Admit,
         ReadAccount, PowerAllows, PowerBlocks, QuoteFails, CallFails
<1>11. \/ UNCHANGED count \/ \E n \in Nat : count' = [count EXCEPT ![s] = n]
  BY <1>5 DEF Quiet, Return, Drop, reads, RouteEntry, RouteExit, ReadFlow, LimitBlocks, MaxBlocks, Admit,
         ReadAccount, PowerAllows, PowerBlocks, QuoteFails, CallFails
<1>12. \/ UNCHANGED pnl \/ \E n \in Int : pnl' = [pnl EXCEPT ![s] = n]
  BY <1>5 DEF Quiet, Return, Drop, reads, RouteEntry, RouteExit, ReadFlow, LimitBlocks, MaxBlocks, Admit,
         ReadAccount, PowerAllows, PowerBlocks, QuoteFails, CallFails
<1>13. \/ UNCHANGED power \/ \E n \in Int : power' = [power EXCEPT ![s] = n]
  BY <1>5 DEF Quiet, Return, Drop, reads, RouteEntry, RouteExit, ReadFlow, LimitBlocks, MaxBlocks, Admit,
         ReadAccount, PowerAllows, PowerBlocks, QuoteFails, CallFails
<1>14. \/ UNCHANGED price \/ \E n \in Nat : price' = [price EXCEPT ![s] = n]
  BY <1>6 DEF Quiet, Return, Drop, reads, RouteEntry, RouteExit, ReadFlow, LimitBlocks, MaxBlocks, Admit,
         ReadAccount, PowerAllows, PowerBlocks, QuoteFails, CallFails
<1>15. \/ UNCHANGED crowd \/ \E b \in BOOLEAN : crowd' = [crowd EXCEPT ![s] = b]
  BY DEF Quiet, Return, Drop, history, RouteEntry, RouteExit, ReadFlow, LimitBlocks, MaxBlocks, Admit,
         ReadAccount, PowerAllows, PowerBlocks, QuoteFails, CallFails
<1>16. \/ UNCHANGED loss \/ \E n \in Int : loss' = [loss EXCEPT ![s] = n]
  BY <1>5 DEF Quiet, Return, Drop, history, RouteEntry, RouteExit, ReadFlow, LimitBlocks, MaxBlocks, Admit,
         ReadAccount, PowerAllows, PowerBlocks, QuoteFails, CallFails
<1>17. \/ UNCHANGED unseen \/ \E n \in Nat : unseen' = [unseen EXCEPT ![s] = n]
  <2>1. \A p \in Prices : unseen[s] + p \in Nat
    BY <1>6, <1>7
  <2>2. QuoteFails(s) => \E n \in Nat : unseen' = [unseen EXCEPT ![s] = n]
    BY <2>1 DEF QuoteFails
  <2>3. Quiet(s) /\ ~QuoteFails(s) => UNCHANGED unseen \/ unseen' = [unseen EXCEPT ![s] = 0]
    BY DEF Quiet, Return, Drop, history, RouteEntry, RouteExit, ReadFlow, LimitBlocks, MaxBlocks, Admit,
           ReadAccount, PowerAllows, PowerBlocks, CallFails
  <2> QED BY <2>2, <2>3
<1>18. (UNCHANGED failures \/ failures' = failures + 1) /\ UNCHANGED days
  BY DEF Quiet, Fail, RouteEntry, RouteExit, ReadFlow, LimitBlocks, MaxBlocks, Admit,
         ReadAccount, PowerAllows, PowerBlocks, QuoteFails, CallFails
<1>19. \/ UNCHANGED carried \/ \E n \in Nat : carried' = [carried EXCEPT ![s] = n]
  BY <1>5 DEF Quiet, Return, Drop, history, RouteEntry, RouteExit, ReadFlow, LimitBlocks, MaxBlocks, Admit,
         ReadAccount, PowerAllows, PowerBlocks, QuoteFails, CallFails
<1>20. /\ call' \in [Symbols -> Phases] /\ count' \in [Symbols -> Nat]
       /\ pnl' \in [Symbols -> Int] /\ power' \in [Symbols -> Int] /\ price' \in [Symbols -> Nat]
       /\ loss' \in [Symbols -> Int] /\ carried' \in [Symbols -> Nat] /\ unseen' \in [Symbols -> Nat]
       /\ failures' \in Nat /\ days' \in Nat
  BY <1>7, <1>9, <1>11, <1>12, <1>13, <1>14, <1>16, <1>17, <1>18, <1>19
<1>21. crowd' \in [Symbols -> BOOLEAN]
  BY <1>8, <1>15
<1> QED BY <1>4, <1>10, <1>20, <1>21 DEF TypeOK

LEMMA PlaceType ==
  ASSUME BaseInv, NEW s \in Symbols, Place(s)
  PROVE  TypeOK'
<1>1. TypeOK
  BY DEF BaseInv
<1>2. PICK n \in Nat, r \in Order : Adds(<<s, n>>, r) /\ ~r.row
        /\ r.st = (IF s \in wants \/ Held(s) > 0 THEN "working" ELSE "dead")
  BY <1>1, PlaceAdds
<1>3. orders' \in [Symbols -> Seq(Order)]
  BY <1>2 DEF Adds, OrdersType
<1>4. \A o \in All' : Get(o)'.st = "booked" => Get(o)'.row
  <2>1. All' = All \cup {<<s, n>>} /\ Get(<<s, n>>)' = r /\ \A o \in All : Get(o)' = Get(o)
    BY <1>2 DEF Adds
  <2>2. r.st # "booked"
    BY <1>2
  <2> QED BY <1>1, <2>1, <2>2 DEF TypeOK
<1>5. call' \in [Symbols -> {"idle", "flow", "flowRead", "limited", "account", "quote", "place", "log"}]
  BY <1>1 DEF TypeOK, Place, Goto
<1>6. unseen' \in [Symbols -> Nat]
  <2>1. unseen \in [Symbols -> Nat] /\ price \in [Symbols -> Nat]
    BY <1>1 DEF TypeOK
  <2>2. \A t \in Symbols : unseen[t] \in Nat /\ unseen[t] + price[s] \in Nat
    BY <2>1
  <2> QED BY <2>2 DEF Place
<1>7. price' \in [Symbols -> Nat] /\ crowd' \in [Symbols -> BOOLEAN]
  BY <1>1 DEF TypeOK, Place, Drop
<1>8. UNCHANGED <<wants, count, pnl, power, loss, carried, failures, days>>
  BY DEF Place
<1> QED BY <1>1, <1>3, <1>4, <1>5, <1>6, <1>7, <1>8 DEF TypeOK

LEMMA LogType ==
  ASSUME BaseInv, NEW s \in Symbols, Log(s)
  PROVE  TypeOK'
<1>1. TypeOK /\ CallInv
  BY DEF BaseInv
<1>2. PICK n \in Nat, r \in Order : Changes(<<s, n>>, r) /\ r.row
  BY <1>1, LogChanges
<1>3. orders' \in [Symbols -> Seq(Order)]
  BY <1>2 DEF Changes, OrdersType
<1>4. \A o \in All' : Get(o)'.st = "booked" => Get(o)'.row
  BY <1>1, <1>2 DEF Changes, TypeOK
<1>5. call' \in [Symbols -> {"idle", "flow", "flowRead", "limited", "account", "quote", "place", "log"}]
  BY <1>1 DEF TypeOK, Log, Return, Goto
<1>6. /\ count' \in [Symbols -> Nat] /\ pnl' \in [Symbols -> Int] /\ power' \in [Symbols -> Int]
      /\ price' \in [Symbols -> Nat] /\ loss' \in [Symbols -> Int]
      /\ carried' \in [Symbols -> Nat] /\ unseen' \in [Symbols -> Nat]
  BY <1>1 DEF TypeOK, Log, Return, Drop
<1>7. crowd' \in [Symbols -> BOOLEAN]
  BY <1>1 DEF TypeOK, Log, Return
<1>8. UNCHANGED <<wants, failures, days>>
  BY DEF Log
<1> QED BY <1>1, <1>3, <1>4, <1>5, <1>6, <1>7, <1>8 DEF TypeOK

LEMMA EventType ==
  ASSUME BaseInv, NEW s \in Symbols, NEW i \in DOMAIN orders[s], Events(s, i)
  PROVE  TypeOK'
<1>1. TypeOK
  BY DEF BaseInv
<1>2. PICK r \in Order :
        /\ Changes(<<s, i>>, r) /\ r.row = Get(<<s, i>>).row /\ Becomes(Get(<<s, i>>), r.st)
  BY <1>1, EventChanges
<1>3. orders' \in [Symbols -> Seq(Order)]
  BY <1>2 DEF Changes, OrdersType
<1>4. \A o \in All' : Get(o)'.st = "booked" => Get(o)'.row
  <2>1. r.st = "booked" => r.row
    BY <1>2 DEF Becomes
  <2> QED BY <1>1, <1>2, <2>1 DEF Changes, TypeOK
<1>5. UNCHANGED <<call, wants, reads, history, failures, days>>
  BY EventsLeave
<1> QED BY <1>1, <1>3, <1>4, <1>5 DEF TypeOK, reads, history

LEMMA RemapsType ==
  ASSUME BaseInv, Remaps
  PROVE  orders' \in [Symbols -> Seq(Order)] /\ \A o \in All' : Get(o)'.st = "booked" => Get(o)'.row
<1>1. \A o \in All : Get(o).st = "booked" => Get(o).row
  BY DEF BaseInv, TypeOK
<1> QED BY <1>1 DEF Remaps, OrdersType

LEMMA NewDayType ==
  ASSUME BaseInv, NewDay
  PROVE  TypeOK'
<1>1. TypeOK
  BY DEF BaseInv
<1>2. Remaps /\ UNCHANGED <<call, wants, reads, history, failures>> /\ days' = days + 1
  BY <1>1, NewDayRemaps
<1>3. orders' \in [Symbols -> Seq(Order)] /\ \A o \in All' : Get(o)'.st = "booked" => Get(o)'.row
  BY <1>2, RemapsType
<1> QED BY <1>1, <1>2, <1>3 DEF TypeOK, reads, history

LEMMA RestartType ==
  ASSUME BaseInv, Restart
  PROVE  TypeOK'
<1>1. TypeOK
  BY DEF BaseInv
<1>2. orders' \in [Symbols -> Seq(Order)] /\ \A o \in All' : Get(o)'.st = "booked" => Get(o)'.row
  BY <1>1, RestartRemaps, RemapsType
<1>3. wants' \subseteq Symbols
  BY DEF Restart
<1>4. crowd' \in [Symbols -> BOOLEAN]
  BY DEF Restart
<1>5. /\ call' \in [Symbols -> {"idle", "flow", "flowRead", "limited", "account", "quote", "place", "log"}]
      /\ count' \in [Symbols -> Nat] /\ pnl' \in [Symbols -> Int] /\ power' \in [Symbols -> Int]
      /\ price' \in [Symbols -> Nat] /\ loss' \in [Symbols -> Int]
      /\ carried' \in [Symbols -> Nat] /\ unseen' \in [Symbols -> Nat]
  BY DEF Restart
<1>6. failures' \in Nat /\ days' \in Nat
  BY <1>1 DEF TypeOK, Restart, Fail
<1> QED BY <1>2, <1>3, <1>4, <1>5, <1>6 DEF TypeOK

LEMMA QuietCalls ==
  ASSUME BaseInv, NEW s \in Symbols, Quiet(s)
  PROVE  CallInv'
<1>1. TypeOK /\ CallInv
  BY DEF BaseInv
<1>2. All' = All /\ (\A o : Get(o)' = Get(o)) /\ \A t : Last(t)' = Last(t)
  BY QuietOrders, SameOrders
<1>3. \A t \in Symbols : t # s => call'[t] = call[t] /\ (t \in wants' <=> t \in wants)
  BY <1>1, SMTT(30) DEF TypeOK, Quiet, Goto, Return, RouteEntry, RouteExit, ReadFlow, LimitBlocks, MaxBlocks, Admit,
       ReadAccount, PowerAllows, PowerBlocks, QuoteFails, CallFails
<1>4. call'[s] # "log"
  BY <1>1 DEF TypeOK, Quiet, Goto, Return, RouteEntry, RouteExit, ReadFlow, LimitBlocks, MaxBlocks, Admit,
       ReadAccount, PowerAllows, PowerBlocks, QuoteFails, CallFails
<1>5. call'[s] \in Reading => s \in wants'
  <2>1. s \in wants => s \in wants' \/ RouteExit(s)
    BY DEF Quiet, RouteEntry, RouteExit, ReadFlow, LimitBlocks, MaxBlocks, Admit,
         ReadAccount, PowerAllows, PowerBlocks, QuoteFails, CallFails
  <2>2. RouteEntry(s) => s \in wants'
    BY DEF RouteEntry
  <2>3. RouteExit(s) => call'[s] = "place"
    BY <1>1 DEF RouteExit, Goto, TypeOK
  <2>4. call'[s] \in Reading => call[s] \in Reading \/ RouteEntry(s)
    BY <1>1 DEF TypeOK, Quiet, Goto, Return, Reading, RouteExit, ReadFlow, LimitBlocks, MaxBlocks, Admit,
         ReadAccount, PowerAllows, PowerBlocks, QuoteFails, CallFails
  <2> QED BY <1>1, <2>1, <2>2, <2>3, <2>4 DEF CallInv, Reading
<1>6. \A t \in Symbols : call'[t] \in Reading => t \in wants'
  BY <1>1, <1>3, <1>5 DEF CallInv
<1>7. \A t \in Symbols : call'[t] = "log" =>
         Last(t) \in All /\ ~Get(Last(t)).row /\ (Get(Last(t)).side = "buy" => t \in wants')
  BY <1>1, <1>3, <1>4 DEF CallInv
<1>8. \A t \in Symbols : Last(t)' = Last(t) /\ Get(Last(t))' = Get(Last(t))
  <2>1. orders' = orders
    BY QuietOrders
  <2> QED BY <2>1 DEF Last, Get
<1> QED BY <1>2, <1>6, <1>7, <1>8 DEF CallInv

LEMMA PlaceCalls ==
  ASSUME BaseInv, NEW s \in Symbols, Place(s)
  PROVE  CallInv'
<1>1. TypeOK /\ CallInv
  BY DEF BaseInv
<1>2. PICK n \in Nat, r \in Order :
        /\ Adds(<<s, n>>, r) /\ Len(orders'[s]) = n
        /\ \A t \in Symbols \ {s} : Len(orders'[t]) = Len(orders[t])
        /\ r.side = (IF s \in wants THEN "buy" ELSE "sell") /\ ~r.row
  BY <1>1, PlaceAdds
<1>3. /\ All' = All \cup {<<s, n>>} /\ Get(<<s, n>>)' = r
      /\ \A o \in All : Get(o)' = Get(o)
  BY <1>2 DEF Adds
<1>4. call[s] = "place" /\ call'[s] = "log" /\ \A t \in Symbols \ {s} : call'[t] = call[t]
  BY <1>1 DEF TypeOK, Place, Goto
<1>5. wants' = wants
  BY DEF Place
<1>6. Last(s)' = <<s, n>> /\ \A t \in Symbols \ {s} : Last(t)' = Last(t)
  BY <1>2 DEF Last
<1>7. \A t \in Symbols : call'[t] \in Reading => t \in wants'
  BY <1>1, <1>4, <1>5 DEF CallInv, Reading
<1>8. \A t \in Symbols : (call[t] = "log" =>
         Last(t) \in All /\ ~Get(Last(t)).row /\ (Get(Last(t)).side = "buy" => t \in wants))' 
  <2> TAKE t \in Symbols
  <2>1. CASE t = s
    <3>1. Get(Last(s))' = r
      BY <1>3, <1>6 DEF Get
    <3> QED BY <1>2, <1>3, <1>5, <1>6, <2>1, <3>1
  <2>2. CASE t # s /\ call[t] = "log"
    <3>1. Last(t) \in All /\ ~Get(Last(t)).row /\ (Get(Last(t)).side = "buy" => t \in wants)
      BY <1>1, <2>2 DEF CallInv
    <3>2. Get(Last(t))' = Get(Last(t))
      <4>1. PICK a : a = Last(t) /\ a = Last(t)'
        BY <1>6, <2>2
      <4>2. Get(a)' = Get(a)
        BY <1>3, <3>1, <4>1
      <4> QED BY <4>1, <4>2 DEF Get
    <3> QED BY <1>3, <1>5, <1>6, <2>2, <3>1, <3>2
  <2>3. CASE t # s /\ call[t] # "log"
    BY <1>4, <2>3
  <2> QED BY <2>1, <2>2, <2>3
<1> QED BY <1>7, <1>8 DEF CallInv

\* A step that changes one order's state or row and ends its call or leaves all calls.
LEMMA ChangeCalls ==
  ASSUME TypeOK, CallInv, NEW a, NEW r, Changes(a, r), r.side = Get(a).side,
         \A t \in Symbols : Len(orders'[t]) = Len(orders[t]),
         wants' = wants,
         \/ call' = call /\ r.row = Get(a).row
         \/ call' = [call EXCEPT ![a[1]] = "idle"] /\ a = Last(a[1]) /\ r.row
  PROVE  CallInv'
<1>1. a \in All /\ All' = All /\ \A o \in All : Get(o)' = IF o = a THEN r ELSE Get(o)
  BY DEF Changes
<1>2. \A t \in Symbols : Last(t)' = Last(t)
  BY DEF Last
<1>3. \A t \in Symbols : call'[t] = call[t] \/ (call'[t] = "idle" /\ t = a[1] /\ r.row)
  BY DEF TypeOK
<1>4. \A t \in Symbols : call'[t] \in Reading => t \in wants'
  BY <1>3 DEF CallInv, Reading
<1>5. \A t \in Symbols : (call[t] = "log" =>
         Last(t) \in All /\ ~Get(Last(t)).row /\ (Get(Last(t)).side = "buy" => t \in wants))'
  <2> SUFFICES ASSUME NEW t \in Symbols, call'[t] = "log"
               PROVE  (Last(t) \in All /\ ~Get(Last(t)).row /\ (Get(Last(t)).side = "buy" => t \in wants))'
    OBVIOUS
  <2>1. call[t] = "log"
    BY <1>3
  <2>2. Last(t) \in All /\ ~Get(Last(t)).row /\ (Get(Last(t)).side = "buy" => t \in wants)
    BY <2>1 DEF CallInv
  <2>3. PICK b : b = Last(t) /\ b = Last(t)'
    BY <1>2
  <2>4. b = a => r.row = Get(a).row
    <3>1. b[1] = t
      BY <2>3 DEF Last
    <3> QED BY <2>1, <3>1 DEF TypeOK
  <2>5. ~Get(b)'.row /\ Get(b)'.side = Get(b).side
    BY <1>1, <2>2, <2>3, <2>4
  <2>6. Get(Last(t))' = Get(b)'
    BY <2>3 DEF Get
  <2> QED BY <1>1, <2>2, <2>3, <2>5, <2>6
<1> QED BY <1>4, <1>5 DEF CallInv

LEMMA LogCalls ==
  ASSUME BaseInv, NEW s \in Symbols, Log(s)
  PROVE  CallInv'
<1>1. TypeOK /\ CallInv
  BY DEF BaseInv
<1>2. PICK n \in Nat, r \in Order :
        /\ n = Len(orders[s]) /\ Changes(<<s, n>>, r) /\ r.row /\ r.side = Get(<<s, n>>).side
        /\ \A t \in Symbols : Len(orders'[t]) = Len(orders[t])
  BY <1>1, LogChanges
<1>3. call' = [call EXCEPT ![s] = "idle"] /\ wants' = wants
  BY DEF Log, Return, Goto
<1>4. PICK a : a = <<s, n>>
  OBVIOUS
<1>5. a[1] = s /\ a = Last(a[1])
  BY <1>2, <1>4 DEF Last
<1>6. Changes(a, r) /\ r.side = Get(a).side
  BY <1>2, <1>4
<1> QED BY <1>1, <1>2, <1>3, <1>5, <1>6, ChangeCalls

LEMMA EventCalls ==
  ASSUME BaseInv, NEW s \in Symbols, NEW i \in DOMAIN orders[s], Events(s, i)
  PROVE  CallInv'
<1>1. TypeOK /\ CallInv
  BY DEF BaseInv
<1>2. PICK r \in Order :
        /\ Changes(<<s, i>>, r) /\ r.row = Get(<<s, i>>).row /\ r.side = Get(<<s, i>>).side
        /\ \A t \in Symbols : Len(orders'[t]) = Len(orders[t])
  BY <1>1, EventChanges
<1>3. UNCHANGED <<call, wants>>
  BY EventsLeave
<1> QED BY <1>1, <1>2, <1>3, ChangeCalls

LEMMA NewDayCalls ==
  ASSUME BaseInv, NewDay
  PROVE  CallInv'
<1>1. TypeOK /\ CallInv
  BY DEF BaseInv
<1>2. Remaps /\ call' = call /\ wants' = wants
  BY <1>1, NewDayRemaps
<1>3. \A t \in Symbols : Last(t)' = Last(t)
  BY <1>2, RemapsLeave
<1>4. ASSUME NEW t \in Symbols, call[t] = "log"
      PROVE  (Last(t) \in All /\ ~Get(Last(t)).row /\ (Get(Last(t)).side = "buy" => t \in wants))'
  <2>1. Last(t) \in All /\ ~Get(Last(t)).row /\ (Get(Last(t)).side = "buy" => t \in wants)
    BY <1>1, <1>4 DEF CallInv
  <2>2. PICK a \in All : a = Last(t) /\ a = Last(t)'
    BY <1>3, <2>1
  <2>3. Get(a)'.row = Get(a).row /\ Get(a)'.side = Get(a).side /\ All' = All
    BY <1>2 DEF Remaps
  <2>4. Get(Last(t))' = Get(a)'
    BY <2>2 DEF Get
  <2> QED BY <1>2, <2>1, <2>2, <2>3, <2>4
<1> QED BY <1>1, <1>2, <1>4 DEF CallInv

\* The last place of a symbol has the greatest number.
LEMMA LastIsLast ==
  ASSUME OrdersType, NEW s \in Symbols
  PROVE  /\ Len(orders[s]) \in Nat
         /\ \A o \in All : o[1] = s => o[2] \in Nat /\ o[2] <= Len(orders[s])
<1>1. Len(orders[s]) \in Nat
  BY LenProperties DEF OrdersType
<1>2. \A o \in All : o[2] \in 1..Len(orders[o[1]]) /\ o[2] \in Nat
  BY GetType
<1> QED BY <1>1, <1>2

LEMMA PlaceBase ==
  ASSUME BaseInv, NEW s \in Symbols, Place(s)
  PROVE  BaseInv'
<1>1. TypeOK /\ SellsCovered /\ OrdersType
  BY DEF BaseInv, TypeOK, OrdersType
<1>2. PICK n \in Nat, r \in Order :
        /\ Adds(<<s, n>>, r) /\ n = Len(orders[s]) + 1
        /\ r.side = (IF s \in wants THEN "buy" ELSE "sell")
        /\ r.st = (IF s \in wants \/ Held(s) > 0 THEN "working" ELSE "dead")
  BY <1>1, PlaceAdds
<1>3. \A o \in All : o[1] = s => o[2] < n
  BY <1>1, <1>2, LastIsLast
<1>4. r.st \notin Executed
  BY <1>2 DEF Executed
<1>5. r.side = "sell" /\ r.st \in Live => Held(s) > 0
  BY <1>2 DEF Live, Executed
<1>6. SellsCovered'
  BY <1>1, <1>2, <1>3, <1>4, <1>5, AddKeepsCovered
<1> QED BY <1>6, PlaceType, PlaceCalls DEF BaseInv

LEMMA LogBase ==
  ASSUME BaseInv, NEW s \in Symbols, Log(s)
  PROVE  BaseInv'
<1>1. TypeOK /\ CallInv /\ SellsCovered
  BY DEF BaseInv
<1>2. PICK n \in Nat, r \in Order :
        /\ <<s, n>> \in All /\ Changes(<<s, n>>, r)
        /\ r.side = Get(<<s, n>>).side /\ r.st = Get(<<s, n>>).st
  BY <1>1, LogChanges
<1>3. SellsCovered'
  BY <1>1, <1>2, MarkKeepsCovered
<1> QED BY <1>3, LogType, LogCalls DEF BaseInv

LEMMA EventBase ==
  ASSUME BaseInv, NEW s \in Symbols, NEW i \in DOMAIN orders[s], Events(s, i)
  PROVE  BaseInv'
<1>1. TypeOK /\ SellsCovered
  BY DEF BaseInv
<1>2. PICK r \in Order :
        /\ Changes(<<s, i>>, r) /\ r.side = Get(<<s, i>>).side /\ Becomes(Get(<<s, i>>), r.st)
  BY <1>1, EventChanges
<1>3. SellsCovered'
  <2>1. r.st \in Live => Get(<<s, i>>).st \in Live
    BY <1>2 DEF Live, Executed, Becomes
  <2>2. Get(<<s, i>>).st \in Executed => r.st \in Executed
    BY <1>2 DEF Executed, Becomes
  <2> QED BY <1>1, <1>2, <2>1, <2>2, MarkKeepsCovered
<1> QED BY <1>3, EventType, EventCalls DEF BaseInv

LEMMA DayBase ==
  ASSUME BaseInv, NewDay \/ Restart
  PROVE  BaseInv'
<1>1. Remaps
  BY NewDayRemaps, RestartRemaps DEF BaseInv
<1>2. SellsCovered'
  BY <1>1, RemapsLeave DEF BaseInv
<1>3. CallInv'
  <2>1. Restart => CallInv'
    BY DEF Restart, CallInv, Reading
  <2> QED BY <2>1, NewDayCalls
<1> QED BY <1>2, <1>3, NewDayType, RestartType DEF BaseInv

\* At first there are no orders and no calls.
LEMMA NoOrders ==
  ASSUME Init
  PROVE  All = {} /\ OrdersType /\ \A side, sts : Of(side, sts) = {}
<1>1. orders = [s \in Symbols |-> <<>>]
  BY DEF Init
<1>2. <<>> \in Seq(Order) /\ DOMAIN <<>> = {}
  OBVIOUS
<1>3. All = {}
  BY <1>1, <1>2 DEF All
<1> QED BY <1>1, <1>2, <1>3 DEF OrdersType, Of

LEMMA InitBase == Init => BaseInv
<1> SUFFICES ASSUME Init PROVE BaseInv
  OBVIOUS
<1>1. All = {} /\ OrdersType /\ \A side, sts : Of(side, sts) = {}
  BY NoOrders
<1>2. TypeOK
  BY <1>1 DEF Init, TypeOK, OrdersType
<1>3. CallInv
  BY <1>1 DEF Init, CallInv, Reading
<1>4. SellsCovered
  BY <1>1 DEF SellsCovered
<1> QED BY <1>2, <1>3, <1>4 DEF BaseInv

LEMMA NextBase == BaseInv /\ [Next]_vars => BaseInv'
<1> SUFFICES ASSUME BaseInv, [Next]_vars PROVE BaseInv'
  OBVIOUS
<1>1. CASE \E s \in Symbols : Quiet(s)
  <2>1. PICK s \in Symbols : Quiet(s)
    BY <1>1
  <2>2. SellsCovered'
    BY <2>1, QuietOrders, SameOrders DEF BaseInv
  <2> QED BY <2>1, <2>2, QuietType, QuietCalls DEF BaseInv
<1>2. CASE \E s \in Symbols : Place(s)
  BY <1>2, PlaceBase
<1>3. CASE \E s \in Symbols : Log(s)
  BY <1>3, LogBase
<1>4. CASE \E s \in Symbols : \E i \in DOMAIN orders[s] : Events(s, i)
  BY <1>4, EventBase
<1>5. CASE NewDay \/ Restart
  BY <1>5, DayBase
<1>6. CASE UNCHANGED vars
  <2>1. UNCHANGED <<orders, call, wants, reads, history, failures, days>>
    BY <1>6 DEF vars
  <2>2. SellsCovered'
    BY <2>1, SameOrders DEF BaseInv
  <2>3. TypeOK'
    BY <2>1 DEF BaseInv, TypeOK, All, Get, reads, history
  <2>4. CallInv'
    BY <2>1 DEF BaseInv, CallInv, All, Get, Last
  <2> QED BY <2>2, <2>3, <2>4 DEF BaseInv
<1> QED BY <1>1, <1>2, <1>3, <1>4, <1>5, <1>6, Steps

\* Type correctness, with the fact that what the tracker holds has its row.
THEOREM TypeCorrect == Spec => []TypeOK
<1>1. BaseInv => TypeOK
  BY DEF BaseInv
<1> QED BY <1>1, InitBase, NextBase, PTL DEF Spec

-----------------------------------------------------------------------------
(* The account is overdrawn by what the orders did not see *)

\* What a step other than Place leaves of the account and of the calls.
Drift(s) ==
  /\ BuyingPower' >= BuyingPower /\ UnseenCost' = UnseenCost
  /\ wants' = wants
  /\ \A t \in Symbols :
       \/ call'[t] = "idle" /\ t = s
       \/ call'[t] = call[t] /\ power'[t] = power[t] /\ price'[t] = price[t] /\ unseen'[t] = unseen[t]

LEMMA LogDrifts ==
  ASSUME BaseInv, NEW s \in Symbols, Log(s)
  PROVE  Drift(s)
<1>1. TypeOK /\ CallInv /\ OrdersType
  BY DEF BaseInv, TypeOK, OrdersType
<1>2. PICK n \in Nat, r \in Order :
        /\ Changes(<<s, n>>, r) /\ r.side = Get(<<s, n>>).side /\ r.price = Get(<<s, n>>).price
        /\ r.st = Get(<<s, n>>).st /\ r.unseen = Get(<<s, n>>).unseen
  BY <1>1, LogChanges
<1>3. CashOf(r) = CashOf(Get(<<s, n>>))
  BY <1>2 DEF CashOf
<1>4. CashOf(r) \in Int /\ BuyingPower \in Int
  <2>1. r.price \in Nat
    BY DEF Order
  <2> QED BY <1>1, <2>1, BuyingPowerIsSum DEF CashOf
<1>5. BuyingPower' >= BuyingPower /\ UnseenCost' = UnseenCost
  <2>1. BuyingPower' = BuyingPower - CashOf(Get(<<s, n>>)) + CashOf(r) /\ UnseenCost' = UnseenCost
    BY <1>2, ChangedSums
  <2> QED BY <1>3, <1>4, <2>1
<1>6. wants' = wants
  BY DEF Log
<1>7. \A t \in Symbols :
       \/ call'[t] = "idle" /\ t = s
       \/ call'[t] = call[t] /\ power'[t] = power[t] /\ price'[t] = price[t] /\ unseen'[t] = unseen[t]
  BY <1>1 DEF TypeOK, Log, Return, Drop, Goto
<1> QED BY <1>5, <1>6, <1>7 DEF Drift

LEMMA EventDrifts ==
  ASSUME BaseInv, NEW s \in Symbols, NEW i \in DOMAIN orders[s], Events(s, i)
  PROVE  Drift(s)
<1>1. TypeOK /\ OrdersType
  BY DEF BaseInv, TypeOK, OrdersType
<1>2. PICK r \in Order :
        /\ Changes(<<s, i>>, r) /\ <<s, i>> \in All
        /\ r.side = Get(<<s, i>>).side /\ r.price = Get(<<s, i>>).price
        /\ r.unseen = Get(<<s, i>>).unseen
        /\ Becomes(Get(<<s, i>>), r.st)
  BY <1>1, EventChanges
<1>3. r.price \in Nat /\ BuyingPower \in Int
  BY <1>1, BuyingPowerIsSum DEF Order
<1>4. CashOf(r) >= CashOf(Get(<<s, i>>)) /\ CashOf(r) \in Int /\ CashOf(Get(<<s, i>>)) \in Int
  BY <1>2, <1>3 DEF CashOf, Live, Executed, Becomes
<1>5. BuyingPower' >= BuyingPower /\ UnseenCost' = UnseenCost
  <2>1. BuyingPower' = BuyingPower - CashOf(Get(<<s, i>>)) + CashOf(r) /\ UnseenCost' = UnseenCost
    BY <1>2, ChangedSums
  <2> QED BY <1>3, <1>4, <2>1
<1>6. UNCHANGED <<call, wants, reads, history>>
  BY EventsLeave
<1> QED BY <1>5, <1>6 DEF Drift, reads, history

LEMMA DayDrifts ==
  ASSUME BaseInv, NewDay
  PROVE  \A s : Drift(s)
<1>1. OrdersType /\ TypeOK
  BY DEF BaseInv, TypeOK, OrdersType
<1>2. Remaps /\ UNCHANGED <<call, wants, reads, history>>
  BY <1>1, NewDayRemaps
<1>3. BuyingPower' = BuyingPower /\ UnseenCost' = UnseenCost /\ BuyingPower \in Int
  BY <1>1, <1>2, RemapsLeave, BuyingPowerIsSum
<1>4. BuyingPower' >= BuyingPower
  BY <1>3
<1> QED BY <1>2, <1>3, <1>4 DEF Drift, reads, history

\* After a restart no call reckons with the buying power.
LEMMA RestartOverdraft ==
  ASSUME BaseInv, PowerInv /\ BuyingPower >= -UnseenCost, Restart
  PROVE  (PowerInv /\ BuyingPower >= -UnseenCost)'
<1>1. Remaps
  BY RestartRemaps DEF BaseInv
<1>2. BuyingPower' = BuyingPower /\ UnseenCost' = UnseenCost
  BY <1>1, RemapsLeave
<1>3. PowerInv'
  BY DEF Restart, PowerInv
<1> QED BY <1>2, <1>3

OverdraftInv == PowerInv /\ BuyingPower >= -UnseenCost

LEMMA DriftOverdraft ==
  ASSUME TypeOK, TypeOK', OverdraftInv, NEW s, Drift(s)
  PROVE  OverdraftInv'
<1>1. BuyingPower \in Int /\ BuyingPower' \in Int /\ UnseenCost \in Nat
  <2>1. OrdersType /\ OrdersType'
    BY DEF TypeOK, OrdersType
  <2>2. (OrdersType => BuyingPower \in Int)'
    BY BuyingPowerIsSum, PTL
  <2> QED BY <2>1, <2>2, BuyingPowerIsSum, UnseenCostType
<1>2. BuyingPower' >= BuyingPower /\ UnseenCost' = UnseenCost
  BY DEF Drift
<1>3. BuyingPower' >= -UnseenCost'
  BY <1>1, <1>2 DEF OverdraftInv
<1>4. PowerInv'
  <2> SUFFICES ASSUME NEW t \in Symbols
               PROVE  /\ call'[t] = "quote" => BuyingPower' >= power'[t] - unseen'[t]
                      /\ call'[t] = "place" /\ t \in wants' =>
                           BuyingPower' - price'[t] >= -unseen'[t] \/ price'[t] <= unseen'[t]
    BY DEF PowerInv
  <2>1. \/ call'[t] = "idle"
        \/ call'[t] = call[t] /\ power'[t] = power[t] /\ price'[t] = price[t] /\ unseen'[t] = unseen[t]
    BY DEF Drift
  <2>2. wants' = wants
    BY DEF Drift
  <2>3. power[t] \in Int /\ price[t] \in Nat /\ unseen[t] \in Nat
    BY DEF TypeOK
  <2>4. /\ call[t] = "quote" => BuyingPower >= power[t] - unseen[t]
        /\ call[t] = "place" /\ t \in wants =>
             BuyingPower - price[t] >= -unseen[t] \/ price[t] <= unseen[t]
    BY DEF OverdraftInv, PowerInv
  <2> QED BY <1>1, <1>2, <2>1, <2>2, <2>3, <2>4
<1> QED BY <1>3, <1>4 DEF OverdraftInv

LEMMA PlaceOverdraft ==
  ASSUME BaseInv, OverdraftInv, NEW s \in Symbols, Place(s)
  PROVE  OverdraftInv'
<1>1. TypeOK /\ CallInv /\ OrdersType
  BY DEF BaseInv, TypeOK, OrdersType
<1>2. PICK n \in Nat, r \in Order :
        /\ Adds(<<s, n>>, r)
        /\ r.side = (IF s \in wants THEN "buy" ELSE "sell") /\ r.price = price[s]
        /\ r.st = (IF s \in wants \/ Held(s) > 0 THEN "working" ELSE "dead")
        /\ r.unseen = unseen[s]
  BY <1>1, PlaceAdds
<1>3. BuyingPower \in Int /\ UnseenCost \in Nat /\ price[s] \in Nat /\ unseen[s] \in Nat
  BY <1>1, BuyingPowerIsSum, UnseenCostType DEF TypeOK
<1>4. CashOf(r) = IF s \in wants THEN -price[s] ELSE 0
  BY <1>2 DEF CashOf, Live, Executed
<1>5. BuyingPower' = (IF s \in wants THEN BuyingPower - price[s] ELSE BuyingPower)
      /\ UnseenCost' = UnseenCost + unseen[s]
  BY <1>2, <1>3, <1>4, AddedSums
<1>6. call[s] = "place" /\ call'[s] = "log" /\ \A t \in Symbols \ {s} : call'[t] = call[t]
  BY <1>1 DEF TypeOK, Place, Goto
<1>7. wants' = wants /\ power' = power /\ \A t \in Symbols \ {s} : price'[t] = price[t]
  BY <1>1 DEF Place, Drop, TypeOK
<1>8. \A t \in Symbols \ {s} : unseen'[t] =
        IF s \in wants /\ call[t] \in {"quote", "place"} /\ t \in wants
        THEN unseen[t] + price[s] ELSE unseen[t]
  BY DEF Place
<1>9. BuyingPower' >= -UnseenCost'
  <2>1. BuyingPower >= -UnseenCost
    BY DEF OverdraftInv
  <2>2. s \in wants => BuyingPower - price[s] >= -unseen[s] \/ price[s] <= unseen[s]
    BY <1>6 DEF OverdraftInv, PowerInv
  <2> QED BY <1>3, <1>5, <2>1, <2>2
<1>10. PowerInv'
  <2> SUFFICES ASSUME NEW t \in Symbols
               PROVE  /\ call'[t] = "quote" => BuyingPower' >= power'[t] - unseen'[t]
                      /\ call'[t] = "place" /\ t \in wants' =>
                           BuyingPower' - price'[t] >= -unseen'[t] \/ price'[t] <= unseen'[t]
    BY DEF PowerInv
  <2>1. CASE t = s
    BY <1>6, <2>1
  <2>2. CASE t # s
    <3>1. power[t] \in Int /\ price[t] \in Nat /\ unseen[t] \in Nat
      BY <1>1 DEF TypeOK
    <3>2. call'[t] = call[t] /\ power'[t] = power[t] /\ price'[t] = price[t] /\ wants' = wants
      BY <1>6, <1>7, <2>2
    <3>3. call[t] = "quote" => t \in wants
      BY <1>1 DEF CallInv, Reading
    <3>4. /\ call[t] = "quote" => BuyingPower >= power[t] - unseen[t]
          /\ call[t] = "place" /\ t \in wants =>
               BuyingPower - price[t] >= -unseen[t] \/ price[t] <= unseen[t]
      BY DEF OverdraftInv, PowerInv
    <3>5. CASE s \in wants /\ t \in wants /\ call[t] \in {"quote", "place"}
      <4>1. unseen'[t] = unseen[t] + price[s] /\ BuyingPower' = BuyingPower - price[s]
        BY <1>5, <1>8, <2>2, <3>5
      <4> QED BY <1>3, <3>1, <3>2, <3>4, <4>1
    <3>6. CASE ~ (s \in wants /\ t \in wants /\ call[t] \in {"quote", "place"})
      <4>1. unseen'[t] = unseen[t]
        BY <1>8, <2>2, <3>6
      <4> QED BY <1>5, <3>2, <3>3, <3>4, <3>6, <4>1
    <3> QED BY <3>5, <3>6
  <2> QED BY <2>1, <2>2
<1> QED BY <1>9, <1>10 DEF OverdraftInv

LEMMA QuietOverdraft ==
  ASSUME BaseInv, OverdraftInv, NEW s \in Symbols, Quiet(s)
  PROVE  OverdraftInv'
<1>1. TypeOK /\ CallInv /\ OrdersType
  BY DEF BaseInv, TypeOK, OrdersType
<1>2. BuyingPower' = BuyingPower /\ UnseenCost' = UnseenCost
  BY QuietOrders, SameOrders
<1>3. BuyingPower \in Int
  BY <1>1, BuyingPowerIsSum
<1>4. \A t \in Symbols \ {s} : call'[t] = call[t] /\ power'[t] = power[t] /\ price'[t] = price[t]
        /\ unseen'[t] = unseen[t] /\ (t \in wants' <=> t \in wants)
  BY <1>1 DEF TypeOK, reads, history, Quiet, Goto, Return, Drop, RouteEntry, RouteExit, ReadFlow, LimitBlocks, MaxBlocks,
       Admit, ReadAccount, PowerAllows, PowerBlocks, QuoteFails, CallFails
<1>5. /\ call'[s] = "quote" => BuyingPower >= power'[s] - unseen'[s]
      /\ call'[s] = "place" /\ s \in wants' =>
           BuyingPower - price'[s] >= -unseen'[s] \/ price'[s] <= unseen'[s]
  <2>1. CASE ReadAccount(s)
    <3>1. call'[s] = "quote" /\ power'[s] = BuyingPower /\ unseen'[s] = 0
      BY <1>1, <2>1 DEF ReadAccount, Goto, TypeOK
    <3> QED BY <1>3, <3>1
  <2>2. CASE PowerAllows(s)
    <3>1. PICK p \in Prices : 100 * p <= 95 * power[s] /\ price' = [price EXCEPT ![s] = p]
      BY <2>2 DEF PowerAllows
    <3>2. call'[s] = "place" /\ price'[s] = p /\ unseen'[s] = unseen[s]
      BY <1>1, <2>2, <3>1 DEF PowerAllows, Goto, TypeOK, history
    <3>3. p \in Nat /\ power[s] \in Int /\ unseen[s] \in Nat
      BY <1>1, PricesAssumption DEF PricesAssumption, TypeOK
    <3>4. BuyingPower >= power[s] - unseen[s]
      BY <2>2 DEF PowerAllows, OverdraftInv, PowerInv
    <3>5. p <= power[s]
      BY <3>1, <3>3
    <3> QED BY <1>3, <3>2, <3>3, <3>4, <3>5
  <2>3. CASE QuoteFails(s)
    <3>1. PICK p \in Prices : price' = [price EXCEPT ![s] = p] /\ unseen' = [unseen EXCEPT ![s] = @ + p]
      BY <2>3 DEF QuoteFails
    <3>2. call'[s] = "place" /\ price'[s] = p /\ unseen'[s] = unseen[s] + p
      BY <1>1, <2>3, <3>1 DEF QuoteFails, Goto, TypeOK
    <3>3. p \in Nat /\ unseen[s] \in Nat
      BY <1>1, PricesAssumption DEF PricesAssumption, TypeOK
    <3> QED BY <3>2, <3>3
  <2>4. CASE RouteExit(s)
    <3>1. call'[s] = "place" /\ s \notin wants'
      BY <1>1, <2>4 DEF RouteExit, Goto, TypeOK
    <3> QED BY <3>1
  <2>5. CASE ~ (ReadAccount(s) \/ PowerAllows(s) \/ QuoteFails(s) \/ RouteExit(s))
    <3>1. call'[s] \notin {"quote", "place"}
      BY <1>1, <2>5 DEF TypeOK, Quiet, Goto, Return, RouteEntry, ReadFlow, LimitBlocks, MaxBlocks,
           Admit, PowerBlocks, CallFails
    <3> QED BY <3>1
  <2> QED BY <2>1, <2>2, <2>3, <2>4, <2>5
<1> QED BY <1>2, <1>4, <1>5 DEF OverdraftInv, PowerInv

LEMMA InitOverdraft == Init => OverdraftInv
<1> SUFFICES ASSUME Init PROVE OverdraftInv
  OBVIOUS
<1>1. All = {} /\ OrdersType
  BY NoOrders
<1>2. BuyingPower = Power /\ UnseenCost = 0
  <2>1. SumFunctionOnSet(Cash, {}) = 0 /\ SumFunctionOnSet(Unseen, {}) = 0
    BY SumEmpty
  <2>2. BuyingPower = Power + SumFunctionOnSet(Cash, All)
    BY <1>1, BuyingPowerIsSum
  <2> QED BY <1>1, <2>1, <2>2, LimitsAssumption DEF LimitsAssumption, UnseenCost
<1>3. PowerInv
  BY DEF Init, PowerInv
<1> QED BY <1>2, <1>3, LimitsAssumption DEF LimitsAssumption, OverdraftInv

LEMMA NextOverdraft == BaseInv /\ OverdraftInv /\ [Next]_vars => OverdraftInv'
<1> SUFFICES ASSUME BaseInv, OverdraftInv, [Next]_vars PROVE OverdraftInv'
  OBVIOUS
<1>1. TypeOK /\ TypeOK'
  BY NextBase DEF BaseInv
<1>2. CASE \E s \in Symbols : Quiet(s)
  BY <1>2, QuietOverdraft
<1>3. CASE \E s \in Symbols : Place(s)
  BY <1>3, PlaceOverdraft
<1>4. CASE \E s \in Symbols : Log(s)
  BY <1>1, <1>4, LogDrifts, DriftOverdraft
<1>5. CASE \E s \in Symbols : \E i \in DOMAIN orders[s] : Events(s, i)
  BY <1>1, <1>5, EventDrifts, DriftOverdraft
<1>6. CASE NewDay
  BY <1>1, <1>6, DayDrifts, DriftOverdraft
<1>7. CASE Restart
  BY <1>7, RestartOverdraft DEF OverdraftInv
<1>8. CASE UNCHANGED vars
  <2>1. orders' = orders /\ UNCHANGED <<call, wants, power, price, unseen>>
    BY <1>8 DEF vars, reads, history
  <2> QED BY <2>1, SameOrders DEF OverdraftInv, PowerInv
<1> QED BY <1>2, <1>3, <1>4, <1>5, <1>6, <1>7, <1>8, Steps

\* The account is overdrawn by no more than the cost the orders did not see.
THEOREM OverdraftBounded == Spec => []OverdraftWithinUnseen
<1>1. OverdraftInv => OverdraftWithinUnseen
  BY DEF OverdraftInv, OverdraftWithinUnseen, UnseenCost, Unseen
<1> QED BY <1>1, InitBase, NextBase, InitOverdraft, NextOverdraft, PTL DEF Spec

-----------------------------------------------------------------------------
(* A realized loss stops the entries *)

\* Buys are the orders that buy, whatever became of them.
LEMMA BuysAreBuys ==
  ASSUME OrdersType
  PROVE  \A o : o \in Buys <=> o \in All /\ Get(o).side = "buy"
<1>1. \A o \in All : Get(o).st \in Statuses
  BY GetType DEF Order, Statuses
<1> QED BY <1>1 DEF Buys, Of, Executed, Statuses

\* A step on one order keeps what was noted on each when it was sent.
LEMMA ChangedBuys ==
  ASSUME NEW a, NEW r, Changes(a, r), r.side = Get(a).side
  PROVE  /\ Buys' = Buys
         /\ r.crowd = Get(a).crowd => \A o \in Buys : Get(o)'.crowd = Get(o).crowd
<1>1. OrdersType /\ OrdersType' /\ All' = All /\ \A o \in All : Get(o)' = IF o = a THEN r ELSE Get(o)
  BY DEF Changes
<1>2. (OrdersType => \A o : o \in Buys <=> o \in All /\ Get(o).side = "buy")'
  <2>1. ASSUME NEW o, OrdersType' PROVE o \in Buys' <=> o \in All' /\ Get(o)'.side = "buy"
    <3>1. \A p \in All' : Get(p)'.st \in Statuses
      <4>1. \A p \in All : Get(p).st \in Statuses
        BY <1>1, GetType DEF Order, Statuses
      <4>2. r.st \in Statuses
        BY DEF Changes, Order, Statuses
      <4> QED BY <1>1, <4>1, <4>2
    <3> QED BY <3>1 DEF Buys, Of, Executed, Statuses
  <2> QED BY <2>1
<1>3. \A o : o \in Buys <=> o \in All /\ Get(o).side = "buy"
  BY <1>1, BuysAreBuys
<1>4. Buys' = Buys
  BY <1>1, <1>2, <1>3
<1> QED BY <1>1, <1>3, <1>4

LEMMA AddedBuys ==
  ASSUME NEW a, NEW r, Adds(a, r)
  PROVE  /\ Buys' = IF r.side = "buy" THEN Buys \cup {a} ELSE Buys
         /\ a \notin Buys /\ \A o \in Buys : Get(o)' = Get(o)
<1>1. /\ OrdersType /\ r \in Order /\ a \notin All
      /\ All' = All \cup {a} /\ Get(a)' = r /\ \A o \in All : Get(o)' = Get(o)
  BY DEF Adds
<1>2. \A o : o \in Buys <=> o \in All /\ Get(o).side = "buy"
  BY <1>1, BuysAreBuys
<1>3. r.st \in Statuses /\ \A o \in All : Get(o).st \in Statuses
  BY <1>1, GetType DEF Order, Statuses
<1>4. \A o : o \in Buys' <=> o \in All' /\ Get(o)'.side = "buy"
  <2>1. \A o \in All' : Get(o)'.st \in Statuses
    BY <1>1, <1>3
  <2> QED BY <2>1 DEF Buys, Of, Executed, Statuses
<1> QED BY <1>1, <1>2, <1>4

\* The calls stay where they are, or some end.
Calm ==
  /\ \A t \in Symbols :
       \/ call'[t] = "idle"
       \/ /\ call'[t] = call[t] /\ (t \in wants' <=> t \in wants)
          /\ UNCHANGED <<count[t], pnl[t], crowd[t], loss[t], carried[t]>>

LEMMA LogCalm ==
  ASSUME TypeOK, NEW s \in Symbols, Log(s)
  PROVE  Calm /\ call[s] = "log" /\ call'[s] = "idle"
         /\ \A t \in Symbols \ {s} : call'[t] = call[t] /\ crowd'[t] = crowd[t]
BY DEF TypeOK, Log, Return, Drop, Goto, Calm

LEMMA EventCalm ==
  ASSUME NEW s, NEW i, Events(s, i)
  PROVE  Calm
BY EventsLeave DEF Calm, reads, history

LEMMA DayCalm ==
  ASSUME TypeOK, NewDay \/ Restart
  PROVE  Calm
<1>1. NewDay => Calm
  BY DEF NewDay, Calm, reads, history
<1>2. Restart => Calm
  BY DEF Restart, Calm
<1> QED BY <1>1, <1>2

LossStops == LossInv /\ LossStopsEntries

LEMMA CalmLoss ==
  ASSUME LossStops, Calm
  PROVE  LossStops'
<1> SUFFICES ASSUME NEW t \in Symbols
             PROVE  /\ call'[t] = "flowRead" => loss'[t] + carried'[t] >= pnl'[t]
                    /\ call'[t] = "account" => loss'[t] + carried'[t] > -Limit
  BY DEF LossStops, LossInv, LossStopsEntries
<1> QED BY DEF Calm, LossStops, LossInv, LossStopsEntries

\* An order that is sent says nothing of the calls that read the flow.
LEMMA PlaceLoss ==
  ASSUME TypeOK, LossStops, NEW s \in Symbols, Place(s)
  PROVE  LossStops'
<1>1. loss' = loss /\ carried' = carried /\ pnl' = pnl
  BY DEF Place
<1>2. call'[s] = "log" /\ \A t \in Symbols \ {s} : call'[t] = call[t]
  BY DEF TypeOK, Place, Goto
<1> QED BY <1>1, <1>2 DEF LossStops, LossInv, LossStopsEntries

\* The calls of the other symbols stay where they are.
LEMMA QuietOthers ==
  ASSUME TypeOK, NEW s \in Symbols, Quiet(s)
  PROVE  \A t \in Symbols \ {s} :
           /\ call'[t] = call[t] /\ (t \in wants' <=> t \in wants)
           /\ count'[t] = count[t] /\ pnl'[t] = pnl[t] /\ crowd'[t] = crowd[t]
           /\ loss'[t] = loss[t] /\ carried'[t] = carried[t]
BY DEF TypeOK, reads, history, Quiet, Goto, Return, Drop, RouteEntry, RouteExit, ReadFlow, LimitBlocks, MaxBlocks,
     Admit, ReadAccount, PowerAllows, PowerBlocks, QuoteFails, CallFails

\* How a call may come to where the limits matter.
LEMMA QuietMoves ==
  ASSUME TypeOK, NEW s \in Symbols, Quiet(s)
  PROVE  /\ call'[s] = "flow" => RouteEntry(s)
         /\ call'[s] = "flowRead" => ReadFlow(s)
         /\ Admitted(s)' => Admitted(s) \/ Admit(s)
         /\ call'[s] = "account" => Admit(s)
         /\ Admitted(s)' => UNCHANGED crowd[s]
<1>1. call'[s] = "flow" => RouteEntry(s)
  BY DEF TypeOK, Quiet, Goto, Return, RouteEntry, RouteExit, ReadFlow, LimitBlocks, MaxBlocks,
     Admit, ReadAccount, PowerAllows, PowerBlocks, QuoteFails, CallFails
<1>2. call'[s] = "flowRead" => ReadFlow(s)
  BY DEF TypeOK, Quiet, Goto, Return, RouteEntry, RouteExit, ReadFlow, LimitBlocks, MaxBlocks,
     Admit, ReadAccount, PowerAllows, PowerBlocks, QuoteFails, CallFails
<1>3. Admitted(s)' => Admit(s) \/ ReadAccount(s) \/ PowerAllows(s) \/ QuoteFails(s)
  BY DEF TypeOK, Admitted, Quiet, Goto, Return, RouteEntry, RouteExit, ReadFlow, LimitBlocks, MaxBlocks,
     Admit, ReadAccount, PowerAllows, PowerBlocks, QuoteFails, CallFails
<1>4. ReadAccount(s) \/ PowerAllows(s) \/ QuoteFails(s) => Admitted(s)
  BY DEF Admitted, ReadAccount, PowerAllows, QuoteFails
<1>5. Admit(s) \/ ReadAccount(s) \/ PowerAllows(s) \/ QuoteFails(s) => UNCHANGED crowd[s]
  BY DEF history, Admit, ReadAccount, PowerAllows, QuoteFails
<1>6. call'[s] = "account" => Admit(s)
  BY DEF TypeOK, Quiet, Goto, Return, RouteEntry, RouteExit, ReadFlow, LimitBlocks, MaxBlocks,
     Admit, ReadAccount, PowerAllows, PowerBlocks, QuoteFails, CallFails
<1> QED BY <1>1, <1>2, <1>3, <1>4, <1>5, <1>6

LEMMA QuietLoss ==
  ASSUME BaseInv, LossStops, NEW s \in Symbols, Quiet(s)
  PROVE  LossStops'
<1>1. TypeOK /\ SellsCovered /\ OrdersType
  BY DEF BaseInv, TypeOK, OrdersType
<1>2. call'[s] = "flowRead" => loss'[s] + carried'[s] >= pnl'[s]
  <2> SUFFICES ASSUME call'[s] = "flowRead" PROVE loss'[s] + carried'[s] >= pnl'[s]
    OBVIOUS
  <2>1. loss'[s] = Realized /\ carried'[s] = Carried /\ pnl'[s] = Flow
    BY <1>1, QuietMoves DEF ReadFlow, TypeOK
  <2>2. Flow <= Realized + Carried /\ Flow \in Int /\ Realized \in Int /\ Carried \in Nat
    BY <1>1, FlowWithinRealized, FlowIsSum, RealizedType
  <2> QED BY <2>1, <2>2
<1>3. call'[s] = "account" => loss'[s] + carried'[s] > -Limit
  <2> SUFFICES ASSUME call'[s] = "account" PROVE loss'[s] + carried'[s] > -Limit
    OBVIOUS
  <2>1. Admit(s)
    BY <1>1, QuietMoves
  <2>2. pnl[s] > -Limit /\ loss[s] + carried[s] >= pnl[s] /\ loss' = loss /\ carried' = carried
    BY <2>1 DEF Admit, LossStops, LossInv, history
  <2>3. pnl[s] \in Int /\ loss[s] \in Int /\ carried[s] \in Nat /\ -Limit \in Int
    BY <1>1, LimitsAssumption DEF TypeOK, LimitsAssumption
  <2> QED BY <2>2, <2>3
<1>4. \A t \in Symbols \ {s} :
        /\ call'[t] = call[t] /\ pnl'[t] = pnl[t]
        /\ loss'[t] = loss[t] /\ carried'[t] = carried[t]
  BY <1>1, QuietOthers
<1> QED BY <1>2, <1>3, <1>4 DEF LossStops, LossInv, LossStopsEntries

LEMMA InitLoss == Init => LossStops
BY DEF Init, LossStops, LossInv, LossStopsEntries

LEMMA NextLoss == BaseInv /\ LossStops /\ [Next]_vars => LossStops'
<1> SUFFICES ASSUME BaseInv, LossStops, [Next]_vars PROVE LossStops'
  OBVIOUS
<1>1. TypeOK
  BY DEF BaseInv
<1>2. CASE \E s \in Symbols : Quiet(s)
  BY <1>2, QuietLoss
<1>3. CASE \E s \in Symbols : Place(s)
  BY <1>1, <1>3, PlaceLoss
<1>4. CASE \E s \in Symbols : Log(s)
  BY <1>1, <1>4, LogCalm, CalmLoss
<1>5. CASE \E s \in Symbols : \E i \in DOMAIN orders[s] : Events(s, i)
  BY <1>5, EventCalm, CalmLoss
<1>6. CASE NewDay \/ Restart
  BY <1>1, <1>6, DayCalm, CalmLoss
<1>7. CASE UNCHANGED vars
  BY <1>7 DEF vars, reads, history, LossStops, LossInv, LossStopsEntries
<1> QED BY <1>2, <1>3, <1>4, <1>5, <1>6, <1>7, Steps

\* A realized loss that reaches the limit lets an entry pass only as far as the flow has
\* sales without their purchases.
THEOREM LossStopped == Spec => []LossStopsEntries
<1>1. LossStops => LossStopsEntries
  BY DEF LossStops
<1> QED BY <1>1, InitBase, NextBase, InitLoss, NextLoss, PTL DEF Spec

-----------------------------------------------------------------------------
(* Entries that do not overlap are alone *)

Lone(s) == Ordering(s) /\ ~crowd[s]

\* No entry becomes lone, and no buy pending, by the step.
LEMMA AloneStays ==
  ASSUME Alone,
         \A t \in Symbols : Lone(t)' => Lone(t),
         \A o \in All' : Pending(o)' => o \in All /\ Pending(o)
  PROVE  Alone'
BY DEF Alone, Lone

\* A call for an entry, and a buy not yet booked, make the next entry crowded.
LEMMA EntryIsCrowded ==
  ASSUME BaseInv, NEW s \in Symbols, RouteEntry(s), ~crowd'[s]
  PROVE  /\ \A t \in Symbols : ~Ordering(t)
         /\ \A o \in All : ~Pending(o) /\ ~ (Get(o).side = "buy" /\ Get(o).st \in {"working", "filled"})
<1>1. TypeOK /\ CallInv
  BY DEF BaseInv
<1>2. \A t \in Symbols : ~Entering(t)
  <2>1. crowd'[s] = \E t \in Symbols : Entering(t)
    BY <1>1 DEF RouteEntry, TypeOK
  <2> QED BY <2>1
<1>3. ASSUME NEW t \in Symbols PROVE ~Ordering(t)
  BY <1>1, <1>2 DEF Ordering, Reading, CallInv, Entering, InCall
<1>4. ASSUME NEW o \in All, Get(o).side = "buy", Get(o).st \in {"working", "filled"} PROVE FALSE
  <2>1. o[1] \in Symbols /\ o[2] \in DOMAIN orders[o[1]] /\ Get(o) = orders[o[1]][o[2]]
    BY AllPairs DEF Get
  <2> QED BY <1>2, <1>4, <2>1 DEF Entering
<1>5. ASSUME NEW o \in All, Pending(o) PROVE FALSE
  <2>1. CASE Get(o).st \in {"working", "filled"}
    BY <1>4, <1>5, <2>1 DEF Pending
  <2>2. CASE call[o[1]] = "log" /\ o = Last(o[1])
    <3>1. o[1] \in Symbols
      BY AllPairs
    <3>2. o[1] \in wants
      BY <1>1, <1>5, <2>2, <3>1 DEF CallInv, Pending
    <3> QED BY <1>2, <2>2, <3>1, <3>2 DEF Entering, InCall
  <2> QED BY <1>5, <2>1, <2>2 DEF Pending
<1> QED BY <1>3, <1>4, <1>5

\* A call that does not send its order leaves the buys pending, or not.
LEMMA QuietPending ==
  ASSUME TypeOK, NEW s \in Symbols, Quiet(s)
  PROVE  \A o \in All' : Pending(o)' => o \in All /\ Pending(o)
<1>1. All' = All /\ (\A o : Get(o)' = Get(o)) /\ \A t : Last(t)' = Last(t)
  BY QuietOrders, SameOrders
<1>2. call'[s] # "log"
  BY DEF TypeOK, Quiet, Goto, Return, Drop, RouteEntry, RouteExit, ReadFlow, LimitBlocks, MaxBlocks, Admit,
       ReadAccount, PowerAllows, PowerBlocks, QuoteFails, CallFails
<1>3. \A o \in All : call'[o[1]] = "log" => call[o[1]] = "log"
  BY <1>2, AllPairs, QuietOthers
<1>4. \A t : Last(t)' = Last(t)
  BY QuietOrders DEF Last
<1> SUFFICES ASSUME NEW o \in All, Pending(o)' PROVE Pending(o)
  BY <1>1
<1>5. Get(o)' = Get(o)
  BY QuietOrders DEF Get
<1>6. o = Last(o[1])' => o = Last(o[1])
  BY <1>4
<1> QED BY <1>3, <1>5, <1>6 DEF Pending

LEMMA QuietAlone ==
  ASSUME BaseInv, Alone, NEW s \in Symbols, Quiet(s)
  PROVE  Alone'
<1>1. TypeOK /\ CallInv
  BY DEF BaseInv
<1>2. \A o \in All' : Pending(o)' => o \in All /\ Pending(o)
  BY <1>1, QuietPending
<1>3. \A t \in Symbols \ {s} : Lone(t)' <=> Lone(t)
  BY <1>1, QuietOthers DEF Lone, Ordering
<1>4. CASE RouteEntry(s)
  <2>1. CASE crowd'[s]
    <3>1. \A t \in Symbols : Lone(t)' => Lone(t)
      BY <1>3, <2>1 DEF Lone
    <3> QED BY <1>2, <3>1, AloneStays
  <2>2. CASE ~crowd'[s]
    <3>1. (\A t \in Symbols : ~Lone(t)) /\ \A o \in All : ~Pending(o)
      BY <1>4, <2>2, EntryIsCrowded DEF Lone
    <3>2. \A t \in Symbols : Lone(t)' => t = s
      BY <1>3, <3>1
    <3>3. \A o \in All' : ~Pending(o)'
      BY <1>2, <3>1
    <3> QED BY <3>2, <3>3 DEF Alone, Lone
  <2> QED BY <2>1, <2>2
<1>5. CASE ~RouteEntry(s)
  <2>1. Ordering(s)' => Ordering(s) /\ crowd'[s] = crowd[s]
    <3>1. CASE RouteExit(s)
      BY <1>1, <3>1 DEF TypeOK, RouteExit, Goto, Ordering, Reading
    <3>2. CASE ReadFlow(s) \/ LimitBlocks(s) \/ Admit(s) \/ ReadAccount(s) \/ PowerAllows(s) \/ QuoteFails(s)
      <4>1. Ordering(s)
        BY <3>2 DEF Ordering, Reading, ReadFlow, LimitBlocks, Admit, ReadAccount, PowerAllows, QuoteFails
      <4>2. crowd' = crowd
        BY <3>2 DEF history, ReadFlow, LimitBlocks, Admit, ReadAccount, PowerAllows, QuoteFails
      <4> QED BY <4>1, <4>2
    <3>3. CASE MaxBlocks(s) \/ PowerBlocks(s) \/ CallFails(s)
      <4>1. call'[s] = "idle"
        BY <1>1, <3>3 DEF TypeOK, Return, Drop, Goto, MaxBlocks, PowerBlocks, CallFails
      <4> QED BY <4>1 DEF Ordering, Reading
    <3> QED BY <1>5, <3>1, <3>2, <3>3 DEF Quiet
  <2>2. \A t \in Symbols : Lone(t)' => Lone(t)
    BY <1>3, <2>1 DEF Lone
  <2> QED BY <1>2, <2>2, AloneStays
<1> QED BY <1>4, <1>5

\* When an order is sent its call is no longer lone, and it alone may become pending.
LEMMA PlacePending ==
  ASSUME BaseInv, NEW s \in Symbols, NEW n \in Nat, NEW r, Place(s), Adds(<<s, n>>, r), Len(orders'[s]) = n,
         \A t \in Symbols \ {s} : Len(orders'[t]) = Len(orders[t])
  PROVE  /\ \A o \in All : Pending(o)' => Pending(o)
         /\ \A t \in Symbols : Lone(t)' => t # s /\ Lone(t)
         /\ Pending(<<s, n>>)' => r.side = "buy" /\ ~r.crowd
<1>1. TypeOK
  BY DEF BaseInv
<1>2. /\ All' = All \cup {<<s, n>>} /\ <<s, n>> \notin All /\ Get(<<s, n>>)' = r
      /\ \A o \in All : Get(o)' = Get(o)
  BY DEF Adds
<1>3. Last(s)' = <<s, n>> /\ \A t \in Symbols \ {s} : Last(t)' = Last(t)
  BY DEF Last
<1>4. call'[s] = "log" /\ \A t \in Symbols \ {s} : call'[t] = call[t]
  BY <1>1 DEF TypeOK, Place, Goto
<1>5. wants' = wants /\ \A t \in Symbols \ {s} : crowd'[t] = crowd[t]
  BY <1>1 DEF Place, TypeOK
<1>6. ASSUME NEW o \in All, Pending(o)' PROVE Pending(o)
  <2>1. o[1] \in Symbols
    BY AllPairs
  <2>2. call'[o[1]] = "log" /\ o = Last(o[1])' => call[o[1]] = "log" /\ o = Last(o[1])
    BY <1>2, <1>3, <1>4, <2>1
  <2>3. Get(o)' = Get(o)
    BY <1>2
  <2> QED BY <1>6, <2>2, <2>3 DEF Pending
<1>7. \A t \in Symbols : Lone(t)' => t # s /\ Lone(t)
  BY <1>4, <1>5 DEF Lone, Ordering, Reading
<1>8. Pending(<<s, n>>)' => r.side = "buy" /\ ~r.crowd
  BY <1>2 DEF Pending
<1> QED BY <1>6, <1>7, <1>8

LEMMA PlaceAlone ==
  ASSUME BaseInv, Alone, NEW s \in Symbols, Place(s)
  PROVE  Alone'
<1>1. PICK n \in Nat, r \in Order :
        /\ Adds(<<s, n>>, r) /\ Len(orders'[s]) = n
        /\ \A t \in Symbols \ {s} : Len(orders'[t]) = Len(orders[t])
        /\ r.side = (IF s \in wants THEN "buy" ELSE "sell") /\ r.crowd = crowd[s]
  BY PlaceAdds DEF BaseInv
<1>2. PICK a : a = <<s, n>>
  OBVIOUS
<1>3. /\ \A o \in All : Pending(o)' => Pending(o)
      /\ \A t \in Symbols : Lone(t)' => t # s /\ Lone(t)
      /\ Pending(<<s, n>>)' => r.side = "buy" /\ ~r.crowd
  BY <1>1, PlacePending
<1>4. All' = All \cup {a}
  BY <1>1, <1>2 DEF Adds
<1>5. Pending(a)' => Lone(s)
  <2>1. Pending(a)' => Pending(<<s, n>>)'
    BY <1>2 DEF Pending, Get
  <2> QED BY <1>1, <1>3, <2>1 DEF Lone, Ordering, Place
<1>6. CASE ~Lone(s)
  BY <1>3, <1>4, <1>5, <1>6, AloneStays
<1>7. CASE Lone(s)
  <2>1. \A t \in Symbols : ~Lone(t)'
    BY <1>3, <1>7 DEF Alone, Lone
  <2>2. \A o \in All : ~Pending(o)'
    BY <1>3, <1>7 DEF Alone, Lone
  <2>3. \A o \in All' : Pending(o)' => o = a
    BY <1>4, <2>2
  <2> QED BY <2>1, <2>3 DEF Alone, Lone
<1> QED BY <1>6, <1>7

\* What log_order and the events of an order do to calls, to buys and to the flow: a
\* buy that joins its row was pending and no longer is.
Joins(a) ==
  /\ a \in Buys /\ (~Get(a).crowd => Pending(a)) /\ ~Pending(a)'
  /\ Flow' = Flow - Get(a).price
  /\ Joined("buy")' = Joined("buy") \cup {a}
Moves ==
  /\ Calm /\ All' = All
  /\ \A o \in All : Pending(o)' => Pending(o)
  /\ Buys' = Buys /\ \A o \in All : Get(o)'.crowd = Get(o).crowd /\ Get(o)'.price = Get(o).price
  /\ \/ Flow' >= Flow /\ Joined("buy")' = Joined("buy")
     \/ \E a \in All : Joins(a)

\* The buys that count in the flow.
LEMMA JoinedBuys ==
  ASSUME NEW a, NEW r, Changes(a, r), r.side = Get(a).side
  PROVE  Joined("buy")' = IF r.side = "buy" /\ r.st \in Known /\ r.row /\ r.today
                          THEN Joined("buy") \cup {a} ELSE Joined("buy") \ {a}
<1>1. a \in All /\ All' = All /\ \A o \in All : Get(o)' = IF o = a THEN r ELSE Get(o)
  BY DEF Changes
<1>2. \A o : o \in Joined("buy") <=> o \in All /\ Get(o).side = "buy" /\ Get(o).st \in Known /\ Get(o).row /\ Get(o).today
  BY DEF Joined, Of
<1>3. \A o : o \in Joined("buy")' <=> o \in All' /\ Get(o)'.side = "buy" /\ Get(o)'.st \in Known
                                       /\ Get(o)'.row /\ Get(o)'.today
  BY DEF Joined, Of, Known
<1> QED BY <1>1, <1>2, <1>3

LEMMA LogMoves ==
  ASSUME BaseInv, NEW s \in Symbols, Log(s)
  PROVE  Moves
<1>1. TypeOK /\ CallInv /\ OrdersType
  BY DEF BaseInv, TypeOK, OrdersType
<1>2. PICK n \in Nat, r \in Order :
        /\ n = Len(orders[s]) /\ <<s, n>> \in All /\ Changes(<<s, n>>, r)
        /\ r.row /\ r.side = Get(<<s, n>>).side /\ r.price = Get(<<s, n>>).price
        /\ r.st = Get(<<s, n>>).st /\ r.crowd = Get(<<s, n>>).crowd
        /\ ~Get(<<s, n>>).row
        /\ \A t \in Symbols : Len(orders'[t]) = Len(orders[t])
  BY <1>1, LogChanges
<1>3. PICK a : a = <<s, n>>
  OBVIOUS
<1>4. /\ a \in All /\ All' = All /\ \A o \in All : Get(o)' = IF o = a THEN r ELSE Get(o)
  BY <1>2, <1>3 DEF Changes
<1>5. a = Last(s) /\ a[1] = s /\ call[s] = "log"
  BY <1>2, <1>3 DEF Last, Log
<1>6. call'[s] = "idle" /\ \A t \in Symbols \ {s} : call'[t] = call[t]
  BY <1>1, LogCalm
<1>7. \A o \in All : Pending(o)' => Pending(o)
  <2> SUFFICES ASSUME NEW o \in All, Pending(o)' PROVE Pending(o)
    OBVIOUS
  <2>1. Get(o)'.side = Get(o).side /\ Get(o)'.st = Get(o).st /\ Get(o)'.crowd = Get(o).crowd
    BY <1>2, <1>3, <1>4
  <2>2. call'[o[1]] = "log" => call[o[1]] = "log"
    BY <1>6, AllPairs
  <2>3. o = Last(o[1])' => o = Last(o[1])
    BY <1>2, AllPairs DEF Last
  <2> QED BY <2>1, <2>2, <2>3 DEF Pending
<1>8. Buys' = Buys
  BY <1>2, ChangedBuys
<1>9. \A o \in All : Get(o)'.crowd = Get(o).crowd /\ Get(o)'.price = Get(o).price
  BY <1>2, <1>3, <1>4
<1>10. Flow \in Int /\ r.price \in Nat
  BY <1>1, FlowIsSum DEF Order
<1>11. Flow' = Flow + FlowOf(r)
  <2>1. Flow' = Flow - FlowOf(Get(a)) + FlowOf(r)
    BY <1>2, <1>3, ChangedSums
  <2>2. FlowOf(Get(a)) = 0 /\ FlowOf(r) \in Int
    BY <1>2, <1>3, <1>10 DEF FlowOf
  <2> QED BY <1>10, <2>1, <2>2
<1>12. a \notin Joined("buy")
  BY <1>2, <1>3 DEF Joined
<1>13. Joined("buy")' = IF r.side = "buy" /\ r.st \in Known /\ r.today
                        THEN Joined("buy") \cup {a} ELSE Joined("buy")
  BY <1>2, <1>3, <1>12, JoinedBuys
<1>14. CASE r.side = "buy" /\ r.st \in Known /\ r.today
  <2>1. a \in Buys
    BY <1>1, <1>2, <1>3, <1>14, BuysAreBuys
  <2>2. ~Get(a).crowd => Pending(a)
    BY <1>2, <1>3, <1>5, <1>14 DEF Pending
  <2>3. ~Pending(a)'
    <3>1. Get(a)' = r
      BY <1>4
    <3> QED BY <1>5, <1>6, <1>14, <3>1 DEF Pending, Known
  <2>4. Flow' = Flow - Get(a).price
    <3>1. FlowOf(r) = -r.price
      BY <1>2, <1>14 DEF FlowOf
    <3> QED BY <1>2, <1>3, <1>10, <1>11, <3>1
  <2>5. Joins(a)
    BY <1>13, <1>14, <2>1, <2>2, <2>3, <2>4 DEF Joins
  <2> QED BY <1>1, <1>4, <1>7, <1>8, <1>9, <2>5, LogCalm DEF Moves
<1>15. CASE ~ (r.side = "buy" /\ r.st \in Known /\ r.today)
  <2>1. FlowOf(r) >= 0 /\ FlowOf(r) \in Int
    <3>1. r.side \in {"buy", "sell"}
      BY DEF Order
    <3> QED BY <1>10, <1>15, <3>1 DEF FlowOf
  <2>2. Flow' >= Flow
    BY <1>10, <1>11, <2>1
  <2> QED BY <1>1, <1>4, <1>7, <1>8, <1>9, <1>13, <1>15, <2>2, LogCalm DEF Moves
<1> QED BY <1>14, <1>15

LEMMA EventMoves ==
  ASSUME BaseInv, NEW s \in Symbols, NEW i \in DOMAIN orders[s], Events(s, i)
  PROVE  Moves
<1>1. TypeOK /\ OrdersType
  BY DEF BaseInv, TypeOK, OrdersType
<1>2. PICK r \in Order :
        /\ Changes(<<s, i>>, r) /\ <<s, i>> \in All
        /\ r.side = Get(<<s, i>>).side /\ r.price = Get(<<s, i>>).price
        /\ r.row = Get(<<s, i>>).row /\ r.crowd = Get(<<s, i>>).crowd
        /\ \A t \in Symbols : Len(orders'[t]) = Len(orders[t])
        /\ Becomes(Get(<<s, i>>), r.st)
  BY <1>1, EventChanges
<1>3. PICK a : a = <<s, i>>
  OBVIOUS
<1>4. /\ a \in All /\ All' = All /\ \A o \in All : Get(o)' = IF o = a THEN r ELSE Get(o)
  BY <1>2, <1>3 DEF Changes
<1>5. call' = call /\ Calm
  BY EventCalm, EventsLeave
<1>6. Get(a).st \in {"working", "filled"} /\ r.st \in Statuses
  BY <1>2, <1>3 DEF Statuses, Becomes
<1>7. \A o \in All : Pending(o)' => Pending(o)
  <2> SUFFICES ASSUME NEW o \in All, Pending(o)' PROVE Pending(o)
    OBVIOUS
  <2>1. Get(o)'.side = Get(o).side /\ Get(o)'.crowd = Get(o).crowd
    BY <1>2, <1>3, <1>4
  <2>2. Get(o)'.st \in {"working", "filled"} => Get(o).st \in {"working", "filled"}
    BY <1>4, <1>6
  <2>3. o = Last(o[1])' => o = Last(o[1])
    BY <1>2, AllPairs DEF Last
  <2> QED BY <1>5, <2>1, <2>2, <2>3 DEF Pending
<1>8. Buys' = Buys
  BY <1>2, ChangedBuys
<1>9. \A o \in All : Get(o)'.crowd = Get(o).crowd /\ Get(o)'.price = Get(o).price
  BY <1>2, <1>3, <1>4
<1>10. Flow \in Int /\ r.price \in Nat
  BY <1>1, FlowIsSum DEF Order
<1>11. Flow' = Flow + FlowOf(r)
  <2>1. Flow' = Flow - FlowOf(Get(a)) + FlowOf(r)
    BY <1>2, <1>3, ChangedSums
  <2>2. FlowOf(Get(a)) = 0 /\ FlowOf(r) \in Int
    BY <1>6, <1>10 DEF FlowOf, Known
  <2> QED BY <1>10, <2>1, <2>2
<1>12. a \notin Joined("buy")
  BY <1>6 DEF Joined, Of, Known
<1>13. Joined("buy")' = IF r.side = "buy" /\ r.st \in Known /\ r.row /\ r.today
                        THEN Joined("buy") \cup {a} ELSE Joined("buy")
  BY <1>2, <1>3, <1>12, JoinedBuys
<1>14. CASE r.side = "buy" /\ r.st \in Known /\ r.row /\ r.today
  <2>1. a \in Buys
    BY <1>1, <1>2, <1>3, <1>14, BuysAreBuys
  <2>2. ~Get(a).crowd => Pending(a)
    BY <1>2, <1>3, <1>6, <1>14 DEF Pending
  <2>3. ~Pending(a)'
    <3>1. Get(a)' = r
      BY <1>4
    <3>2. ~ (call'[s] = "log" /\ a = Last(s)')
      <4> SUFFICES ASSUME call[s] = "log", a = Last(s)' PROVE FALSE
        BY <1>5
      <4>1. a = Last(s)
        BY <1>2 DEF Last
      <4>2. ~Get(a).row
        BY <4>1 DEF BaseInv, CallInv
      <4> QED BY <1>2, <1>3, <1>14, <4>2
    <3>3. a[1] = s
      BY <1>3
    <3> QED BY <1>14, <3>1, <3>2, <3>3 DEF Pending, Known
  <2>4. Flow' = Flow - Get(a).price
    <3>1. FlowOf(r) = -r.price
      BY <1>14 DEF FlowOf
    <3> QED BY <1>2, <1>3, <1>10, <1>11, <3>1
  <2>5. Joins(a)
    BY <1>13, <1>14, <2>1, <2>2, <2>3, <2>4 DEF Joins
  <2> QED BY <1>4, <1>5, <1>7, <1>8, <1>9, <2>5 DEF Moves
<1>15. CASE ~ (r.side = "buy" /\ r.st \in Known /\ r.row /\ r.today)
  <2>1. FlowOf(r) >= 0 /\ FlowOf(r) \in Int
    <3>1. r.side \in {"buy", "sell"}
      BY DEF Order
    <3> QED BY <1>10, <1>15, <3>1 DEF FlowOf
  <2>2. Flow' >= Flow
    BY <1>10, <1>11, <2>1
  <2> QED BY <1>4, <1>5, <1>7, <1>8, <1>9, <1>13, <1>15, <2>2 DEF Moves
<1> QED BY <1>14, <1>15

LEMMA MovesAlone ==
  ASSUME Alone, Moves
  PROVE  Alone'
<1>1. \A t \in Symbols : Lone(t)' => Lone(t)
  BY DEF Moves, Calm, Lone, Ordering, Reading
<1>2. \A o \in All' : Pending(o)' => o \in All /\ Pending(o)
  BY DEF Moves
<1> QED BY <1>1, <1>2, AloneStays

\* A new day and a restart start no call and no buy.
LEMMA DayPending ==
  ASSUME TypeOK, NewDay \/ Restart
  PROVE  \A o \in All' : Pending(o)' => o \in All /\ Pending(o)
<1>1. Remaps /\ Calm
  BY NewDayRemaps, RestartRemaps, DayCalm
<1>2. All' = All /\ \A t \in Symbols : Last(t)' = Last(t)
  BY <1>1, RemapsLeave DEF Remaps
<1> SUFFICES ASSUME NEW o \in All, Pending(o)' PROVE Pending(o)
  BY <1>2
<1>3. o[1] \in Symbols
  BY AllPairs
<1>4. call'[o[1]] = "log" /\ o = Last(o[1])' => call[o[1]] = "log" /\ o = Last(o[1])
  BY <1>1, <1>2, <1>3 DEF Calm
<1>5. /\ Get(o)'.side = Get(o).side /\ Get(o)'.crowd = Get(o).crowd
      /\ Get(o)'.st \in {"working", "filled"} => Get(o).st \in {"working", "filled"}
  BY <1>1 DEF Remaps
<1> QED BY <1>4, <1>5 DEF Pending

LEMMA DayAlone ==
  ASSUME BaseInv, Alone, NewDay \/ Restart
  PROVE  Alone'
<1>1. TypeOK
  BY DEF BaseInv
<1>2. \A t \in Symbols : Lone(t)' => Lone(t)
  BY <1>1, DayCalm DEF Calm, Lone, Ordering, Reading
<1>3. \A o \in All' : Pending(o)' => o \in All /\ Pending(o)
  BY <1>1, DayPending
<1> QED BY <1>2, <1>3, AloneStays

LEMMA InitAlone == Init => Alone
<1> SUFFICES ASSUME Init PROVE Alone
  OBVIOUS
<1>1. All = {}
  BY NoOrders
<1> QED BY <1>1 DEF Init, Alone, Ordering, Reading

LEMMA NextAlone == BaseInv /\ Alone /\ [Next]_vars => Alone'
<1> SUFFICES ASSUME BaseInv, Alone, [Next]_vars PROVE Alone'
  OBVIOUS
<1>1. CASE \E s \in Symbols : Quiet(s)
  BY <1>1, QuietAlone
<1>2. CASE \E s \in Symbols : Place(s)
  BY <1>2, PlaceAlone
<1>3. CASE \E s \in Symbols : Log(s)
  BY <1>3, LogMoves, MovesAlone
<1>4. CASE \E s \in Symbols : \E i \in DOMAIN orders[s] : Events(s, i)
  BY <1>4, EventMoves, MovesAlone
<1>5. CASE NewDay \/ Restart
  BY <1>5, DayAlone
<1>6. CASE UNCHANGED vars
  <2>1. UNCHANGED <<orders, call, wants, crowd>>
    BY <1>6 DEF vars, history
  <2>2. \A t \in Symbols : Lone(t)' => Lone(t)
    BY <2>1 DEF Lone, Ordering
  <2>3. \A o \in All' : Pending(o)' => o \in All /\ Pending(o)
    BY <2>1 DEF Pending, All, Get, Last
  <2> QED BY <2>2, <2>3, AloneStays
<1> QED BY <1>1, <1>2, <1>3, <1>4, <1>5, <1>6, Steps

-----------------------------------------------------------------------------
(* Entries that do not overlap stay within the limit *)

FlowKept == FlowInv /\ OutlayWithinLimit

\* The limit is a number.
LEMMA LimitType == Limit \in Nat /\ -Limit \in Int /\ 0 > -Limit
BY LimitsAssumption DEF LimitsAssumption

\* A buy is crowded for good.
LEMMA MovesCrowded ==
  ASSUME OrdersType, Moves
  PROVE  Crowded' <=> Crowded
<1>1. Buys' = Buys /\ \A o \in All : Get(o)'.crowd = Get(o).crowd
  BY DEF Moves
<1>2. Buys \subseteq All
  BY BuysAreBuys
<1> QED BY <1>1, <1>2 DEF Crowded

LEMMA MovesFlow ==
  ASSUME BaseInv, BaseInv', Alone, FlowKept, Moves
  PROVE  FlowKept'
<1>1. OrdersType /\ TypeOK
  BY DEF BaseInv, TypeOK, OrdersType
<1> SUFFICES ASSUME ~Crowded' PROVE FlowKept'
  BY DEF FlowKept, FlowInv, OutlayWithinLimit
<1>2. ~Crowded
  BY <1>1, MovesCrowded
<1>3. Flow \in Int /\ Flow' \in Int
  <2>1. (OrdersType => Flow \in Int)'
    BY FlowIsSum, PTL
  <2>2. OrdersType'
    BY DEF BaseInv, TypeOK, OrdersType
  <2> QED BY <1>1, <2>1, <2>2, FlowIsSum
<1>4. /\ \A s \in Symbols : call[s] = "flowRead" /\ ~crowd[s] => Flow >= pnl[s] \/ Flow >= 0
      /\ \A s \in Symbols : Admitted(s) /\ ~crowd[s] => Flow > -Limit
      /\ \A o \in All : Pending(o) => Flow > -Limit
      /\ Joined("buy") # {} => \E o \in Joined("buy") : Flow + Get(o).price > -Limit
  BY <1>2 DEF FlowKept, FlowInv, OutlayWithinLimit
<1>5. \A s \in Symbols :
        /\ call'[s] = "flowRead" /\ ~crowd'[s] => call[s] = "flowRead" /\ ~crowd[s] /\ pnl'[s] = pnl[s]
        /\ Admitted(s)' /\ ~crowd'[s] => Admitted(s) /\ ~crowd[s]
  BY DEF Moves, Calm, Admitted
<1>6. All' = All /\ (\A o \in All : Pending(o)' => Pending(o)) /\ \A o \in All : Get(o)'.price = Get(o).price
  BY DEF Moves
<1>7. Joined("buy") \subseteq All /\ \A o \in All : Get(o).price \in Nat
  BY <1>1, GetType DEF Joined, Of, Order
<1>8. \A s \in Symbols : pnl[s] \in Int
  BY <1>1 DEF TypeOK
<1>9. CASE Flow' >= Flow /\ Joined("buy")' = Joined("buy")
  <2>1. \A s \in Symbols : call'[s] = "flowRead" /\ ~crowd'[s] => Flow' >= pnl'[s] \/ Flow' >= 0
    BY <1>3, <1>4, <1>5, <1>8, <1>9
  <2>2. \A s \in Symbols : Admitted(s)' /\ ~crowd'[s] => Flow' > -Limit
    BY <1>3, <1>4, <1>5, <1>9, LimitType
  <2>3. \A o \in All' : Pending(o)' => Flow' > -Limit
    BY <1>3, <1>4, <1>6, <1>9, LimitType
  <2>4. ASSUME Joined("buy")' # {} PROVE \E o \in Joined("buy")' : Flow' + Get(o)'.price > -Limit
    <3>1. PICK o \in Joined("buy") : Flow + Get(o).price > -Limit
      BY <1>4, <1>9, <2>4
    <3>2. Get(o)'.price = Get(o).price /\ Get(o).price \in Nat
      BY <1>6, <1>7
    <3>3. Flow' + Get(o)'.price > -Limit
      BY <1>3, <1>9, <3>1, <3>2, LimitType
    <3> QED BY <1>9, <3>3
  <2>5. OutlayWithinLimit'
    BY <2>4 DEF OutlayWithinLimit
  <2>6. FlowInv'
    BY <2>1, <2>2, <2>3 DEF FlowInv
  <2> QED BY <2>5, <2>6 DEF FlowKept
<1>10. CASE \E a \in All : Joins(a)
  <2>1. PICK a \in All : Joins(a)
    BY <1>10
  <2>2. Pending(a) /\ ~Pending(a)'
    BY <1>2, <2>1 DEF Joins, Crowded
  <2>3. \A s \in Symbols : ~Lone(s)
    BY <2>2 DEF Alone, Lone
  <2>4. \A o \in All' : ~Pending(o)'
    BY <1>6, <2>2 DEF Alone
  <2>5. \A s \in Symbols : ~ (call'[s] = "flowRead" /\ ~crowd'[s]) /\ ~ (Admitted(s)' /\ ~crowd'[s])
    <3> TAKE s \in Symbols
    <3>1. call[s] = "flowRead" \/ Admitted(s) => Ordering(s)
      BY DEF Admitted, Ordering, Reading
    <3> QED BY <1>5, <2>3, <3>1 DEF Lone
  <2>6. FlowInv'
    BY <2>4, <2>5 DEF FlowInv
  <2>7. a \in Joined("buy")' /\ Flow' + Get(a)'.price > -Limit
    <3>1. Flow > -Limit
      BY <1>4, <2>2
    <3>2. Flow' = Flow - Get(a).price /\ a \in Joined("buy")'
      BY <2>1 DEF Joins
    <3>3. Get(a)'.price = Get(a).price /\ Get(a).price \in Nat
      BY <1>6, <1>7
    <3>4. Flow' + Get(a)'.price = Flow
      BY <1>3, <3>2, <3>3
    <3> QED BY <3>1, <3>2, <3>4
  <2>8. OutlayWithinLimit'
    BY <2>7 DEF OutlayWithinLimit
  <2> QED BY <2>6, <2>8 DEF FlowKept
<1> QED BY <1>9, <1>10 DEF Moves

LEMMA QuietFlow ==
  ASSUME BaseInv, FlowKept, NEW s \in Symbols, Quiet(s)
  PROVE  FlowKept'
<1>1. OrdersType /\ TypeOK
  BY DEF BaseInv, TypeOK, OrdersType
<1>2. orders' = orders
  BY QuietOrders
<1>3. Crowded' = Crowded /\ Flow' = Flow /\ All' = All
  BY <1>2, SameOrders
<1>4. OutlayWithinLimit'
  <2>1. Joined("buy")' = Joined("buy") /\ \A o : Get(o)' = Get(o)
    BY <1>2 DEF Joined, Of, All, Get, Known
  <2> QED BY <1>3, <2>1 DEF OutlayWithinLimit, FlowKept
<1> SUFFICES ASSUME ~Crowded PROVE FlowInv'
  BY <1>3, <1>4 DEF FlowKept, FlowInv
<1>5. /\ \A t \in Symbols : call[t] = "flowRead" /\ ~crowd[t] => Flow >= pnl[t] \/ Flow >= 0
      /\ \A t \in Symbols : Admitted(t) /\ ~crowd[t] => Flow > -Limit
      /\ \A o \in All : Pending(o) => Flow > -Limit
  BY DEF FlowKept, FlowInv
<1>6. Flow \in Int /\ pnl[s] \in Int
  BY <1>1, FlowIsSum DEF TypeOK
<1>7. call'[s] = "flowRead" => Flow >= pnl'[s]
  <2>1. ReadFlow(s) => pnl'[s] = Flow
    BY <1>1 DEF ReadFlow, TypeOK
  <2> QED BY <1>1, <1>6, <2>1, QuietMoves
<1>8. Admitted(s)' /\ ~crowd'[s] => Flow > -Limit
  <2> SUFFICES ASSUME Admitted(s)', ~crowd'[s] PROVE Flow > -Limit
    OBVIOUS
  <2>1. (Admitted(s) \/ Admit(s)) /\ ~crowd[s]
    BY <1>1, QuietMoves
  <2>2. CASE Admitted(s)
    BY <1>5, <2>1, <2>2
  <2>3. CASE Admit(s)
    <3>1. pnl[s] > -Limit /\ (Flow >= pnl[s] \/ Flow >= 0)
      BY <1>5, <2>1, <2>3 DEF Admit
    <3> QED BY <1>6, <3>1, LimitType
  <2> QED BY <2>1, <2>2, <2>3
<1>9. \A t \in Symbols : call'[t] = "flowRead" /\ ~crowd'[t] => Flow >= pnl'[t] \/ Flow >= 0
  BY <1>1, <1>5, <1>7, QuietOthers
<1>10. \A t \in Symbols : Admitted(t)' /\ ~crowd'[t] => Flow > -Limit
  <2> TAKE t \in Symbols
  <2>1. t # s => (Admitted(t)' /\ ~crowd'[t] => Admitted(t) /\ ~crowd[t])
    BY <1>1, QuietOthers DEF Admitted
  <2> QED BY <1>5, <1>8, <2>1
<1>11. \A o \in All' : Pending(o)' => Flow > -Limit
  BY <1>1, <1>5, QuietPending
<1> QED BY <1>3, <1>9, <1>10, <1>11 DEF FlowInv

\* An order that is sent does not count in the flow.
LEMMA PlaceLeavesFlow ==
  ASSUME OrdersType, NEW a, NEW r, Adds(a, r), r.st \in {"working", "dead"}
  PROVE  Flow' = Flow /\ Joined("buy")' = Joined("buy") /\ (~Crowded' => ~Crowded)
<1>1. /\ a \notin All /\ All' = All \cup {a} /\ Get(a)' = r /\ \A o \in All : Get(o)' = Get(o)
  BY DEF Adds
<1>2. Flow' = Flow
  <2>1. FlowOf(r) = 0
    BY DEF FlowOf, Known
  <2>2. Flow \in Int
    BY FlowIsSum
  <2> QED BY <2>1, <2>2, AddedSums
<1>3. \A o : o \in Joined("buy") <=> o \in All /\ Get(o).side = "buy" /\ Get(o).st \in Known /\ Get(o).row /\ Get(o).today
  BY DEF Joined, Of
<1>4. \A o : o \in Joined("buy")' <=> o \in All' /\ Get(o)'.side = "buy" /\ Get(o)'.st \in Known
                                       /\ Get(o)'.row /\ Get(o)'.today
  BY DEF Joined, Of, Known
<1>5. Joined("buy")' = Joined("buy")
  <2>1. r.st \notin Known
    BY DEF Known
  <2> QED BY <1>1, <1>3, <1>4, <2>1
<1>6. Crowded => Crowded'
  <2>1. Buys \subseteq Buys' /\ \A o \in Buys : Get(o)' = Get(o)
    BY AddedBuys
  <2> QED BY <2>1 DEF Crowded
<1> QED BY <1>2, <1>5, <1>6

LEMMA PlaceFlow ==
  ASSUME BaseInv, FlowKept, NEW s \in Symbols, Place(s)
  PROVE  FlowKept'
<1>1. OrdersType /\ TypeOK
  BY DEF BaseInv, TypeOK, OrdersType
<1>2. PICK n \in Nat, r \in Order :
        /\ Adds(<<s, n>>, r) /\ Len(orders'[s]) = n
        /\ \A t \in Symbols \ {s} : Len(orders'[t]) = Len(orders[t])
        /\ r.side = (IF s \in wants THEN "buy" ELSE "sell")
        /\ r.st = (IF s \in wants \/ Held(s) > 0 THEN "working" ELSE "dead")
        /\ r.crowd = crowd[s]
  BY <1>1, PlaceAdds
<1>3. PICK a : a = <<s, n>>
  OBVIOUS
<1>4. Flow' = Flow /\ Joined("buy")' = Joined("buy") /\ (~Crowded' => ~Crowded)
  BY <1>1, <1>2, PlaceLeavesFlow
<1>5. All' = All \cup {a} /\ \A o \in All : Get(o)' = Get(o)
  BY <1>2, <1>3 DEF Adds
<1>6. Joined("buy") \subseteq All
  BY DEF Joined, Of
<1>7. OutlayWithinLimit'
  BY <1>4, <1>5, <1>6 DEF OutlayWithinLimit, FlowKept
<1> SUFFICES ASSUME ~Crowded' PROVE FlowInv'
  BY <1>7 DEF FlowKept, FlowInv
<1>8. /\ \A t \in Symbols : call[t] = "flowRead" /\ ~crowd[t] => Flow >= pnl[t] \/ Flow >= 0
      /\ \A t \in Symbols : Admitted(t) /\ ~crowd[t] => Flow > -Limit
      /\ \A o \in All : Pending(o) => Flow > -Limit
  BY <1>4 DEF FlowKept, FlowInv
<1>9. call[s] = "place" /\ call'[s] = "log" /\ \A t \in Symbols \ {s} : call'[t] = call[t]
  BY <1>1 DEF TypeOK, Place, Goto
<1>10. wants' = wants /\ pnl' = pnl /\ \A t \in Symbols \ {s} : crowd'[t] = crowd[t]
  BY <1>1 DEF Place, TypeOK
<1>11. \A t \in Symbols : call'[t] = "flowRead" /\ ~crowd'[t] => Flow' >= pnl'[t] \/ Flow' >= 0
  BY <1>4, <1>8, <1>9, <1>10
<1>12. \A t \in Symbols : Admitted(t)' /\ ~crowd'[t] => Flow' > -Limit
  <2>1. \A t \in Symbols : Admitted(t)' /\ ~crowd'[t] => Admitted(t) /\ ~crowd[t]
    BY <1>9, <1>10 DEF Admitted
  <2> QED BY <1>4, <1>8, <2>1
<1>13. \A o \in All' : Pending(o)' => Flow' > -Limit
  <2>1. \A o \in All : Pending(o)' => Pending(o)
    BY <1>2, PlacePending
  <2>2. Pending(a)' => Flow' > -Limit
    <3>1. Pending(a)' => Pending(<<s, n>>)'
      BY <1>3 DEF Pending, Get
    <3>2. Pending(<<s, n>>)' => Admitted(s) /\ ~crowd[s]
      BY <1>2, <1>9, PlacePending DEF Admitted
    <3> QED BY <1>4, <1>8, <3>1, <3>2
  <2> QED BY <1>4, <1>5, <1>8, <2>1, <2>2
<1> QED BY <1>11, <1>12, <1>13 DEF FlowInv

\* On a new day the flow begins again at nothing, and a restart leaves it as it is.
LEMMA DayFlow ==
  ASSUME BaseInv, FlowKept, NewDay \/ Restart
  PROVE  FlowKept'
<1>1. TypeOK /\ OrdersType
  BY DEF BaseInv, TypeOK, OrdersType
<1>2. Remaps /\ Calm
  BY <1>1, NewDayRemaps, RestartRemaps, DayCalm
<1>3. OrdersType' /\ All' = All /\ (Crowded' <=> Crowded)
  BY <1>2, RemapsLeave DEF Remaps
<1>4. IsFiniteSet(All)
  BY <1>1, AllFinite
<1>5. Flow = SumFunctionOnSet(Flows, All) /\ Flow' = SumFunctionOnSet(Flows', All) /\ Flow \in Int
  <2>1. (OrdersType => Flow = SumFunctionOnSet(Flows, All))'
    BY FlowIsSum, PTL
  <2> QED BY <1>1, <1>3, <2>1, FlowIsSum
<1>6. Flows' = [o \in All |-> FlowOf(Get(o)')]
  BY <1>3 DEF Flows, FlowOf
<1>7. \A o : o \in Joined("buy") <=> o \in All /\ Get(o).side = "buy" /\ Get(o).st \in Known /\ Get(o).row /\ Get(o).today
  BY DEF Joined, Of
<1>8. \A o : o \in Joined("buy")' <=> o \in All' /\ Get(o)'.side = "buy" /\ Get(o)'.st \in Known
                                       /\ Get(o)'.row /\ Get(o)'.today
  BY DEF Joined, Of, Known
<1>9. \A t \in Symbols :
        /\ call'[t] = "flowRead" /\ ~crowd'[t] => call[t] = "flowRead" /\ ~crowd[t] /\ pnl'[t] = pnl[t]
        /\ Admitted(t)' /\ ~crowd'[t] => Admitted(t) /\ ~crowd[t]
  BY <1>2 DEF Calm, Admitted
<1>10. CASE NewDay
  <2>1. \A o \in All : Flows'[o] = 0 /\ o \notin Joined("buy")'
    BY <1>1, <1>6, <1>8, <1>10, NewDayRemaps DEF FlowOf
  <2>2. Joined("buy")' = {}
    <3>1. Joined("buy")' \subseteq All
      BY <1>3, <1>8
    <3> QED BY <2>1, <3>1
  <2>3. Flow' = 0
    <3> DEFINE g == Flows'
    <3>1. \A o \in All \ {} : g[o] = 0
      BY <2>1
    <3> HIDE DEF g
    <3>2. SumFunctionOnSet(g, All) = SumFunctionOnSet(g, {})
      BY <1>4, <3>1, SumFilter
    <3>3. SumFunctionOnSet(Flows', All) = 0
      BY <3>2, SumEmpty DEF g
    <3> QED BY <1>5, <3>3
  <2>4. FlowInv'
    BY <2>3, LimitType DEF FlowInv
  <2>5. OutlayWithinLimit'
    BY <2>2 DEF OutlayWithinLimit
  <2> QED BY <2>4, <2>5 DEF FlowKept
<1>11. CASE Restart
  <2>1. \A o \in All :
          /\ Get(o)'.side = Get(o).side /\ Get(o)'.price = Get(o).price /\ Get(o)'.row = Get(o).row
          /\ Get(o)'.today = Get(o).today
          /\ Get(o)'.st = Get(o).st \/ (Get(o).st = "booked" /\ Get(o)'.st = "untracked")
    BY <1>1, <1>11, RestartRemaps DEF Remaps
  <2>2. \A o \in All : Flows'[o] = Flows[o]
    BY <1>6, <2>1 DEF Flows, FlowOf, Known
  <2>3. Flow' = Flow
    <3>1. SumFunctionOnSet(Flows', All) = SumFunctionOnSet(Flows, All)
      BY <1>4, <2>2, SumSame
    <3> QED BY <1>5, <3>1
  <2>4. Joined("buy")' = Joined("buy")
    <3>1. \A o : o \in Joined("buy")' <=> o \in Joined("buy")
      BY <1>3, <1>7, <1>8, <2>1 DEF Known
    <3>2. Joined("buy")' \subseteq All /\ Joined("buy") \subseteq All
      BY <1>3, <1>7, <1>8
    <3> QED BY <3>1, <3>2
  <2>5. \A o \in All' : Pending(o)' => o \in All /\ Pending(o)
    BY <1>1, DayPending
  <2>6. FlowInv'
    BY <1>3, <1>9, <2>3, <2>5 DEF FlowKept, FlowInv
  <2>7. OutlayWithinLimit'
    BY <1>3, <1>7, <2>1, <2>3, <2>4 DEF FlowKept, OutlayWithinLimit
  <2> QED BY <2>6, <2>7 DEF FlowKept
<1> QED BY <1>10, <1>11

LEMMA InitFlow == Init => FlowKept
<1> SUFFICES ASSUME Init PROVE FlowKept
  OBVIOUS
<1>1. All = {} /\ Joined("buy") = {}
  BY NoOrders DEF Joined
<1> QED BY <1>1 DEF Init, FlowKept, FlowInv, OutlayWithinLimit, Admitted

LEMMA NextFlow == BaseInv /\ Alone /\ FlowKept /\ [Next]_vars => FlowKept'
<1> SUFFICES ASSUME BaseInv, Alone, FlowKept, [Next]_vars PROVE FlowKept'
  OBVIOUS
<1>1. BaseInv'
  BY NextBase
<1>2. CASE \E s \in Symbols : Quiet(s)
  BY <1>2, QuietFlow
<1>3. CASE \E s \in Symbols : Place(s)
  BY <1>3, PlaceFlow
<1>4. CASE \E s \in Symbols : Log(s)
  BY <1>1, <1>4, LogMoves, MovesFlow
<1>5. CASE \E s \in Symbols : \E i \in DOMAIN orders[s] : Events(s, i)
  BY <1>1, <1>5, EventMoves, MovesFlow
<1>6. CASE NewDay \/ Restart
  BY <1>6, DayFlow
<1>7. CASE UNCHANGED vars
  <2>1. orders' = orders /\ UNCHANGED <<call, wants, pnl, crowd>>
    BY <1>7 DEF vars, reads, history
  <2>2. Crowded' = Crowded /\ Flow' = Flow /\ All' = All /\ Joined("buy")' = Joined("buy")
        /\ \A o : Get(o)' = Get(o)
    BY <2>1, SameOrders DEF Joined, Of, All, Get, Known
  <2>3. FlowInv'
    BY <2>1, <2>2 DEF FlowKept, FlowInv, Admitted, Pending, Get, Last
  <2>4. OutlayWithinLimit'
    BY <2>2 DEF FlowKept, OutlayWithinLimit
  <2> QED BY <2>3, <2>4 DEF FlowKept
<1> QED BY <1>2, <1>3, <1>4, <1>5, <1>6, <1>7, Steps

\* Entries that do not overlap spend no more than the limit and one order.
THEOREM OutlayBounded == Spec => []OutlayWithinLimit
<1>1. FlowKept => OutlayWithinLimit
  BY DEF FlowKept
<1> QED BY <1>1, InitBase, NextBase, InitAlone, NextAlone, InitFlow, NextFlow, PTL DEF Spec

-----------------------------------------------------------------------------
(* Entries that do not overlap stay within the maximum of positions *)

\* Shares of a symbol bought, or sold, in the given states.
Shares(s, side, sts) == {o \in Of(side, sts) : o[1] = s}

LEMMA SharesFinite ==
  ASSUME OrdersType
  PROVE  \A s, side, sts : IsFiniteSet(Shares(s, side, sts)) /\ Cardinality(Shares(s, side, sts)) \in Nat
<1> TAKE s, side, sts
<1>1. Shares(s, side, sts) \subseteq All
  BY DEF Shares, Of
<1> QED BY <1>1, AllFinite, FS_Subset, FS_CardinalityType

LEMMA NetIsShares ==
  \A s, sts : Net(s, sts) = Cardinality(Shares(s, "buy", sts)) - Cardinality(Shares(s, "sell", sts))
BY DEF Net, Shares

\* What the events of the orders do to the positions: a buy that executes may open one.
Opens(a) ==
  /\ a \in Buys /\ Get(a).st = "working" /\ (~Get(a).crowd => Pending(a))
  /\ Get(a)'.st # "working"
  /\ Positions' \subseteq Positions \cup {a[1]}
Shifts ==
  /\ Missed \subseteq Missed'
  /\ \A o \in All : Get(o)'.st = "working" => Get(o).st = "working"
  /\ Positions' \subseteq Positions \/ \E a \in All : Opens(a)

\* With no more bought and no less sold there is no more to hold.
LEMMA PositionsShrink ==
  ASSUME OrdersType, OrdersType', NEW s \in Symbols,
         Shares(s, "buy", Executed)' \subseteq Shares(s, "buy", Executed),
         Shares(s, "sell", Executed) \subseteq Shares(s, "sell", Executed)',
         s \in Positions'
  PROVE  s \in Positions
<1> DEFINE B == Shares(s, "buy", Executed)
           S == Shares(s, "sell", Executed)
<1>1. IsFiniteSet(B) /\ Cardinality(B) \in Nat /\ IsFiniteSet(S) /\ Cardinality(S) \in Nat
  BY SharesFinite
<1>2. IsFiniteSet(B') /\ Cardinality(B') \in Nat /\ IsFiniteSet(S') /\ Cardinality(S') \in Nat
  <2>1. Shares(s, "buy", Executed)' \subseteq All' /\ Shares(s, "sell", Executed)' \subseteq All'
    BY DEF Shares, Of
  <2>2. IsFiniteSet(All')
    <3>1. (OrdersType => IsFiniteSet(All))'
      BY AllFinite, PTL
    <3> QED BY <3>1
  <2> HIDE DEF B, S
  <2>3. IsFiniteSet(B') /\ IsFiniteSet(S')
    BY <2>1, <2>2, FS_Subset DEF B, S
  <2> QED BY <2>3, FS_CardinalityType
<1>3. Net(s, Executed)' > 0 /\ Net(s, Executed)' = Cardinality(B') - Cardinality(S')
  BY DEF Positions, Net, Shares, Executed
<1>4. Net(s, Executed) = Cardinality(B) - Cardinality(S)
  BY NetIsShares
<1>5. B' \subseteq B /\ S \subseteq S'
  OBVIOUS
<1> HIDE DEF B, S
<1>6. Cardinality(B') <= Cardinality(B) /\ Cardinality(S) <= Cardinality(S')
  BY <1>1, <1>2, <1>5, FS_Subset
<1>7. Net(s, Executed) > 0
  BY <1>1, <1>2, <1>3, <1>4, <1>6
<1> QED BY <1>7 DEF Positions

\* A step on one order that does not change its side.
LEMMA ChangedPositions ==
  ASSUME NEW a, NEW r, Changes(a, r), r.side = Get(a).side,
         Get(a).st \in Executed => r.st \in Executed
  PROVE  /\ Positions' \subseteq Positions \cup {a[1]}
         /\ r.side = "sell" \/ (r.st \in Executed <=> Get(a).st \in Executed) => Positions' \subseteq Positions
<1>1. /\ OrdersType /\ OrdersType' /\ a \in All /\ All' = All
      /\ \A o \in All : Get(o)' = IF o = a THEN r ELSE Get(o)
  BY DEF Changes
<1>2. \A side : \A o : o \in Of(side, Executed) <=> o \in All /\ Get(o).side = side /\ Get(o).st \in Executed
  BY DEF Of
<1>3. \A side : \A o : o \in Of(side, Executed)' <=> o \in All' /\ Get(o)'.side = side /\ Get(o)'.st \in Executed
  BY DEF Of, Executed
<1>4. \A s : Shares(s, "sell", Executed) \subseteq Shares(s, "sell", Executed)'
  <2>1. \A o \in Of("sell", Executed) : o \in Of("sell", Executed)'
    BY <1>1, <1>2, <1>3
  <2>2. \A s : Shares(s, "sell", Executed)' = {o \in Of("sell", Executed)' : o[1] = s}
    BY DEF Shares, Executed
  <2> QED BY <2>1, <2>2 DEF Shares
<1>5. \A s : Shares(s, "buy", Executed)' = {o \in Of("buy", Executed)' : o[1] = s}
  BY DEF Shares, Executed
<1>6. \A s : s # a[1] => Shares(s, "buy", Executed)' \subseteq Shares(s, "buy", Executed)
  <2>1. \A o \in Of("buy", Executed)' : o # a => o \in Of("buy", Executed)
    BY <1>1, <1>2, <1>3
  <2> QED BY <1>5, <2>1 DEF Shares
<1>7. Positions' \subseteq Symbols
  BY DEF Positions
<1>8. Positions' \subseteq Positions \cup {a[1]}
  BY <1>1, <1>4, <1>6, <1>7, PositionsShrink
<1>9. ASSUME r.side = "sell" \/ (r.st \in Executed <=> Get(a).st \in Executed)
      PROVE  Positions' \subseteq Positions
  <2>1. \A o \in Of("buy", Executed)' : o \in Of("buy", Executed)
    BY <1>1, <1>2, <1>3, <1>9
  <2>2. \A s : Shares(s, "buy", Executed)' \subseteq Shares(s, "buy", Executed)
    BY <1>5, <2>1 DEF Shares
  <2> QED BY <1>1, <1>4, <1>7, <2>2, PositionsShrink
<1> QED BY <1>8, <1>9

\* What the tracker has missed stays missed.
LEMMA MissedGrows ==
  ASSUME All \subseteq All',
         \A o \in All : Get(o).st \in {"untracked", "replayed"} => Get(o)'.st \in {"untracked", "replayed"}
  PROVE  Missed \subseteq Missed'
<1> SUFFICES ASSUME NEW s \in Symbols, NEW i \in DOMAIN orders[s],
                    orders[s][i].st \in {"untracked", "replayed"}
             PROVE  s \in Missed'
  BY DEF Missed
<1>1. <<s, i>> \in All /\ Get(<<s, i>>).st \in {"untracked", "replayed"}
  BY AllMember DEF Get
<1>2. i \in DOMAIN orders'[s]
  <2>1. \A t, j : <<t, j>> \in All' <=> t \in Symbols /\ j \in DOMAIN orders'[t]
    BY DEF All
  <2> QED BY <1>1, <2>1
<1>3. orders'[s][i].st \in {"untracked", "replayed"}
  BY <1>1 DEF Get
<1> QED BY <1>2, <1>3 DEF Missed

\* How many symbols those are, and what it adds to the maximum.
LEMMA HoldingsType ==
  /\ IsFiniteSet(Missed) /\ Cardinality(Missed) \in Nat /\ MaxHoldings \in Nat
  /\ MaxHoldings = MaxPositions + Cardinality(Missed) /\ MaxPositions \in Nat
<1>1. Missed \subseteq Symbols
  BY DEF Missed
<1>2. IsFiniteSet(Missed) /\ Cardinality(Missed) \in Nat /\ MaxPositions \in Nat
  BY <1>1, SymbolsCount, LimitsAssumption DEF LimitsAssumption
<1> QED BY <1>2 DEF MaxHoldings

LEMMA HoldingsGrow ==
  ASSUME Missed \subseteq Missed'
  PROVE  /\ Cardinality(Missed)' \in Nat /\ MaxHoldings' \in Nat
         /\ Cardinality(Missed) <= Cardinality(Missed)' /\ MaxHoldings <= MaxHoldings'
<1>1. IsFiniteSet(Missed') /\ Cardinality(Missed') \in Nat /\ MaxHoldings' = MaxPositions + Cardinality(Missed')
  <2>1. Missed' \subseteq Symbols
    BY DEF Missed
  <2> QED BY <2>1, SymbolsCount DEF MaxHoldings
<1>2. Cardinality(Missed) <= Cardinality(Missed')
  BY <1>1, FS_Subset
<1> QED BY <1>1, <1>2, HoldingsType

LEMMA LogShifts ==
  ASSUME BaseInv, NEW s \in Symbols, Log(s)
  PROVE  Shifts
<1>1. PICK n \in Nat, r \in Order :
        /\ Changes(<<s, n>>, r) /\ r.side = Get(<<s, n>>).side /\ r.st = Get(<<s, n>>).st
  BY LogChanges DEF BaseInv
<1>2. All' = All /\ \A o \in All : Get(o)'.st = Get(o).st
  BY <1>1 DEF Changes
<1>3. Positions' \subseteq Positions
  BY <1>1, ChangedPositions
<1>4. Missed \subseteq Missed'
  BY <1>2, MissedGrows
<1> QED BY <1>2, <1>3, <1>4 DEF Shifts

LEMMA EventShifts ==
  ASSUME BaseInv, NEW s \in Symbols, NEW i \in DOMAIN orders[s], Events(s, i)
  PROVE  Shifts
<1>1. TypeOK /\ OrdersType
  BY DEF BaseInv, TypeOK, OrdersType
<1>2. PICK r \in Order :
        /\ Changes(<<s, i>>, r) /\ <<s, i>> \in All
        /\ r.side = Get(<<s, i>>).side
        /\ Becomes(Get(<<s, i>>), r.st)
  BY <1>1, EventChanges
<1>3. PICK a : a = <<s, i>>
  OBVIOUS
<1>4. a \in All /\ All' = All /\ \A o \in All : Get(o)' = IF o = a THEN r ELSE Get(o)
  BY <1>2, <1>3 DEF Changes
<1>5. Missed \subseteq Missed'
  <2>1. \A o \in All : Get(o).st \in {"untracked", "replayed"} => Get(o)'.st \in {"untracked", "replayed"}
    BY <1>2, <1>3, <1>4 DEF Becomes
  <2> QED BY <1>4, <2>1, MissedGrows
<1>6. \A o \in All : Get(o)'.st = "working" => Get(o).st = "working"
  BY <1>2, <1>3, <1>4 DEF Becomes
<1>7. Get(a).st \in Executed => r.st \in Executed
  BY <1>2, <1>3 DEF Executed, Becomes
<1>8. CASE r.side = "buy" /\ Get(a).st = "working"
  <2>1. Positions' \subseteq Positions \cup {a[1]}
    BY <1>2, <1>3, <1>7, ChangedPositions
  <2>2. a \in Buys /\ (~Get(a).crowd => Pending(a))
    BY <1>1, <1>2, <1>3, <1>8, BuysAreBuys DEF Pending
  <2>3. Get(a)'.st # "working"
    BY <1>2, <1>3, <1>4, <1>8 DEF Becomes
  <2>4. Opens(a)
    BY <1>8, <2>1, <2>2, <2>3 DEF Opens
  <2> QED BY <1>4, <1>5, <1>6, <2>4 DEF Shifts
<1>9. CASE ~ (r.side = "buy" /\ Get(a).st = "working")
  <2>1. r.side = "sell" \/ (r.st \in Executed <=> Get(a).st \in Executed)
    <3>1. r.side \in {"buy", "sell"}
      BY DEF Order
    <3> QED BY <1>2, <1>3, <1>9, <3>1 DEF Executed, Becomes
  <2>2. Positions' \subseteq Positions
    BY <1>2, <1>3, <1>7, <2>1, ChangedPositions
  <2> QED BY <1>5, <1>6, <2>2 DEF Shifts
<1> QED BY <1>8, <1>9

\* With no buy on its way, what is held is tracked, or the tracker missed it.
LEMMA PositionsTracked ==
  ASSUME OrdersType,
         \A o \in All : ~ (Get(o).side = "buy" /\ Get(o).st \in {"working", "filled"})
  PROVE  Positions \subseteq Tracked \cup Missed
<1> SUFFICES ASSUME NEW s \in Symbols, Net(s, Executed) > 0, s \notin Missed PROVE Net(s, {"booked"}) # 0
  BY DEF Positions, Tracked
<1> DEFINE B == Shares(s, "buy", Executed)
           S == Shares(s, "sell", Executed)
           b == Shares(s, "buy", {"booked"})
           t == Shares(s, "sell", {"booked"})
<1>1. IsFiniteSet(S) /\ Cardinality(S) \in Nat /\ Cardinality(B) \in Nat /\ Cardinality(t) \in Nat
  BY SharesFinite
<1>2. B = b
  <2>1. \A o \in All : o[1] = s => Get(o).st \notin {"untracked", "replayed"}
    BY AllPairs DEF Missed, Get
  <2>2. \A o \in All : o[1] = s /\ Get(o).side = "buy" /\ Get(o).st \in Executed => Get(o).st = "booked"
    BY <2>1 DEF Executed
  <2> QED BY <2>2 DEF Shares, Of, Executed
<1>3. t \subseteq S
  BY DEF Shares, Of, Executed
<1>4. Net(s, Executed) = Cardinality(B) - Cardinality(S) /\ Net(s, {"booked"}) = Cardinality(b) - Cardinality(t)
  BY NetIsShares
<1> HIDE DEF B, S, b, t
<1>5. Cardinality(t) <= Cardinality(S)
  BY <1>1, <1>3, FS_Subset
<1> QED BY <1>1, <1>2, <1>4, <1>5

\* How many positions there are, with one more.
LEMMA PositionsCount ==
  /\ Cardinality(Positions) \in Nat
  /\ \A s \in Symbols : /\ Cardinality(Positions \cup {s}) \in Nat
                        /\ Cardinality(Positions \cup {s}) <= Cardinality(Positions) + 1
<1>1. Positions \subseteq Symbols
  BY DEF Positions
<1>2. IsFiniteSet(Positions) /\ Cardinality(Positions) \in Nat
  BY <1>1, SymbolsCount
<1>3. ASSUME NEW s \in Symbols
      PROVE  Cardinality(Positions \cup {s}) \in Nat /\ Cardinality(Positions \cup {s}) <= Cardinality(Positions) + 1
  <2> DEFINE c == Cardinality(Positions)
             d == Cardinality(Positions \cup {s})
  <2>1. d = c \/ d = c + 1
    <3>1. CASE s \in Positions
      <4>1. Positions \cup {s} = Positions
        BY <3>1
      <4> QED BY <4>1
    <3>2. CASE s \notin Positions
      BY <1>2, <3>2, FS_AddElement
    <3> QED BY <3>1, <3>2
  <2>2. c \in Nat
    BY <1>2
  <2> HIDE DEF c, d
  <2>3. d \in Nat /\ d <= c + 1
    BY <2>1, <2>2
  <2> QED BY <2>3 DEF c, d
<1> QED BY <1>2, <1>3

LEMMA FewerPositions ==
  ASSUME NEW P, P \subseteq Symbols, NEW Q, Q \subseteq P
  PROVE  Cardinality(Q) <= Cardinality(P) /\ Cardinality(Q) \in Nat /\ Cardinality(P) \in Nat
<1>1. IsFiniteSet(P) /\ IsFiniteSet(Q)
  BY SymbolsAssumption, FS_Subset
<1> QED BY <1>1, FS_Subset, FS_CardinalityType

LEMMA MovesCount ==
  ASSUME BaseInv, Alone, CountInv, Moves, Shifts
  PROVE  CountInv'
<1>1. OrdersType /\ TypeOK
  BY DEF BaseInv, TypeOK, OrdersType
<1> SUFFICES ASSUME ~Crowded' PROVE Counts'
  BY DEF CountInv
<1>2. ~Crowded
  BY <1>1, MovesCrowded
<1>3. Counts
  BY <1>2 DEF CountInv
<1>4. \A s \in Symbols :
        /\ call'[s] \in {"flow", "flowRead"} /\ ~crowd'[s] =>
             call[s] \in {"flow", "flowRead"} /\ ~crowd[s] /\ count'[s] = count[s]
        /\ Admitted(s)' /\ ~crowd'[s] => Admitted(s) /\ ~crowd[s]
  BY DEF Moves, Calm, Admitted
<1>5. All' = All /\ \A o \in All : Pending(o)' => Pending(o)
  BY DEF Moves
<1>6. \A o \in All : Get(o)'.st = "working" => Get(o).st = "working"
  BY DEF Shifts
<1>7. Positions \subseteq Symbols /\ Positions' \subseteq Symbols
  BY DEF Positions
<1> DEFINE m == Cardinality(Missed)
           k == Cardinality(Missed)'
<1>8. /\ m \in Nat /\ k \in Nat /\ m <= k
      /\ MaxHoldings \in Nat /\ MaxHoldings' \in Nat /\ MaxHoldings <= MaxHoldings'
      /\ \A s \in Symbols : count[s] \in Nat
  BY <1>1, HoldingsType, HoldingsGrow DEF Shifts, TypeOK
<1> HIDE DEF m, k
<1>9. CASE Positions' \subseteq Positions
  <2>1. Cardinality(Positions') <= Cardinality(Positions) /\ Cardinality(Positions') \in Nat
        /\ Cardinality(Positions) \in Nat
    BY <1>7, <1>9, FewerPositions
  <2>2. \A s \in Symbols : call'[s] \in {"flow", "flowRead"} /\ ~crowd'[s] => Cardinality(Positions') <= count'[s] + k
    <3> SUFFICES ASSUME NEW s \in Symbols, call'[s] \in {"flow", "flowRead"}, ~crowd'[s]
                 PROVE  Cardinality(Positions') <= count'[s] + k
      OBVIOUS
    <3>1. count'[s] = count[s] /\ Cardinality(Positions) <= count[s] + m /\ count[s] \in Nat
      BY <1>3, <1>4, <1>8 DEF Counts, m
    <3> QED BY <1>8, <2>1, <3>1
  <2>3. \A s \in Symbols : Admitted(s)' /\ ~crowd'[s] => Cardinality(Positions') < MaxHoldings'
    <3> SUFFICES ASSUME NEW s \in Symbols, Admitted(s)', ~crowd'[s]
                 PROVE  Cardinality(Positions') < MaxHoldings'
      OBVIOUS
    <3>1. Cardinality(Positions) < MaxHoldings
      BY <1>3, <1>4 DEF Counts
    <3> QED BY <1>8, <2>1, <3>1
  <2>4. \A o \in All' : Pending(o)' /\ Get(o)'.st = "working" => Cardinality(Positions' \cup {o[1]}) <= MaxHoldings'
    <3> SUFFICES ASSUME NEW o \in All, Pending(o)', Get(o)'.st = "working"
                 PROVE  Cardinality(Positions' \cup {o[1]}) <= MaxHoldings'
      BY <1>5
    <3>1. Cardinality(Positions \cup {o[1]}) <= MaxHoldings
      BY <1>3, <1>5, <1>6 DEF Counts
    <3>2. Positions \cup {o[1]} \subseteq Symbols /\ Positions' \cup {o[1]} \subseteq Positions \cup {o[1]}
      BY <1>7, <1>9, AllPairs
    <3> DEFINE c == Cardinality(Positions \cup {o[1]})
               d == Cardinality(Positions' \cup {o[1]})
    <3>3. d <= c /\ c \in Nat /\ d \in Nat
      BY <3>2, FewerPositions
    <3> HIDE DEF d
    <3>4. d <= MaxHoldings'
      BY <1>8, <3>1, <3>3
    <3> QED BY <3>4 DEF d
  <2>5. Cardinality(Positions') <= MaxHoldings'
    <3>1. Cardinality(Positions) <= MaxHoldings
      BY <1>3 DEF Counts
    <3> QED BY <1>8, <2>1, <3>1
  <2> QED BY <2>2, <2>3, <2>4, <2>5 DEF Counts, k
<1>10. CASE \E a \in All : Opens(a)
  <2>1. PICK a \in All : Opens(a)
    BY <1>10
  <2>2. Pending(a) /\ Get(a).st = "working" /\ Get(a)'.st # "working" /\ Positions' \subseteq Positions \cup {a[1]}
    BY <1>2, <2>1 DEF Opens, Crowded
  <2>3. \A s \in Symbols : ~Lone(s)
    BY <2>2 DEF Alone, Lone
  <2>4. \A o \in All' : ~ (Pending(o)' /\ Get(o)'.st = "working")
    BY <1>5, <2>2 DEF Alone
  <2>5. \A s \in Symbols : ~ (call'[s] \in {"flow", "flowRead"} /\ ~crowd'[s]) /\ ~ (Admitted(s)' /\ ~crowd'[s])
    <3> TAKE s \in Symbols
    <3>1. call[s] \in {"flow", "flowRead"} \/ Admitted(s) => Ordering(s)
      BY DEF Admitted, Ordering, Reading
    <3> QED BY <1>4, <2>3, <3>1 DEF Lone
  <2>6. Cardinality(Positions') <= MaxHoldings'
    <3>1. Cardinality(Positions \cup {a[1]}) <= MaxHoldings
      BY <1>3, <2>2 DEF Counts
    <3>2. Positions \cup {a[1]} \subseteq Symbols
      BY <1>7, AllPairs
    <3> DEFINE c == Cardinality(Positions \cup {a[1]})
               d == Cardinality(Positions')
    <3>3. d <= c /\ c \in Nat /\ d \in Nat
      BY <2>2, <3>2, FewerPositions
    <3> HIDE DEF d
    <3>4. d <= MaxHoldings'
      BY <1>8, <3>1, <3>3
    <3> QED BY <3>4 DEF d
  <2> QED BY <2>4, <2>5, <2>6 DEF Counts, k
<1> QED BY <1>9, <1>10 DEF Shifts

\* Two sets of symbols have no more than their symbols together.
LEMMA UnionCount ==
  ASSUME NEW S, NEW T, S \subseteq Symbols, T \subseteq Symbols
  PROVE  Cardinality(S \cup T) <= Cardinality(S) + Cardinality(T)
<1>1. IsFiniteSet(S) /\ IsFiniteSet(T) /\ S \cap T \subseteq Symbols
  BY SymbolsAssumption, FS_Subset
<1>2. Cardinality(S) \in Nat /\ Cardinality(T) \in Nat /\ Cardinality(S \cap T) \in Nat
  BY <1>1, SymbolsCount
<1>3. Cardinality(S \cup T) = Cardinality(S) + Cardinality(T) - Cardinality(S \cap T)
  BY <1>1, FS_Union
<1> QED BY <1>2, <1>3

LEMMA QuietCount ==
  ASSUME BaseInv, CountInv, NEW s \in Symbols, Quiet(s)
  PROVE  CountInv'
<1>1. OrdersType /\ TypeOK
  BY DEF BaseInv, TypeOK, OrdersType
<1>2. orders' = orders
  BY QuietOrders
<1>3. Crowded' = Crowded /\ Missed' = Missed /\ Positions' = Positions /\ All' = All /\ \A o : Get(o)' = Get(o)
  BY <1>2, SameOrders
<1> SUFFICES ASSUME ~Crowded PROVE Counts'
  BY <1>3 DEF CountInv
<1>4. Counts
  BY DEF CountInv
<1> DEFINE m == Cardinality(Missed)
<1>5. /\ count[s] \in Nat /\ Cardinality(Positions) \in Nat
      /\ m \in Nat /\ MaxHoldings = MaxPositions + m /\ MaxPositions \in Nat /\ MaxHoldings' = MaxHoldings
  BY <1>1, <1>3, PositionsCount, HoldingsType DEF TypeOK, MaxHoldings
<1>6. call'[s] \in {"flow", "flowRead"} /\ ~crowd'[s] => Cardinality(Positions) <= count'[s] + m
  <2>1. CASE RouteEntry(s)
    <3> SUFFICES ASSUME ~crowd'[s] PROVE Cardinality(Positions) <= count'[s] + m
      OBVIOUS
    <3>1. Positions \subseteq Tracked \cup Missed
      BY <1>1, <2>1, EntryIsCrowded, PositionsTracked
    <3>2. Tracked \subseteq Symbols /\ Missed \subseteq Symbols
      BY DEF Tracked, Missed
    <3>3. count'[s] = Cardinality(Tracked)
      BY <1>1, <2>1 DEF RouteEntry, TypeOK
    <3>4. Cardinality(Positions) <= Cardinality(Tracked \cup Missed)
          /\ Cardinality(Tracked \cup Missed) \in Nat
      BY <3>1, <3>2, FewerPositions
    <3>5. Cardinality(Tracked \cup Missed) <= Cardinality(Tracked) + m
      BY <3>2, UnionCount
    <3>6. Cardinality(Tracked) \in Nat
      BY <3>2, SymbolsCount
    <3> QED BY <1>5, <3>3, <3>4, <3>5, <3>6
  <2>2. CASE ReadFlow(s)
    <3>1. call[s] = "flow" /\ count' = count /\ crowd' = crowd
      BY <2>2 DEF ReadFlow
    <3> QED BY <1>4, <3>1 DEF Counts
  <2>3. CASE ~RouteEntry(s) /\ ~ReadFlow(s)
    BY <1>1, <2>3, QuietMoves
  <2> QED BY <2>1, <2>2, <2>3
<1>7. Admitted(s)' /\ ~crowd'[s] => Cardinality(Positions) < MaxHoldings
  <2> SUFFICES ASSUME Admitted(s)', ~crowd'[s] PROVE Cardinality(Positions) < MaxHoldings
    OBVIOUS
  <2>1. (Admitted(s) \/ Admit(s)) /\ ~crowd[s]
    BY <1>1, QuietMoves
  <2>2. CASE Admitted(s)
    BY <1>4, <2>1, <2>2 DEF Counts
  <2>3. CASE Admit(s)
    <3>1. count[s] < MaxPositions /\ Cardinality(Positions) <= count[s] + m
      BY <1>4, <2>1, <2>3 DEF Admit, Counts
    <3> QED BY <1>5, <3>1
  <2> QED BY <2>1, <2>2, <2>3
<1>8. \A t \in Symbols : call'[t] \in {"flow", "flowRead"} /\ ~crowd'[t] => Cardinality(Positions) <= count'[t] + m
  BY <1>1, <1>4, <1>6, QuietOthers DEF Counts
<1>9. \A t \in Symbols : Admitted(t)' /\ ~crowd'[t] => Cardinality(Positions) < MaxHoldings
  <2> TAKE t \in Symbols
  <2>1. t # s => (Admitted(t)' /\ ~crowd'[t] => Admitted(t) /\ ~crowd[t])
    BY <1>1, QuietOthers DEF Admitted
  <2> QED BY <1>4, <1>7, <2>1 DEF Counts
<1>10. \A o \in All' : Pending(o)' /\ Get(o)'.st = "working" => Cardinality(Positions \cup {o[1]}) <= MaxHoldings
  <2> SUFFICES ASSUME NEW o \in All, Pending(o)', Get(o)'.st = "working"
               PROVE  Cardinality(Positions \cup {o[1]}) <= MaxHoldings
    BY <1>3
  <2>1. Pending(o) /\ Get(o).st = "working"
    BY <1>1, <1>3, QuietPending
  <2> QED BY <1>4, <2>1 DEF Counts
<1> QED BY <1>3, <1>4, <1>5, <1>8, <1>9, <1>10 DEF Counts

\* The symbols of the orders the tracker missed.
LEMMA MissedOrders ==
  \A t : t \in Missed <=> \E o \in All : o[1] = t /\ Get(o).st \in {"untracked", "replayed"}
<1> TAKE t
<1>1. ASSUME t \in Missed PROVE \E o \in All : o[1] = t /\ Get(o).st \in {"untracked", "replayed"}
  <2>1. PICK i \in DOMAIN orders[t] : t \in Symbols /\ orders[t][i].st \in {"untracked", "replayed"}
    BY <1>1 DEF Missed
  <2>2. <<t, i>> \in All /\ Get(<<t, i>>).st \in {"untracked", "replayed"}
    BY <2>1, AllMember DEF Get
  <2> QED BY <2>2
<1>2. ASSUME NEW o \in All, o[1] = t, Get(o).st \in {"untracked", "replayed"} PROVE t \in Missed
  BY <1>2, AllPairs DEF Missed, Get
<1> QED BY <1>1, <1>2

LEMMA PlaceCount ==
  ASSUME BaseInv, CountInv, NEW s \in Symbols, Place(s)
  PROVE  CountInv'
<1>1. OrdersType /\ TypeOK
  BY DEF BaseInv, TypeOK, OrdersType
<1>2. PICK n \in Nat, r \in Order :
        /\ Adds(<<s, n>>, r) /\ Len(orders'[s]) = n
        /\ \A t \in Symbols \ {s} : Len(orders'[t]) = Len(orders[t])
        /\ r.side = (IF s \in wants THEN "buy" ELSE "sell")
        /\ r.st = (IF s \in wants \/ Held(s) > 0 THEN "working" ELSE "dead")
        /\ r.crowd = crowd[s]
  BY <1>1, PlaceAdds
<1>3. PICK a : a = <<s, n>>
  OBVIOUS
<1>4. /\ a \notin All /\ All' = All \cup {a} /\ Get(a)' = r /\ (\A o \in All : Get(o)' = Get(o)) /\ a[1] = s
  BY <1>2, <1>3 DEF Adds
<1>5. Positions' = Positions
  <2>1. r.st \notin Executed
    BY <1>2 DEF Executed
  <2>2. \A side : \A o : o \in Of(side, Executed) <=> o \in All /\ Get(o).side = side /\ Get(o).st \in Executed
    BY DEF Of
  <2>3. \A side : \A o : o \in Of(side, Executed)' <=> o \in All' /\ Get(o)'.side = side /\ Get(o)'.st \in Executed
    BY DEF Of, Executed
  <2>4. ASSUME NEW side PROVE Of(side, Executed)' = Of(side, Executed)
    <3>1. \A o : o \in Of(side, Executed)' <=> o \in Of(side, Executed)
      BY <1>4, <2>1, <2>2, <2>3
    <3>2. Of(side, Executed)' \subseteq All' /\ Of(side, Executed) \subseteq All
      BY DEF Of
    <3> QED BY <3>1, <3>2
  <2>5. \A t : Net(t, Executed)' = Net(t, Executed)
    <3>1. Of("buy", Executed)' = Of("buy", Executed) /\ Of("sell", Executed)' = Of("sell", Executed)
      BY <2>4
    <3> QED BY <3>1 DEF Net, Executed
  <2> QED BY <2>5 DEF Positions, Executed
<1> SUFFICES ASSUME ~Crowded' PROVE Counts'
  BY DEF CountInv
<1>6. ~Crowded
  BY <1>1, <1>2, PlaceLeavesFlow
<1>7. Missed' = Missed
  <2>1. r.st \notin {"untracked", "replayed"}
    BY <1>2
  <2>2. \A o \in All : Get(o)'.st \in {"untracked", "replayed"} <=> Get(o).st \in {"untracked", "replayed"}
    BY <1>4
  <2>3. \A t : t \in Missed <=> \E o \in All : o[1] = t /\ Get(o).st \in {"untracked", "replayed"}
    BY MissedOrders
  <2>4. (\A t : t \in Missed <=> \E o \in All : o[1] = t /\ Get(o).st \in {"untracked", "replayed"})'
    BY MissedOrders, PTL
  <2>5. \A t : t \in Missed' <=> t \in Missed
    BY <1>4, <2>1, <2>2, <2>3, <2>4
  <2> QED BY <2>5 DEF Missed
<1>8. Counts
  BY <1>6 DEF CountInv
<1>9. call[s] = "place" /\ call'[s] = "log" /\ \A t \in Symbols \ {s} : call'[t] = call[t]
  BY <1>1 DEF TypeOK, Place, Goto
<1>10. wants' = wants /\ count' = count /\ \A t \in Symbols \ {s} : crowd'[t] = crowd[t]
  BY <1>1 DEF Place, TypeOK
<1>11. \A t \in Symbols : call'[t] \in {"flow", "flowRead"} /\ ~crowd'[t] => Cardinality(Positions) <= count'[t] + Cardinality(Missed)
  BY <1>8, <1>9, <1>10 DEF Counts
<1>12. \A t \in Symbols : Admitted(t)' /\ ~crowd'[t] => Cardinality(Positions) < MaxHoldings
  <2>1. \A t \in Symbols : Admitted(t)' /\ ~crowd'[t] => Admitted(t) /\ ~crowd[t]
    BY <1>9, <1>10 DEF Admitted
  <2> QED BY <1>8, <2>1 DEF Counts
<1>13. ASSUME NEW o \in All', Pending(o)', Get(o)'.st = "working"
       PROVE  Cardinality(Positions \cup {o[1]}) <= MaxHoldings
  <2>1. CASE o \in All
    <3>1. Pending(o)
      BY <1>2, <1>13, <2>1, PlacePending
    <3>2. Get(o).st = "working"
      BY <1>4, <1>13, <2>1
    <3> QED BY <1>8, <2>1, <3>1, <3>2 DEF Counts
  <2>2. CASE o = a
    <3>1. Pending(<<s, n>>)'
      BY <1>3, <1>13, <2>2 DEF Pending, Get
    <3>2. Admitted(s) /\ ~crowd[s]
      BY <1>2, <1>9, <3>1, PlacePending DEF Admitted
    <3>3. Cardinality(Positions) < MaxHoldings
      BY <1>8, <3>2 DEF Counts
    <3> DEFINE c == Cardinality(Positions)
               d == Cardinality(Positions \cup {s})
    <3>4. c \in Nat /\ d \in Nat /\ d <= c + 1 /\ MaxHoldings \in Nat
      BY PositionsCount, HoldingsType
    <3> HIDE DEF d
    <3>5. d <= MaxHoldings
      BY <3>3, <3>4
    <3> QED BY <1>4, <2>2, <3>5 DEF d
  <2> QED BY <1>4, <2>1, <2>2
<1>14. Cardinality(Positions) <= MaxHoldings
  BY <1>8 DEF Counts
<1>15. MaxHoldings' = MaxHoldings
  BY <1>7 DEF MaxHoldings
<1> QED BY <1>5, <1>7, <1>15, <1>11, <1>12, <1>13, <1>14 DEF Counts

LEMMA DayCount ==
  ASSUME BaseInv, CountInv, NewDay \/ Restart
  PROVE  CountInv'
<1>1. TypeOK
  BY DEF BaseInv
<1>2. Remaps /\ Calm
  BY <1>1, NewDayRemaps, RestartRemaps, DayCalm
<1>3. Positions' = Positions /\ (Crowded' <=> Crowded) /\ Missed \subseteq Missed'
  BY <1>2, RemapsLeave
<1> SUFFICES ASSUME ~Crowded PROVE Counts'
  BY <1>3 DEF CountInv
<1>4. Counts
  BY DEF CountInv
<1> DEFINE c == Cardinality(Positions)
           m == Cardinality(Missed)
           k == Cardinality(Missed)'
<1>5. /\ m \in Nat /\ k \in Nat /\ m <= k /\ c \in Nat
      /\ MaxHoldings \in Nat /\ MaxHoldings' \in Nat /\ MaxHoldings <= MaxHoldings'
      /\ \A s \in Symbols : count[s] \in Nat
  BY <1>1, <1>3, HoldingsType, HoldingsGrow, PositionsCount DEF TypeOK
<1>6. \A s \in Symbols :
        /\ call'[s] \in {"flow", "flowRead"} /\ ~crowd'[s] =>
             call[s] \in {"flow", "flowRead"} /\ ~crowd[s] /\ count'[s] = count[s]
        /\ Admitted(s)' /\ ~crowd'[s] => Admitted(s) /\ ~crowd[s]
  BY <1>2 DEF Calm, Admitted
<1>7. \A s \in Symbols : call[s] \in {"flow", "flowRead"} /\ ~crowd[s] => c <= count[s] + m
  BY <1>4 DEF Counts
<1>8. \A s \in Symbols : Admitted(s) /\ ~crowd[s] => c < MaxHoldings
  BY <1>4 DEF Counts
<1>9. c <= MaxHoldings
  BY <1>4 DEF Counts
<1> HIDE DEF c, m, k
<1>10. \A s \in Symbols : call'[s] \in {"flow", "flowRead"} /\ ~crowd'[s] => c <= count'[s] + k
  <2> SUFFICES ASSUME NEW s \in Symbols, call'[s] \in {"flow", "flowRead"}, ~crowd'[s]
               PROVE  c <= count'[s] + k
    OBVIOUS
  <2>1. count'[s] = count[s] /\ c <= count[s] + m /\ count[s] \in Nat
    BY <1>5, <1>6, <1>7
  <2> QED BY <1>5, <2>1
<1>11. \A s \in Symbols : Admitted(s)' /\ ~crowd'[s] => c < MaxHoldings'
  BY <1>5, <1>6, <1>8
<1>12. ASSUME NEW o \in All', Pending(o)', Get(o)'.st = "working"
       PROVE  Cardinality(Positions \cup {o[1]}) <= MaxHoldings'
  <2>1. o \in All /\ Pending(o)
    BY <1>1, <1>12, DayPending
  <2>2. Get(o).st = "working"
    BY <1>2, <1>12, <2>1 DEF Remaps
  <2> DEFINE d == Cardinality(Positions \cup {o[1]})
  <2>3. d <= MaxHoldings
    BY <1>4, <2>1, <2>2 DEF Counts
  <2>4. d \in Nat
    BY <2>1, AllPairs, PositionsCount
  <2> HIDE DEF d
  <2>5. d <= MaxHoldings'
    BY <1>5, <2>3, <2>4
  <2> QED BY <2>5 DEF d
<1>13. c <= MaxHoldings'
  BY <1>5, <1>9
<1> QED BY <1>3, <1>10, <1>11, <1>12, <1>13 DEF Counts, c, k

LEMMA InitCount == Init => CountInv
<1> SUFFICES ASSUME Init PROVE CountInv
  OBVIOUS
<1>1. All = {} /\ \A side, sts : Of(side, sts) = {}
  BY NoOrders
<1>2. \A s : Net(s, Executed) = 0
  <2>1. \A s, side, sts : {o \in Of(side, sts) : o[1] = s} = {}
    BY <1>1
  <2> QED BY <2>1, FS_EmptySet DEF Net
<1>3. Positions = {}
  BY <1>2 DEF Positions
<1>4. Cardinality(Positions) = 0
  BY <1>3, FS_EmptySet
<1>5. \A s \in Symbols : call[s] = "idle"
  BY DEF Init
<1>6. MaxHoldings \in Nat /\ Cardinality(Missed) \in Nat
  BY HoldingsType
<1> QED BY <1>1, <1>4, <1>5, <1>6 DEF CountInv, Counts, Admitted

LEMMA NextCount == BaseInv /\ Alone /\ CountInv /\ [Next]_vars => CountInv'
<1> SUFFICES ASSUME BaseInv, Alone, CountInv, [Next]_vars PROVE CountInv'
  OBVIOUS
<1>1. CASE \E s \in Symbols : Quiet(s)
  BY <1>1, QuietCount
<1>2. CASE \E s \in Symbols : Place(s)
  BY <1>2, PlaceCount
<1>3. CASE \E s \in Symbols : Log(s)
  BY <1>3, LogMoves, LogShifts, MovesCount
<1>4. CASE \E s \in Symbols : \E i \in DOMAIN orders[s] : Events(s, i)
  BY <1>4, EventMoves, EventShifts, MovesCount
<1>5. CASE NewDay \/ Restart
  BY <1>5, DayCount
<1>6. CASE UNCHANGED vars
  <2>1. orders' = orders /\ UNCHANGED <<call, wants, count, crowd>>
    BY <1>6 DEF vars, reads, history
  <2>2. Crowded' = Crowded /\ Missed' = Missed /\ Positions' = Positions /\ All' = All
        /\ \A o : Get(o)' = Get(o)
    BY <2>1, SameOrders
  <2>3. Counts' <=> Counts
    BY <2>1, <2>2 DEF Counts, MaxHoldings, Admitted, Pending, Get, Last
  <2> QED BY <2>2, <2>3 DEF CountInv
<1> QED BY <1>1, <1>2, <1>3, <1>4, <1>5, <1>6, Steps

\* As long as entries do not overlap, the account exceeds the maximum of positions by no
\* more than the symbols of which the tracker missed a fill.
THEOREM MaxHeld == Spec => []PositionsWithinMax
<1>1. CountInv => PositionsWithinMax
  BY DEF CountInv, Counts, PositionsWithinMax, Positions, MaxHoldings
<1> QED BY <1>1, InitBase, NextBase, InitAlone, NextAlone, InitCount, NextCount, PTL DEF Spec
=============================================================================
