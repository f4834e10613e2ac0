-------------------------- MODULE EquitySwingProofs --------------------------
(***************************************************************************)
(* Theorems about strategy 004 on the platform (EquitySwing), for any      *)
(* symbols, sizes, limits, days, deaths and failures.                      *)
(***************************************************************************)
EXTENDS EquitySwing, SumTheorems, SequenceTheorems, FiniteSetTheorems, TLAPS

One(b) == IF b THEN 1 ELSE 0

\* A process that is down remembers nothing.
Down == ~up => \A s \in Symbols : pc[s] = "wait" /\ pos[s] = 0 /\ stopId[s] = 0 /\ s \notin entered

\* Only an open leg has an entry price.
EntryHeld(s) == s \in entered => pos[s] # 0

\* While a request about a stop is under way no stop is tracked, and the stop
\* that was sent is at the broker.
StopInHand(s) ==
  /\ pc[s] \in {"cancel", "stop"} => stopId[s] = 0
  /\ pc[s] = "stop" => s \in entered /\ req[s] \in 1..Len(orders[s])

\* Every leg pays for one exit: sent, in hand, or still to come.
ExitPaid(s) ==
  Cardinality(OrdersOf(s, "exit")) + One(pos[s] # 0) + One(pc[s] = "exit") <= legs[s]

\* Every leg, and every failure, pays for one stop: sent or still to come.
StopPaid(s) ==
  Cardinality(OrdersOf(s, "stop")) + One(s \in entered /\ stopId[s] = 0 /\ pc[s] # "stop")
    <= legs[s] + failures

\* Every death and every failure pays for one stop left behind.
OrphansPaid(s) == Cardinality(Orphans(s)) <= crashes + failures

\* While nothing fails: the stop tracked or sent is for the leg, and a flat
\* symbol has one only between its exit and its post_bar_async.
StopsCover(s) ==
  failures = 0 =>
    /\ pos[s] # 0 /\ stopId[s] # 0 => orders[s][stopId[s]].qty = -pos[s]
    /\ pc[s] = "stop" => pos[s] # 0 /\ orders[s][req[s]].qty = -pos[s]
    /\ pos[s] = 0 /\ stopId[s] # 0 => pc[s] \in {"exit", "placing", "post"}

SymInv(s) ==
  EntryHeld(s) /\ StopInHand(s) /\ ExitPaid(s) /\ StopPaid(s) /\ OrphansPaid(s) /\ StopsCover(s)

\* The inductive invariant.
IInv == /\ TypeOK
        /\ Down
        /\ LegsWithinMax
        /\ \A s \in Symbols : SymInv(s)

-----------------------------------------------------------------------------
(* Lemmas about the broker's orders *)

\* The orders of a kind are finitely many.
LEMMA OrdersFinite ==
  ASSUME TypeOK, NEW s \in Symbols, NEW kind
  PROVE  IsFiniteSet(OrdersOf(s, kind)) /\ Cardinality(OrdersOf(s, kind)) \in Nat
  <1>1. orders[s] \in Seq(Order)
    BY DEF TypeOK
  <1>2. Len(orders[s]) \in Nat /\ DOMAIN orders[s] = 1..Len(orders[s])
    BY <1>1
  <1>3. IsFiniteSet(1..Len(orders[s]))
    BY <1>2, FS_Interval
  <1>4. OrdersOf(s, kind) \subseteq 1..Len(orders[s])
    BY <1>2 DEF OrdersOf
  <1>5. IsFiniteSet(OrdersOf(s, kind))
    BY <1>3, <1>4, FS_Subset
  <1> QED BY <1>5, FS_CardinalityType

\* So are the stops left behind.
LEMMA OrphansFinite ==
  ASSUME TypeOK, NEW s \in Symbols
  PROVE  IsFiniteSet(Orphans(s)) /\ Cardinality(Orphans(s)) \in Nat
  <1>1. Orphans(s) \subseteq OrdersOf(s, "stop")
    BY DEF Orphans
  <1>2. IsFiniteSet(Orphans(s))
    BY <1>1, OrdersFinite, FS_Subset
  <1> QED BY <1>2, FS_CardinalityType

\* A subset of a finite set has no more members, and one member more than the
\* set adds at most one.
LEMMA OneMore ==
  ASSUME NEW A, NEW B, NEW x, IsFiniteSet(A), B \subseteq A \cup {x}
  PROVE  IsFiniteSet(B) /\ Cardinality(B) \in Nat /\ Cardinality(A) \in Nat
         /\ Cardinality(B) <= Cardinality(A) + 1
  <1>1. /\ IsFiniteSet(A \cup {x})
        /\ Cardinality(A \cup {x}) = IF x \in A THEN Cardinality(A) ELSE Cardinality(A) + 1
    BY FS_AddElement
  <1>2. IsFiniteSet(B) /\ Cardinality(B) <= Cardinality(A \cup {x})
    BY <1>1, FS_Subset
  <1>3. Cardinality(A) \in Nat /\ Cardinality(B) \in Nat
    BY <1>2, FS_CardinalityType
  <1> QED BY <1>1, <1>2, <1>3

\* The orders of a symbol are the same; at most their status went on.
Carried(s) ==
  /\ Len(orders'[s]) = Len(orders[s])
  /\ \A i \in 1..Len(orders[s]) :
       /\ orders'[s][i].kind = orders[s][i].kind
       /\ orders'[s][i].qty = orders[s][i].qty
       /\ orders'[s][i].st = "working" => orders[s][i].st = "working"

\* Orders that are carried over keep their kind.
LEMMA CarriedOrders ==
  ASSUME TypeOK, orders' \in [Symbols -> Seq(Order)], NEW s \in Symbols, Carried(s)
  PROVE  /\ DOMAIN orders[s] = 1..Len(orders[s]) /\ DOMAIN orders'[s] = 1..Len(orders[s])
         /\ Len(orders[s]) \in Nat
         /\ OrdersOf(s, "exit")' = OrdersOf(s, "exit")
         /\ OrdersOf(s, "stop")' = OrdersOf(s, "stop")
  <1>1. orders[s] \in Seq(Order) /\ orders'[s] \in Seq(Order)
    BY DEF TypeOK
  <1>2. /\ DOMAIN orders[s] = 1..Len(orders[s]) /\ DOMAIN orders'[s] = 1..Len(orders'[s])
        /\ Len(orders[s]) \in Nat
    BY <1>1
  <1>3. DOMAIN orders'[s] = DOMAIN orders[s]
    BY <1>2 DEF Carried
  <1>4. \A i \in DOMAIN orders[s] : orders'[s][i].kind = orders[s][i].kind
    BY <1>2 DEF Carried
  <1> QED BY <1>2, <1>3, <1>4 DEF OrdersOf

\* Orders nobody touched are carried over.
LEMMA UntouchedCarried ==
  ASSUME NEW s \in Symbols, orders'[s] = orders[s]
  PROVE  Carried(s)
  BY DEF Carried

\* An execution, a rejection or a cancellation only restates an order.
LEMMA RestatedCarried ==
  ASSUME TypeOK, NEW s \in Symbols, NEW i \in DOMAIN orders[s],
         NEW st \in {"filled", "dead"}, orders' = [orders EXCEPT ![s][i].st = st]
  PROVE  /\ orders' \in [Symbols -> Seq(Order)] /\ \A o \in Symbols : Carried(o)
         /\ orders'[s][i].st = st
         /\ \A j \in 1..Len(orders[s]) : j # i => orders'[s][j] = orders[s][j]
         /\ \A o \in Symbols : o # s => orders'[o] = orders[o]
  <1> DEFINE new == [orders[s] EXCEPT ![i].st = st]
  <1>1. orders[s] \in Seq(Order)
    BY DEF TypeOK
  <1>2. Len(orders[s]) \in Nat /\ DOMAIN orders[s] = 1..Len(orders[s])
        /\ orders[s] \in [1..Len(orders[s]) -> Order]
    BY <1>1
  <1>3. [orders[s][i] EXCEPT !.st = st] \in Order
    BY <1>2 DEF Order, OrderStatus
  <1>4. new \in [1..Len(orders[s]) -> Order]
    BY <1>2, <1>3
  <1>5. new \in Seq(Order) /\ Len(new) = Len(orders[s])
    <2> HIDE DEF new
    <2>1. new \in Seq(Order)
      BY <1>2, <1>4, SeqDef
    <2>2. Len(new) \in Nat /\ DOMAIN new = 1..Len(new) /\ DOMAIN new = 1..Len(orders[s])
      BY <2>1, <1>4
    <2> QED BY <2>1, <2>2, <1>2
  <1>6. \A j \in 1..Len(orders[s]) :
          /\ new[j].kind = orders[s][j].kind /\ new[j].qty = orders[s][j].qty
          /\ new[j].st = "working" => orders[s][j].st = "working"
    <2> SUFFICES ASSUME NEW j \in 1..Len(orders[s])
                 PROVE  /\ new[j].kind = orders[s][j].kind /\ new[j].qty = orders[s][j].qty
                        /\ new[j].st = "working" => orders[s][j].st = "working"
      OBVIOUS
    <2>1. orders[s][j] \in Order
      BY <1>2
    <2>2. CASE j = i
      <3>1. new[j] = [orders[s][j] EXCEPT !.st = st]
        BY <2>2, <1>2
      <3> QED BY <3>1, <2>1 DEF Order
    <2>3. CASE j # i
      BY <2>3, <1>2
    <2> QED BY <2>2, <2>3
  <1>7. orders'[s] = new /\ \A o \in Symbols : o # s => orders'[o] = orders[o]
    BY DEF TypeOK
  <1>10. new[i].st = st /\ \A j \in 1..Len(orders[s]) : j # i => new[j] = orders[s][j]
    <2>1. orders[s][i] \in Order
      BY <1>2
    <2>2. new[i] = [orders[s][i] EXCEPT !.st = st]
      BY <1>2
    <2>3. [orders[s][i] EXCEPT !.st = st].st = st
      BY <2>1 DEF Order
    <2>4. \A j \in 1..Len(orders[s]) : j # i => new[j] = orders[s][j]
      BY <1>2
    <2> QED BY <2>2, <2>3, <2>4
  <1> HIDE DEF new
  <1>8. orders' \in [Symbols -> Seq(Order)]
    BY <1>5, <1>7 DEF TypeOK
  <1>9. Carried(s)
    BY <1>5, <1>6, <1>7 DEF Carried
  <1> QED BY <1>7, <1>8, <1>9, <1>10, UntouchedCarried

\* So does the cancellation of the order a request is about.
LEMMA CancelledCarried ==
  ASSUME TypeOK, NEW s \in Symbols, Cancelled(s)
  PROVE  /\ orders' \in [Symbols -> Seq(Order)] /\ \A o \in Symbols : Carried(o)
         /\ req[s] \in 1..Len(orders[s]) => orders'[s][req[s]].st # "working"
         /\ \A j \in 1..Len(orders[s]) : orders'[s][j].st = "filled" <=> orders[s][j].st = "filled"
         /\ \A o \in Symbols : o # s => orders'[o] = orders[o]
  <1> DEFINE new == [i \in DOMAIN orders[s] |->
               IF i = req[s] /\ orders[s][i].st = "working"
               THEN [orders[s][i] EXCEPT !.st = "dead"] ELSE orders[s][i]]
  <1>1. orders[s] \in Seq(Order)
    BY DEF TypeOK
  <1>2. Len(orders[s]) \in Nat /\ DOMAIN orders[s] = 1..Len(orders[s])
        /\ orders[s] \in [1..Len(orders[s]) -> Order]
    BY <1>1
  <1>3. \A j \in 1..Len(orders[s]) :
          /\ new[j] \in Order
          /\ new[j].kind = orders[s][j].kind /\ new[j].qty = orders[s][j].qty
          /\ new[j].st = "working" => orders[s][j].st = "working" /\ j # req[s]
          /\ new[j].st = "filled" <=> orders[s][j].st = "filled"
    <2> SUFFICES ASSUME NEW j \in 1..Len(orders[s])
                 PROVE  /\ new[j] \in Order
                        /\ new[j].kind = orders[s][j].kind /\ new[j].qty = orders[s][j].qty
                        /\ new[j].st = "working" => orders[s][j].st = "working" /\ j # req[s]
                        /\ new[j].st = "filled" <=> orders[s][j].st = "filled"
      OBVIOUS
    <2>1. orders[s][j] \in Order
      BY <1>2
    <2>2. CASE j = req[s] /\ orders[s][j].st = "working"
      <3>1. new[j] = [orders[s][j] EXCEPT !.st = "dead"]
        BY <2>2, <1>2
      <3> HIDE DEF new
      <3> QED BY <3>1, <2>1, <2>2 DEF Order, OrderStatus
    <2>3. CASE ~(j = req[s] /\ orders[s][j].st = "working")
      <3>1. new[j] = orders[s][j]
        BY <2>3, <1>2
      <3> HIDE DEF new
      <3> QED BY <3>1, <2>1, <2>3
    <2> QED BY <2>2, <2>3
  <1>4. DOMAIN new = 1..Len(orders[s])
    BY <1>2
  <1>5. new \in [1..Len(orders[s]) -> Order]
    BY <1>2, <1>3
  <1>6. orders' = [orders EXCEPT ![s] = new]
    BY DEF Cancelled
  <1> HIDE DEF new
  <1>7. new \in Seq(Order) /\ Len(new) = Len(orders[s])
    <2>1. new \in Seq(Order)
      BY <1>2, <1>5, SeqDef
    <2>2. Len(new) \in Nat /\ DOMAIN new = 1..Len(new)
      BY <2>1
    <2> QED BY <2>1, <2>2, <1>2, <1>4
  <1>8. orders'[s] = new /\ \A o \in Symbols : o # s => orders'[o] = orders[o]
    BY <1>6 DEF TypeOK
  <1>9. orders' \in [Symbols -> Seq(Order)]
    BY <1>6, <1>7 DEF TypeOK
  <1>10. Carried(s)
    BY <1>3, <1>7, <1>8 DEF Carried
  <1> QED BY <1>3, <1>8, <1>9, <1>10, UntouchedCarried

\* What the broker has after an order reached it.
LEMMA Appended ==
  ASSUME TypeOK, NEW s \in Symbols, NEW kind \in Kinds, NEW q \in Int,
         orders' = [orders EXCEPT ![s] = Append(@, NewOrder(kind, q))]
  PROVE  /\ orders' \in [Symbols -> Seq(Order)]
         /\ Len(orders[s]) \in Nat /\ Len(orders'[s]) = Len(orders[s]) + 1
         /\ \A i \in 1..Len(orders[s]) : orders'[s][i] = orders[s][i]
         /\ orders'[s][Len(orders[s]) + 1] = NewOrder(kind, q)
         /\ \A o \in Symbols : o # s => orders'[o] = orders[o]
  <1> DEFINE new == NewOrder(kind, q)
  <1>1. orders[s] \in Seq(Order)
    BY DEF TypeOK
  <1>2. new \in Order
    BY DEF NewOrder, Order, OrderStatus
  <1> HIDE DEF new
  <1>3. /\ Append(orders[s], new) \in Seq(Order)
        /\ Len(Append(orders[s], new)) = Len(orders[s]) + 1
        /\ \A i \in 1..Len(orders[s]) : Append(orders[s], new)[i] = orders[s][i]
        /\ Append(orders[s], new)[Len(orders[s]) + 1] = new
    BY <1>1, <1>2, AppendProperties
  <1>4. Len(orders[s]) \in Nat
    BY <1>1
  <1>5. orders' = [orders EXCEPT ![s] = Append(orders[s], new)]
    BY DEF new
  <1>6. orders'[s] = Append(orders[s], new) /\ \A o \in Symbols : o # s => orders'[o] = orders[o]
    BY <1>5 DEF TypeOK
  <1>7. orders' \in [Symbols -> Seq(Order)]
    BY <1>3, <1>5 DEF TypeOK
  <1> QED BY <1>3, <1>4, <1>6, <1>7 DEF new

\* The orders of the kinds that are counted, after an order reached the broker.
LEMMA AppendedCounted ==
  ASSUME TypeOK, NEW s \in Symbols, NEW kind \in Kinds, NEW q \in Int,
         orders' = [orders EXCEPT ![s] = Append(@, NewOrder(kind, q))], NEW k
  PROVE  Cardinality(OrdersOf(s, k)') = Cardinality(OrdersOf(s, k)) + One(k = kind)
  <1> DEFINE n == Len(orders[s]) + 1
  <1>1. /\ Len(orders[s]) \in Nat /\ orders'[s] \in Seq(Order) /\ orders[s] \in Seq(Order)
        /\ Len(orders'[s]) = n
        /\ \A i \in 1..Len(orders[s]) : orders'[s][i] = orders[s][i]
        /\ orders'[s][n] = NewOrder(kind, q)
    <2>1. orders[s] \in Seq(Order)
      BY DEF TypeOK
    <2>2. orders' \in [Symbols -> Seq(Order)]
      BY Appended
    <2>3. orders'[s] \in Seq(Order)
      BY <2>2
    <2>4. /\ Len(orders[s]) \in Nat /\ Len(orders'[s]) = n
          /\ \A i \in 1..Len(orders[s]) : orders'[s][i] = orders[s][i]
          /\ orders'[s][n] = NewOrder(kind, q)
      BY Appended, ZenonT(40)
    <2> QED BY <2>1, <2>3, <2>4
  <1>2. DOMAIN orders[s] = 1..Len(orders[s]) /\ DOMAIN orders'[s] = 1..n
    BY <1>1
  <1>3. orders'[s][n].kind = kind
    BY <1>1 DEF NewOrder
  <1>4. 1..n = 1..Len(orders[s]) \cup {n} /\ n \notin 1..Len(orders[s])
    BY <1>1
  <1>5. OrdersOf(s, k)' = {i \in 1..n : orders'[s][i].kind = k}
    BY <1>2 DEF OrdersOf
  <1>6. OrdersOf(s, k) = {i \in 1..Len(orders[s]) : orders[s][i].kind = k}
    BY <1>2 DEF OrdersOf
  <1>7. CASE k = kind
    <2>1. OrdersOf(s, k)' = OrdersOf(s, k) \cup {n} /\ n \notin OrdersOf(s, k)
      BY <1>1, <1>3, <1>4, <1>5, <1>6, <1>7
    <2> QED BY <2>1, <1>7, OrdersFinite, FS_AddElement DEF One
  <1>8. CASE k # kind
    <2>1. OrdersOf(s, k)' = OrdersOf(s, k)
      BY <1>1, <1>3, <1>4, <1>5, <1>6, <1>8
    <2> QED BY <2>1, <1>8, OrdersFinite DEF One
  <1> QED BY <1>7, <1>8

-----------------------------------------------------------------------------
(* Type correctness *)

\* The initial states satisfy the invariant.
LEMMA InitIInv == Init => IInv
  <1> SUFFICES ASSUME Init PROVE IInv
    OBVIOUS
  <1>1. \A s \in Symbols : orders[s] = <<>> /\ Len(orders[s]) = 0 /\ DOMAIN orders[s] = {}
    BY EmptySeq DEF Init
  <1>2. TypeOK
    <2>1. orders \in [Symbols -> Seq(Order)]
      <3>1. <<>> \in Seq(Order)
        BY EmptySeq
      <3> QED BY <3>1 DEF Init
    <2>2. stopId \in [Symbols -> Nat] /\ \A s \in Symbols : stopId[s] <= Len(orders[s])
      BY <1>1 DEF Init
    <2>3. /\ pc \in [Symbols -> {"wait", "bar", "entry", "exit", "placing", "post", "cancel", "stop"}]
          /\ done \in [Symbols -> Nat] /\ hist \in [Symbols -> Nat] /\ pos \in [Symbols -> Int]
          /\ amt \in [Symbols -> Int] /\ req \in [Symbols -> Nat] /\ hold \in [Symbols -> Int]
          /\ legs \in [Symbols -> Nat]
      BY DEF Init
    <2>4. /\ day \in 1 .. MaxDays \cup {1} /\ entered \subseteq Symbols
          /\ plan \subseteq Symbols \X Int /\ flatDay \in Nat /\ crashes \in Nat /\ failures \in Nat
      BY DEF Init
    <2>5. up \in BOOLEAN
      BY DEF Init
    <2> QED BY <2>1, <2>2, <2>3, <2>4, <2>5 DEF TypeOK
  <1>3. \A s \in Symbols : OrdersOf(s, "exit") = {} /\ OrdersOf(s, "stop") = {} /\ Orphans(s) = {}
    BY <1>1 DEF OrdersOf, Orphans
  <1>4. Cardinality({}) = 0
    BY FS_EmptySet
  <1>5. LegsWithinMax
    BY <1>4, LimitsAssumption DEF Init, LegsWithinMax
  <1>6. ASSUME NEW s \in Symbols PROVE SymInv(s)
    <2>1. pc[s] = "wait" /\ pos[s] = 0 /\ s \notin entered /\ stopId[s] = 0 /\ legs[s] = 0
          /\ failures = 0 /\ crashes = 0
      BY DEF Init
    <2> QED BY <2>1, <1>3, <1>4
            DEF SymInv, EntryHeld, StopInHand, ExitPaid, StopPaid, OrphansPaid, StopsCover, One
  <1> QED BY <1>2, <1>5, <1>6 DEF IInv, Down, Init

\* The types of what belongs to one symbol.
LEMMA TypedAt ==
  ASSUME TypeOK, NEW s \in Symbols
  PROVE  /\ pos[s] \in Int /\ amt[s] \in Int /\ hold[s] \in Int
         /\ stopId[s] \in Nat /\ stopId[s] <= Len(orders[s])
         /\ req[s] \in Nat /\ legs[s] \in Nat /\ hist[s] \in Nat /\ done[s] \in Nat
         /\ orders[s] \in Seq(Order) /\ Len(orders[s]) \in Nat
         /\ failures \in Nat /\ crashes \in Nat /\ day \in Nat
  BY LimitsAssumption DEF TypeOK

\* The end of a handled bar keeps the types.
LEMMA FinishTyped ==
  ASSUME TypeOK, NEW s \in Symbols
  PROVE  /\ Drop(s) => amt' \in [Symbols -> Int] /\ req' \in [Symbols -> Nat]
         /\ Finish(s) =>
              /\ pc' \in [Symbols -> {"wait", "bar", "entry", "exit", "placing", "post", "cancel", "stop"}]
              /\ done' \in [Symbols -> Nat]
              /\ amt' \in [Symbols -> Int] /\ req' \in [Symbols -> Nat]
  <1>1. day \in Nat
    BY TypedAt
  <1>2. Drop(s) => amt' \in [Symbols -> Int] /\ req' \in [Symbols -> Nat]
    BY DEF Drop, TypeOK
  <1>3. ASSUME Finish(s) PROVE done' \in [Symbols -> Nat]
    BY <1>1, <1>3 DEF Finish, TypeOK
  <1>4. ASSUME Finish(s)
        PROVE  pc' \in [Symbols -> {"wait", "bar", "entry", "exit", "placing", "post", "cancel", "stop"}]
    BY <1>4 DEF Finish, TypeOK
  <1> QED BY <1>2, <1>3, <1>4 DEF Finish

\* The daily task of a symbol keeps the types.
LEMMA DailyTypeOK ==
  ASSUME TypeOK, NEW s \in Symbols, DailyTask(s), StopInHand(s)
  PROVE  TypeOK'
  <1> USE DEF memory, broker, flatten, bounds
  <1>0. day \in Nat /\ pos[s] \in Int /\ stopId[s] \in Nat /\ Len(orders[s]) \in Nat
    BY TypedAt
  <1>1. CASE TakeBar(s)
    BY <1>0, <1>1 DEF TakeBar, TypeOK
  <1>2. CASE HoldBar(s)
    BY <1>2, SMTT(20) DEF HoldBar, TypeOK
  <1>3. CASE EnterBar(s)
    <2>1. PICK q \in Sizes : pos' = [pos EXCEPT ![s] = q] /\ amt' = [amt EXCEPT ![s] = q]
      BY <1>3 DEF EnterBar
    <2>2. q \in Int
      BY SizesAssumption
    <2>3. pos' \in [Symbols -> Int] /\ amt' \in [Symbols -> Int]
      BY <2>1, <2>2 DEF TypeOK
    <2>4. hist' \in [Symbols -> Nat] /\ legs' \in [Symbols -> Nat]
      BY <1>3 DEF EnterBar, TypeOK
    <2> QED BY <1>3, <2>3, <2>4 DEF EnterBar, TypeOK
  <1>4. CASE ExitBar(s)
    <2>1. pos' \in [Symbols -> Int]
      BY <1>4 DEF ExitBar, TypeOK
    <2>2. amt' \in [Symbols -> Int]
      BY <1>0, <1>4 DEF ExitBar, TypeOK
    <2>3. pc' \in [Symbols -> {"wait", "bar", "entry", "exit", "placing", "post", "cancel", "stop"}]
      BY <1>4 DEF ExitBar, TypeOK
    <2> QED BY <1>4, <2>1, <2>2, <2>3, SMTT(20) DEF ExitBar, TypeOK
  <1>5. CASE RouteBlocked(s)
    BY <1>5 DEF RouteBlocked, TypeOK
  <1>6. CASE RoutePlace(s)
    <2>1. /\ orders' = [orders EXCEPT ![s] = Append(@, NewOrder(pc[s], amt[s]))]
          /\ pc[s] \in Kinds /\ amt[s] \in Int
      BY <1>6, TypedAt DEF RoutePlace, Kinds
    <2>2. /\ orders' \in [Symbols -> Seq(Order)] /\ Len(orders'[s]) = Len(orders[s]) + 1
          /\ \A o \in Symbols : o # s => orders'[o] = orders[o]
      BY <2>1, Appended
    <2>3. \A o \in Symbols : stopId[o] <= Len(orders'[o])
      <3> SUFFICES ASSUME NEW o \in Symbols PROVE stopId[o] <= Len(orders'[o])
        OBVIOUS
      <3>1. stopId[o] \in Nat /\ stopId[o] <= Len(orders[o]) /\ Len(orders[o]) \in Nat
        BY TypedAt
      <3>2. CASE o = s
        <4>1. Len(orders'[o]) = Len(orders[o]) + 1
          BY <2>2, <3>2
        <4> QED BY <3>1, <4>1
      <3>3. CASE o # s
        BY <2>2, <3>1, <3>3
      <3> QED BY <3>2, <3>3
    <2> QED BY <1>6, <2>2, <2>3 DEF RoutePlace, TypeOK
  <1>7. CASE RouteAnswered(s)
    BY <1>7 DEF RouteAnswered, TypeOK
  <1>8. CASE RouteError(s)
    BY <1>8, SMTT(20) DEF RouteError, Fail, TypeOK
  <1>9. CASE RouteRaises(s)
    <2>1. amt' \in [Symbols -> Int] /\ req' \in [Symbols -> Nat]
      BY <1>9, FinishTyped DEF RouteRaises
    <2>2. failures' \in Nat /\ UNCHANGED <<up, day, done, legs, memory, broker, flatten, crashes>>
      BY <1>9 DEF RouteRaises, Fail, TypeOK
    <2>3. pc' \in [Symbols -> {"wait", "bar", "entry", "exit", "placing", "post", "cancel", "stop"}]
      BY <1>9 DEF RouteRaises, TypeOK
    <2> QED BY <2>1, <2>2, <2>3 DEF TypeOK
  <1>10. CASE NothingToPost(s)
    BY <1>10, FinishTyped DEF NothingToPost, TypeOK
  <1>11. CASE CancelStop(s)
    BY <1>0, <1>11 DEF CancelStop, TypeOK
  <1>12. ASSUME CancelAnswered(s) \/ CancelFails(s) PROVE TypeOK'
    <2>1. orders' \in [Symbols -> Seq(Order)] /\ \A o \in Symbols : Len(orders'[o]) = Len(orders[o])
      <3>1. CASE Cancelled(s)
        BY <3>1, CancelledCarried DEF Carried
      <3>2. CASE UNCHANGED orders
        BY <3>2 DEF TypeOK
      <3> QED BY <1>12, <3>1, <3>2 DEF CancelAnswered, CancelFails
    <2>2. failures' \in Nat /\ crashes' \in Nat
      BY <1>12, SMTT(20) DEF CancelAnswered, CancelFails, Fail, TypeOK
    <2>3. /\ pc' \in [Symbols -> {"wait", "bar", "entry", "exit", "placing", "post", "cancel", "stop"}]
          /\ done' \in [Symbols -> Nat] /\ amt' \in [Symbols -> Int] /\ req' \in [Symbols -> Nat]
      BY <1>12, FinishTyped DEF CancelAnswered, CancelFails
    <2>4. UNCHANGED <<up, day, legs, hist, pos, entered, stopId, hold, plan, flatDay>>
      BY <1>12 DEF CancelAnswered, CancelFails
    <2>5. \A o \in Symbols : stopId'[o] <= Len(orders'[o])
      BY <2>1, <2>4 DEF TypeOK
    <2> QED BY <2>1, <2>2, <2>3, <2>4, <2>5 DEF TypeOK
  <1>13. CASE SendStop(s)
    <2>1. orders' = [orders EXCEPT ![s] = Append(@, NewOrder("stop", -pos[s]))] /\ -pos[s] \in Int
      BY <1>13, <1>0 DEF SendStop
    <2>2. /\ orders' \in [Symbols -> Seq(Order)] /\ Len(orders'[s]) = Len(orders[s]) + 1
          /\ \A o \in Symbols : o # s => orders'[o] = orders[o]
      BY <2>1, Appended DEF Kinds
    <2>3. \A o \in Symbols : stopId[o] <= Len(orders'[o])
      <3> SUFFICES ASSUME NEW o \in Symbols PROVE stopId[o] <= Len(orders'[o])
        OBVIOUS
      <3>1. stopId[o] \in Nat /\ stopId[o] <= Len(orders[o]) /\ Len(orders[o]) \in Nat
        BY TypedAt
      <3>2. CASE o = s
        <4>1. Len(orders'[o]) = Len(orders[o]) + 1
          BY <2>2, <3>2
        <4> QED BY <3>1, <4>1
      <3>3. CASE o # s
        BY <2>2, <3>1, <3>3
      <3> QED BY <3>2, <3>3
    <2>4. req' \in [Symbols -> Nat]
      BY <1>13, <1>0 DEF SendStop, TypeOK
    <2> QED BY <1>13, <2>2, <2>3, <2>4 DEF SendStop, TypeOK
  <1>14. CASE StopAnswered(s)
    <2>1. req[s] \in 1..Len(orders[s])
      BY <1>14 DEF StopAnswered, StopInHand
    <2>2. stopId' \in [Symbols -> Nat] /\ orders' = orders
      BY <2>1, <1>0, <1>14 DEF StopAnswered, TypeOK
    <2>3. \A o \in Symbols : stopId'[o] <= Len(orders'[o])
      BY <2>1, <2>2, <1>0, <1>14 DEF StopAnswered, TypeOK
    <2> QED BY <1>14, <2>2, <2>3, FinishTyped DEF StopAnswered, TypeOK
  <1>15. CASE StopFails(s)
    <2>1. failures' \in Nat /\ UNCHANGED <<up, day, legs, memory, broker, flatten, crashes>>
      BY <1>15 DEF StopFails, Fail, TypeOK
    <2>2. Finish(s)
      BY <1>15 DEF StopFails
    <2>3. /\ pc' \in [Symbols -> {"wait", "bar", "entry", "exit", "placing", "post", "cancel", "stop"}]
          /\ done' \in [Symbols -> Nat] /\ amt' \in [Symbols -> Int] /\ req' \in [Symbols -> Nat]
      BY <2>2, FinishTyped
    <2> QED BY <2>1, <2>3 DEF TypeOK
  <1> QED BY <1>1, <1>2, <1>3, <1>4, <1>5, <1>6, <1>7, <1>8, <1>9, <1>10, <1>11, <1>12, <1>13,
             <1>14, <1>15 DEF DailyTask, OnBar, Route, PostBar

\* Every other step keeps the types.
LEMMA OtherTypeOK ==
  ASSUME TypeOK, [Next]_vars, \A s \in Symbols : ~DailyTask(s)
  PROVE  TypeOK'
  <1> USE DEF memory, broker, flatten, bounds
  <1>1. ASSUME NEW s \in Symbols, NEW i \in DOMAIN orders[s], BrokerFill(s, i) \/ BrokerKill(s, i)
        PROVE  TypeOK'
    <2>1. \E st \in {"filled", "dead"} : orders' = [orders EXCEPT ![s][i].st = st]
      BY <1>1 DEF BrokerFill, BrokerKill
    <2>2. orders' \in [Symbols -> Seq(Order)] /\ \A o \in Symbols : Len(orders'[o]) = Len(orders[o])
      BY <2>1, RestatedCarried DEF Carried
    <2>3. orders[s][i] \in Order /\ orders[s][i].qty \in Int
      <3>1. orders[s] \in Seq(Order)
        BY DEF TypeOK
      <3>2. i \in 1..Len(orders[s])
        BY <3>1
      <3>3. orders[s][i] \in Order
        BY <3>1, <3>2, ElementOfSeq
      <3> QED BY <3>3 DEF Order
    <2>4. hold' \in [Symbols -> Int]
      <3>1. hold[s] + orders[s][i].qty \in Int
        BY <2>3, TypedAt
      <3>2. hold' = hold \/ hold' = [hold EXCEPT ![s] = hold[s] + orders[s][i].qty]
        BY <1>1 DEF BrokerFill, BrokerKill
      <3> QED BY <3>1, <3>2 DEF TypeOK
    <2>5. UNCHANGED <<up, day, pc, done, amt, req, legs, memory, flatten, bounds>>
      BY <1>1 DEF BrokerFill, BrokerKill
    <2> QED BY <2>2, <2>4, <2>5 DEF TypeOK
  <1>2. ASSUME NEW p \in plan, FlattenPlace(p[1], p[2]) PROVE TypeOK'
    <2>1. p[1] \in Symbols /\ -p[2] \in Int
      BY DEF TypeOK
    <2>2. /\ orders' \in [Symbols -> Seq(Order)] /\ Len(orders[p[1]]) \in Nat
          /\ Len(orders'[p[1]]) = Len(orders[p[1]]) + 1
          /\ \A o \in Symbols : o # p[1] => orders'[o] = orders[o]
      BY <1>2, <2>1, Appended DEF FlattenPlace, Kinds
    <2>3. \A o \in Symbols : stopId[o] <= Len(orders'[o])
      <3> SUFFICES ASSUME NEW o \in Symbols PROVE stopId[o] <= Len(orders'[o])
        OBVIOUS
      <3>1. stopId[o] \in Nat /\ stopId[o] <= Len(orders[o]) /\ Len(orders[o]) \in Nat
        BY TypedAt
      <3>2. CASE o = p[1]
        <4>1. Len(orders'[o]) = Len(orders[o]) + 1
          BY <2>2, <3>2
        <4> QED BY <3>1, <4>1
      <3>3. CASE o # p[1]
        BY <2>2, <3>1, <3>3
      <3> QED BY <3>2, <3>3
    <2> QED BY <1>2, <2>2, <2>3 DEF FlattenPlace, TypeOK
  <1>3. CASE FlattenStart
    <2>1. plan' \subseteq Symbols \X Int
      BY <1>3, SymbolsAssumption DEF FlattenStart, TypeOK
    <2>2. flatDay' \in Nat
      BY <1>3, LimitsAssumption DEF FlattenStart, TypeOK
    <2> QED BY <1>3, <2>1, <2>2 DEF FlattenStart, TypeOK
  <1>4. CASE FlattenFails
    BY <1>4, SMTT(20) DEF FlattenFails, Fail, TypeOK
  <1>5. CASE NextDay
    BY <1>5, LimitsAssumption DEF NextDay, TypeOK
  <1>6. CASE Crash
    <2>1. \A s \in Symbols : stopId'[s] <= Len(orders'[s])
      BY <1>6, TypedAt DEF Crash
    <2>2. /\ pc' \in [Symbols -> {"wait", "bar", "entry", "exit", "placing", "post", "cancel", "stop"}]
          /\ hist' \in [Symbols -> Nat] /\ pos' \in [Symbols -> Int] /\ stopId' \in [Symbols -> Nat]
          /\ amt' \in [Symbols -> Int] /\ req' \in [Symbols -> Nat]
      BY <1>6 DEF Crash
    <2>3. /\ up' \in BOOLEAN /\ entered' = {} /\ plan' = {}
          /\ UNCHANGED <<day, done, legs, orders, hold, flatDay, failures>>
      BY <1>6 DEF Crash
    <2>4. crashes' \in Nat
      BY <1>6 DEF Crash, TypeOK
    <2> QED BY <2>1, <2>2, <2>3, <2>4 DEF TypeOK
  <1>7. CASE Restart
    <2>1. pos' \in [Symbols -> Int]
      BY <1>7 DEF Restart, Restore, TypeOK
    <2>2. legs' \in [Symbols -> Nat]
      <3>1. \A s \in Symbols : legs[s] + (IF hold[s] # 0 THEN 1 ELSE 0) \in Nat
        BY TypedAt
      <3>2. [s \in Symbols |-> legs[s] + (IF hold[s] # 0 THEN 1 ELSE 0)] \in [Symbols -> Nat]
        BY <3>1
      <3>3. legs' = legs \/ legs' = [s \in Symbols |-> legs[s] + (IF hold[s] # 0 THEN 1 ELSE 0)]
        BY <1>7 DEF Restart
      <3> QED BY <3>2, <3>3 DEF TypeOK
    <2>3. done' \in [Symbols -> Nat] /\ flatDay' \in Nat
      BY <1>7, LimitsAssumption DEF Restart, TypeOK
    <2>4. failures' \in Nat
      BY <1>7 DEF Restart, Fail, TypeOK
    <2>5. up' \in BOOLEAN
      BY <1>7 DEF Restart
    <2>6. UNCHANGED <<day, pc, amt, req, hist, entered, stopId, orders, hold, plan, crashes>>
      BY <1>7 DEF Restart
    <2> QED BY <2>1, <2>2, <2>3, <2>4, <2>5, <2>6 DEF TypeOK
  <1>8. CASE UNCHANGED vars
    BY <1>8 DEF vars, TypeOK
  <1> QED BY <1>1, <1>2, <1>3, <1>4, <1>5, <1>6, <1>7, <1>8 DEF Next

-----------------------------------------------------------------------------
(* What one symbol keeps *)

\* A budget that grows with what it pays for.
LEMMA Budget ==
  ASSUME NEW n \in Nat, NEW m \in Nat, NEW c \in Nat, NEW f \in Nat, NEW d \in Nat, NEW g \in Nat,
         n <= c + f,
         \/ m <= n /\ c <= d /\ f <= g
         \/ m <= n + 1 /\ d + g = c + f + 1
  PROVE  m <= d + g
  OBVIOUS

\* Order i is the stop that is tracked, or that a request is about.
InHand(s, i) == stopId[s] = i \/ (pc[s] \in {"cancel", "stop"} /\ req[s] = i)

\* A stop that was in hand and works is in hand.
StaysInHand(s) ==
  \A i \in 1..Len(orders[s]) : orders'[s][i].st = "working" /\ InHand(s, i) => InHand(s, i)'

\* A step that stops no tracking leaves no new stop behind.
LEMMA OrphansKept ==
  ASSUME TypeOK, TypeOK', NEW s \in Symbols, Carried(s), OrphansPaid(s),
         crashes' >= crashes, failures' >= failures, StaysInHand(s)
  PROVE  OrphansPaid(s)'
  <1>1. /\ DOMAIN orders[s] = 1..Len(orders[s]) /\ DOMAIN orders'[s] = 1..Len(orders[s])
        /\ OrdersOf(s, "stop")' = OrdersOf(s, "stop")
    BY CarriedOrders DEF TypeOK
  <1>2. OrdersOf(s, "stop") \subseteq 1..Len(orders[s])
    BY <1>1 DEF OrdersOf
  <1>3. Orphans(s)' \subseteq Orphans(s)
    BY <1>1, <1>2 DEF Orphans, Carried, StaysInHand, InHand
  <1>4. /\ Cardinality(Orphans(s)') <= Cardinality(Orphans(s))
        /\ Cardinality(Orphans(s)) \in Nat /\ Cardinality(Orphans(s)') \in Nat
    <2>1. IsFiniteSet(Orphans(s)) /\ Cardinality(Orphans(s)) \in Nat
      BY OrphansFinite
    <2>2. IsFiniteSet(Orphans(s)') /\ Cardinality(Orphans(s)') <= Cardinality(Orphans(s))
      BY <1>3, <2>1, FS_Subset
    <2> QED BY <2>1, <2>2, FS_CardinalityType
  <1>5. crashes \in Nat /\ failures \in Nat /\ crashes' \in Nat /\ failures' \in Nat
    BY DEF TypeOK
  <1>6. Cardinality(Orphans(s)) <= crashes + failures
    BY DEF OrphansPaid
  <1>7. Cardinality(Orphans(s)') <= crashes' + failures'
    BY <1>4, <1>5, <1>6, Budget
  <1> QED BY <1>7 DEF OrphansPaid

\* A death, or a failure, leaves at most the stop behind that was tracked or
\* whose request was under way.
LEMMA OrphanLeft ==
  ASSUME TypeOK, TypeOK', NEW s \in Symbols, Carried(s), OrphansPaid(s), NEW x,
         crashes' + failures' = crashes + failures + 1,
         \A i \in 1..Len(orders[s]) : InHand(s, i) => i = x
  PROVE  OrphansPaid(s)'
  <1>1. /\ DOMAIN orders[s] = 1..Len(orders[s]) /\ DOMAIN orders'[s] = 1..Len(orders[s])
        /\ OrdersOf(s, "stop")' = OrdersOf(s, "stop")
    BY CarriedOrders DEF TypeOK
  <1>2. OrdersOf(s, "stop") \subseteq 1..Len(orders[s])
    BY <1>1 DEF OrdersOf
  <1>3. Orphans(s)' \subseteq Orphans(s) \cup {x}
    BY <1>1, <1>2 DEF Orphans, Carried, InHand
  <1>4. /\ Cardinality(Orphans(s)') <= Cardinality(Orphans(s)) + 1
        /\ Cardinality(Orphans(s)) \in Nat /\ Cardinality(Orphans(s)') \in Nat
    BY <1>3, OrphansFinite, OneMore
  <1>5. crashes \in Nat /\ failures \in Nat /\ crashes' \in Nat /\ failures' \in Nat
    BY DEF TypeOK
  <1>6. Cardinality(Orphans(s)) <= crashes + failures
    BY DEF OrphansPaid
  <1>7. Cardinality(Orphans(s)') <= crashes' + failures'
    BY <1>4, <1>5, <1>6, Budget
  <1> QED BY <1>7 DEF OrphansPaid

\* A symbol whose memory and orders a step leaves alone keeps its invariant.
LEMMA SymKept ==
  ASSUME TypeOK, TypeOK', NEW s \in Symbols, Carried(s), SymInv(s),
         pos'[s] = pos[s], stopId'[s] = stopId[s], pc'[s] = pc[s], req'[s] = req[s],
         s \in entered' <=> s \in entered,
         legs'[s] >= legs[s], failures' >= failures, crashes' >= crashes
  PROVE  SymInv(s)'
  <1>0. EntryHeld(s) /\ StopInHand(s) /\ ExitPaid(s) /\ StopPaid(s) /\ OrphansPaid(s) /\ StopsCover(s)
    BY DEF SymInv
  <1>1. /\ OrdersOf(s, "exit")' = OrdersOf(s, "exit") /\ OrdersOf(s, "stop")' = OrdersOf(s, "stop")
        /\ Len(orders'[s]) = Len(orders[s])
    BY CarriedOrders DEF TypeOK, Carried
  <1>2. /\ stopId[s] \in Nat /\ stopId[s] <= Len(orders[s]) /\ Len(orders[s]) \in Nat
        /\ legs[s] \in Nat /\ failures \in Nat /\ crashes \in Nat
    BY TypedAt
  <1>3. legs'[s] \in Nat /\ failures' \in Nat /\ crashes' \in Nat
    BY DEF TypeOK
  <1>4. Cardinality(OrdersOf(s, "exit")) \in Nat /\ Cardinality(OrdersOf(s, "stop")) \in Nat
    BY OrdersFinite
  <1>5. EntryHeld(s)' /\ StopInHand(s)'
    BY <1>0, <1>1 DEF EntryHeld, StopInHand
  <1>6. ExitPaid(s)'
    BY <1>0, <1>1, <1>2, <1>3, <1>4 DEF ExitPaid, One
  <1>7. StopPaid(s)'
    BY <1>0, <1>1, <1>2, <1>3, <1>4, SMTT(20) DEF StopPaid, One
  <1>8. OrphansPaid(s)'
    <2>1. StaysInHand(s)
      BY DEF StaysInHand, InHand
    <2> QED BY <1>0, <2>1, OrphansKept
  <1>9. StopsCover(s)'
    <2> SUFFICES ASSUME failures' = 0 PROVE StopsCover(s)'
      BY DEF StopsCover
    <2>1. failures = 0
      BY <1>2
    <2>2. stopId[s] # 0 => orders'[s][stopId[s]].qty = orders[s][stopId[s]].qty
      BY <1>2 DEF Carried
    <2>3. pc[s] = "stop" => orders'[s][req[s]].qty = orders[s][req[s]].qty
      BY <1>0 DEF StopInHand, Carried
    <2> QED BY <1>0, <2>1, <2>2, <2>3 DEF StopsCover
  <1> QED BY <1>5, <1>6, <1>7, <1>8, <1>9 DEF SymInv

\* The daily task of a symbol leaves the other symbols alone.
LEMMA DailyLeavesOthers ==
  ASSUME TypeOK, NEW s \in Symbols, DailyTask(s), NEW o \in Symbols, o # s
  PROVE  /\ pos'[o] = pos[o] /\ stopId'[o] = stopId[o] /\ pc'[o] = pc[o] /\ req'[o] = req[o]
         /\ o \in entered' <=> o \in entered
         /\ legs'[o] = legs[o] /\ orders'[o] = orders[o]
         /\ failures' >= failures /\ crashes' = crashes
  <1> USE DEF memory, broker, flatten, bounds
  <1>0. failures \in Nat
    BY DEF TypeOK
  <1>1. CASE TakeBar(s)
    BY <1>0, <1>1 DEF TakeBar, TypeOK
  <1>2. CASE HoldBar(s)
    BY <1>0, <1>2 DEF HoldBar, TypeOK
  <1>3. CASE EnterBar(s)
    BY <1>0, <1>3 DEF EnterBar, TypeOK
  <1>4. CASE ExitBar(s)
    BY <1>0, <1>4 DEF ExitBar, TypeOK
  <1>5. CASE RouteBlocked(s)
    BY <1>0, <1>5 DEF RouteBlocked, TypeOK
  <1>6. CASE RoutePlace(s)
    BY <1>0, <1>6 DEF RoutePlace, TypeOK
  <1>7. CASE RouteAnswered(s)
    BY <1>0, <1>7 DEF RouteAnswered, TypeOK
  <1>8. CASE RouteError(s)
    BY <1>0, <1>8 DEF RouteError, Fail, TypeOK
  <1>9. CASE RouteRaises(s)
    BY <1>0, <1>9 DEF RouteRaises, Drop, Fail, TypeOK
  <1>10. CASE NothingToPost(s)
    BY <1>0, <1>10 DEF NothingToPost, Finish, Drop, TypeOK
  <1>11. CASE CancelStop(s)
    BY <1>0, <1>11 DEF CancelStop, TypeOK
  <1>12. CASE CancelAnswered(s)
    BY <1>0, <1>12 DEF CancelAnswered, Cancelled, Finish, Drop, TypeOK
  <1>13. CASE CancelFails(s)
    <2>1. orders'[o] = orders[o]
      BY <1>13 DEF CancelFails, Cancelled, TypeOK
    <2> QED BY <1>0, <1>13, <2>1 DEF CancelFails, Finish, Drop, Fail, TypeOK
  <1>14. CASE SendStop(s)
    BY <1>0, <1>14 DEF SendStop, TypeOK
  <1>15. CASE StopAnswered(s)
    BY <1>0, <1>15 DEF StopAnswered, Finish, Drop, TypeOK
  <1>16. CASE StopFails(s)
    BY <1>0, <1>16 DEF StopFails, Finish, Drop, Fail, TypeOK
  <1> QED BY <1>1, <1>2, <1>3, <1>4, <1>5, <1>6, <1>7, <1>8, <1>9, <1>10,
             <1>11, <1>12, <1>13, <1>14, <1>15, <1>16 DEF DailyTask, OnBar, Route, PostBar

-----------------------------------------------------------------------------
(* The daily task keeps the invariant of its symbol *)

\* What the arithmetic of a step needs: the types before and after it.
LEMMA Amounts ==
  ASSUME TypeOK, TypeOK', NEW s \in Symbols
  PROVE  /\ Cardinality(OrdersOf(s, "exit")) \in Nat /\ Cardinality(OrdersOf(s, "stop")) \in Nat
         /\ legs[s] \in Nat /\ legs'[s] \in Nat /\ failures \in Nat /\ failures' \in Nat
         /\ crashes \in Nat /\ crashes' \in Nat /\ pos[s] \in Int
         /\ stopId[s] \in Nat /\ stopId[s] <= Len(orders[s]) /\ Len(orders[s]) \in Nat
         /\ stopId[s] = 0 \/ stopId[s] \in 1..Len(orders[s])
  <1>1. legs'[s] \in Nat /\ failures' \in Nat /\ crashes' \in Nat
    BY DEF TypeOK
  <1> QED BY <1>1, TypedAt, OrdersFinite

\* Steps that move the task and touch neither the leg nor the orders.
LEMMA TaskMoves ==
  ASSUME TypeOK, TypeOK', NEW s \in Symbols, SymInv(s),
         pos'[s] = pos[s], stopId'[s] = stopId[s], s \in entered' <=> s \in entered,
         orders'[s] = orders[s], legs'[s] = legs[s], failures' >= failures, crashes' = crashes,
         pc[s] \notin {"cancel", "stop"}, pc'[s] \notin {"cancel", "stop", "exit"},
         \/ failures' # 0
         \/ pc'[s] = "post"
         \/ pc[s] = "wait"
         \/ pos[s] = 0 => stopId[s] = 0
  PROVE  SymInv(s)'
  <1>0. EntryHeld(s) /\ StopInHand(s) /\ ExitPaid(s) /\ StopPaid(s) /\ OrphansPaid(s) /\ StopsCover(s)
    BY DEF SymInv
  <1>1. Carried(s)
    BY UntouchedCarried
  <1>2. OrdersOf(s, "exit")' = OrdersOf(s, "exit") /\ OrdersOf(s, "stop")' = OrdersOf(s, "stop")
    BY <1>1, CarriedOrders DEF TypeOK
  <1>3. EntryHeld(s)' /\ StopInHand(s)'
    BY <1>0 DEF EntryHeld, StopInHand
  <1>4. ExitPaid(s)'
    BY <1>0, <1>2, Amounts DEF ExitPaid, One
  <1>5. StopPaid(s)'
    BY <1>0, <1>2, Amounts DEF StopPaid, One
  <1>6. OrphansPaid(s)'
    <2>1. StaysInHand(s)
      BY DEF StaysInHand, InHand
    <2>2. crashes' >= crashes
      BY Amounts
    <2> QED BY <1>0, <1>1, <2>1, <2>2, OrphansKept
  <1>7. StopsCover(s)'
    <2> SUFFICES ASSUME failures' = 0 PROVE StopsCover(s)'
      BY DEF StopsCover
    <2>1. failures = 0
      BY Amounts
    <2> QED BY <1>0, <2>1 DEF StopsCover
  <1> QED BY <1>3, <1>4, <1>5, <1>6, <1>7 DEF SymInv

LEMMA EnterBarSym ==
  ASSUME TypeOK, TypeOK', NEW s \in Symbols, SymInv(s), EnterBar(s)
  PROVE  SymInv(s)'
  <1>0. EntryHeld(s) /\ StopInHand(s) /\ ExitPaid(s) /\ StopPaid(s) /\ OrphansPaid(s) /\ StopsCover(s)
    BY DEF SymInv
  <1>1. PICK q \in Sizes : pos' = [pos EXCEPT ![s] = q]
    BY DEF EnterBar
  <1>2. q # 0
    BY SizesAssumption
  <1>3. /\ pos[s] = 0 /\ pos'[s] = q /\ pc[s] = "bar" /\ pc'[s] = "entry" /\ s \in entered'
        /\ stopId'[s] = stopId[s] /\ orders' = orders /\ failures' = failures /\ crashes' = crashes
    BY <1>1 DEF EnterBar, TypeOK, broker, bounds
  <1>4. legs'[s] = legs[s] + 1
    BY DEF EnterBar, TypeOK
  <1>5. Carried(s)
    BY <1>3, UntouchedCarried
  <1>6. OrdersOf(s, "exit")' = OrdersOf(s, "exit") /\ OrdersOf(s, "stop")' = OrdersOf(s, "stop")
    BY <1>5, CarriedOrders DEF TypeOK
  <1>7. EntryHeld(s)' /\ StopInHand(s)'
    BY <1>2, <1>3 DEF EntryHeld, StopInHand
  <1>8. ExitPaid(s)'
    BY <1>0, <1>3, <1>4, <1>6, Amounts DEF ExitPaid, One
  <1>9. StopPaid(s)'
    BY <1>0, <1>3, <1>4, <1>6, Amounts DEF StopPaid, One
  <1>10. OrphansPaid(s)'
    <2>1. StaysInHand(s)
      BY <1>3 DEF StaysInHand, InHand
    <2>2. crashes' >= crashes /\ failures' >= failures
      BY <1>3, Amounts
    <2> QED BY <1>0, <1>5, <2>1, <2>2, OrphansKept
  <1>11. StopsCover(s)'
    BY <1>0, <1>2, <1>3 DEF StopsCover
  <1> QED BY <1>7, <1>8, <1>9, <1>10, <1>11 DEF SymInv

LEMMA ExitBarSym ==
  ASSUME TypeOK, TypeOK', NEW s \in Symbols, SymInv(s), ExitBar(s)
  PROVE  SymInv(s)'
  <1>0. EntryHeld(s) /\ StopInHand(s) /\ ExitPaid(s) /\ StopPaid(s) /\ OrphansPaid(s) /\ StopsCover(s)
    BY DEF SymInv
  <1>1. /\ pos[s] # 0 /\ pos'[s] = 0 /\ pc[s] = "bar" /\ pc'[s] \in {"exit", "post"}
        /\ s \notin entered' /\ stopId'[s] = stopId[s] /\ orders' = orders /\ legs' = legs
        /\ failures' = failures /\ crashes' = crashes
    BY DEF ExitBar, TypeOK, broker, bounds
  <1>2. Carried(s)
    BY <1>1, UntouchedCarried
  <1>3. OrdersOf(s, "exit")' = OrdersOf(s, "exit") /\ OrdersOf(s, "stop")' = OrdersOf(s, "stop")
    BY <1>2, CarriedOrders DEF TypeOK
  <1>4. EntryHeld(s)' /\ StopInHand(s)'
    BY <1>1 DEF EntryHeld, StopInHand
  <1>5. ExitPaid(s)'
    BY <1>0, <1>1, <1>3, Amounts DEF ExitPaid, One
  <1>6. StopPaid(s)'
    BY <1>0, <1>1, <1>3, Amounts DEF StopPaid, One
  <1>7. OrphansPaid(s)'
    <2>1. StaysInHand(s)
      BY <1>1 DEF StaysInHand, InHand
    <2>2. crashes' >= crashes /\ failures' >= failures
      BY <1>1, Amounts
    <2> QED BY <1>0, <1>2, <2>1, <2>2, OrphansKept
  <1>8. StopsCover(s)'
    BY <1>1 DEF StopsCover
  <1> QED BY <1>4, <1>5, <1>6, <1>7, <1>8 DEF SymInv

\* The flat symbol's stop goes from the strategy's memory to the request.
LEMMA CancelStopSym ==
  ASSUME TypeOK, TypeOK', NEW s \in Symbols, SymInv(s), CancelStop(s)
  PROVE  SymInv(s)'
  <1>0. EntryHeld(s) /\ StopInHand(s) /\ ExitPaid(s) /\ StopPaid(s) /\ OrphansPaid(s) /\ StopsCover(s)
    BY DEF SymInv
  <1>1. /\ pos[s] = 0 /\ pos' = pos /\ pc[s] = "post" /\ pc'[s] = "cancel" /\ entered' = entered
        /\ stopId'[s] = 0 /\ req'[s] = stopId[s] /\ orders' = orders /\ legs' = legs
        /\ failures' = failures /\ crashes' = crashes
    BY DEF CancelStop, TypeOK, broker, bounds
  <1>2. Carried(s)
    BY <1>1, UntouchedCarried
  <1>3. OrdersOf(s, "exit")' = OrdersOf(s, "exit") /\ OrdersOf(s, "stop")' = OrdersOf(s, "stop")
    BY <1>2, CarriedOrders DEF TypeOK
  <1>4. s \notin entered
    BY <1>0, <1>1 DEF EntryHeld
  <1>5. EntryHeld(s)' /\ StopInHand(s)'
    BY <1>1, <1>4 DEF EntryHeld, StopInHand
  <1>6. ExitPaid(s)'
    BY <1>0, <1>1, <1>3, Amounts DEF ExitPaid, One
  <1>7. StopPaid(s)'
    BY <1>0, <1>1, <1>3, <1>4, Amounts DEF StopPaid, One
  <1>8. OrphansPaid(s)'
    <2>1. StaysInHand(s)
      BY <1>1 DEF StaysInHand, InHand
    <2>2. crashes' >= crashes /\ failures' >= failures
      BY <1>1, Amounts
    <2> QED BY <1>0, <1>2, <2>1, <2>2, OrphansKept
  <1>9. StopsCover(s)'
    BY <1>1 DEF StopsCover
  <1> QED BY <1>5, <1>6, <1>7, <1>8, <1>9 DEF SymInv

\* The cancel ends: either the order does not work any more, or a request
\* failed and the stop stays behind.
LEMMA CancelEndsSym ==
  ASSUME TypeOK, TypeOK', NEW s \in Symbols, SymInv(s), CancelAnswered(s) \/ CancelFails(s)
  PROVE  SymInv(s)'
  <1>0. EntryHeld(s) /\ StopInHand(s) /\ ExitPaid(s) /\ StopPaid(s) /\ OrphansPaid(s) /\ StopsCover(s)
    BY DEF SymInv
  <1>1. /\ pos' = pos /\ pc[s] = "cancel" /\ pc'[s] = "wait" /\ entered' = entered
        /\ stopId' = stopId /\ legs' = legs /\ crashes' = crashes
    BY DEF CancelAnswered, CancelFails, Finish, TypeOK, memory, bounds
  <1>2. Carried(s)
    <2>1. CASE Cancelled(s)
      BY <2>1, CancelledCarried
    <2>2. CASE UNCHANGED orders
      BY <2>2, UntouchedCarried
    <2> QED BY <2>1, <2>2 DEF CancelAnswered, CancelFails
  <1>3. /\ OrdersOf(s, "exit")' = OrdersOf(s, "exit") /\ OrdersOf(s, "stop")' = OrdersOf(s, "stop")
        /\ Len(orders'[s]) = Len(orders[s])
    BY <1>2, CarriedOrders DEF TypeOK, Carried
  <1>4. stopId[s] = 0
    BY <1>0, <1>1 DEF StopInHand
  <1>5. EntryHeld(s)' /\ StopInHand(s)'
    BY <1>0, <1>1 DEF EntryHeld, StopInHand
  <1>6. failures' >= failures
    BY Amounts DEF CancelAnswered, CancelFails, Fail, bounds
  <1>7. ExitPaid(s)'
    BY <1>0, <1>1, <1>3, Amounts DEF ExitPaid, One
  <1>8. StopPaid(s)'
    BY <1>0, <1>1, <1>3, <1>6, Amounts DEF StopPaid, One
  <1>9. OrphansPaid(s)'
    <2>1. CASE CancelAnswered(s)
      <3>1. StaysInHand(s)
        <4>1. req[s] \in 1..Len(orders[s]) => orders'[s][req[s]].st # "working"
          BY <2>1, CancelledCarried DEF CancelAnswered
        <4> QED BY <4>1, <1>1, <1>4 DEF StaysInHand, InHand
      <3>2. crashes' >= crashes
        BY <1>1, Amounts
      <3> QED BY <3>1, <3>2, <1>0, <1>2, <1>6, OrphansKept
    <2>2. CASE CancelFails(s)
      <3>1. \A i \in 1..Len(orders[s]) : InHand(s, i) => i = req[s]
        BY <1>4 DEF InHand
      <3>2. crashes' + failures' = crashes + failures + 1
        BY <2>2, <1>1, Amounts DEF CancelFails, Fail
      <3> QED BY <3>1, <3>2, <1>0, <1>2, OrphanLeft
    <2> QED BY <2>1, <2>2
  <1>10. StopsCover(s)'
    BY <1>1, <1>4 DEF StopsCover
  <1> QED BY <1>5, <1>7, <1>8, <1>9, <1>10 DEF SymInv

\* The receipt: what the request was about is now tracked.
LEMMA StopAnsweredSym ==
  ASSUME TypeOK, TypeOK', NEW s \in Symbols, SymInv(s), StopAnswered(s)
  PROVE  SymInv(s)'
  <1>0. EntryHeld(s) /\ StopInHand(s) /\ ExitPaid(s) /\ StopPaid(s) /\ OrphansPaid(s) /\ StopsCover(s)
    BY DEF SymInv
  <1>1. /\ pos' = pos /\ pc[s] = "stop" /\ pc'[s] = "wait" /\ entered' = entered
        /\ stopId'[s] = req[s] /\ orders' = orders /\ legs' = legs
        /\ failures' = failures /\ crashes' = crashes
    BY DEF StopAnswered, Finish, TypeOK, broker, bounds
  <1>2. stopId[s] = 0 /\ s \in entered /\ req[s] \in 1..Len(orders[s]) /\ req[s] # 0
    BY <1>0, <1>1, Amounts DEF StopInHand
  <1>3. Carried(s)
    BY <1>1, UntouchedCarried
  <1>4. OrdersOf(s, "exit")' = OrdersOf(s, "exit") /\ OrdersOf(s, "stop")' = OrdersOf(s, "stop")
    BY <1>3, CarriedOrders DEF TypeOK
  <1>5. EntryHeld(s)' /\ StopInHand(s)'
    BY <1>0, <1>1 DEF EntryHeld, StopInHand
  <1>6. ExitPaid(s)'
    BY <1>0, <1>1, <1>4, Amounts DEF ExitPaid, One
  <1>7. StopPaid(s)'
    BY <1>0, <1>1, <1>2, <1>4, Amounts DEF StopPaid, One
  <1>8. OrphansPaid(s)'
    <2>1. StaysInHand(s)
      BY <1>1, <1>2 DEF StaysInHand, InHand
    <2>2. crashes' >= crashes /\ failures' >= failures
      BY <1>1, Amounts
    <2> QED BY <1>0, <1>3, <2>1, <2>2, OrphansKept
  <1>9. StopsCover(s)'
    BY <1>0, <1>1, <1>2 DEF StopsCover, EntryHeld
  <1> QED BY <1>5, <1>6, <1>7, <1>8, <1>9 DEF SymInv

\* A stop that was sent and whose receipt is lost stays behind.
LEMMA StopFailsSym ==
  ASSUME TypeOK, TypeOK', NEW s \in Symbols, SymInv(s), StopFails(s)
  PROVE  SymInv(s)'
  <1>0. EntryHeld(s) /\ StopInHand(s) /\ ExitPaid(s) /\ StopPaid(s) /\ OrphansPaid(s) /\ StopsCover(s)
    BY DEF SymInv
  <1>1. /\ pos' = pos /\ pc[s] \in {"stop", "post"} /\ pc'[s] = "wait" /\ entered' = entered
        /\ stopId' = stopId /\ orders' = orders /\ legs' = legs /\ crashes' = crashes
    BY DEF StopFails, Finish, TypeOK, memory, broker
  <1>2. failures' = failures + 1
    BY DEF StopFails, Fail
  <1>3. stopId[s] = 0
    BY <1>0 DEF StopFails, StopInHand
  <1>4. Carried(s)
    BY <1>1, UntouchedCarried
  <1>5. OrdersOf(s, "exit")' = OrdersOf(s, "exit") /\ OrdersOf(s, "stop")' = OrdersOf(s, "stop")
    BY <1>4, CarriedOrders DEF TypeOK
  <1>6. EntryHeld(s)' /\ StopInHand(s)'
    BY <1>0, <1>1 DEF EntryHeld, StopInHand
  <1>7. ExitPaid(s)'
    BY <1>0, <1>1, <1>5, Amounts DEF ExitPaid, One
  <1>8. StopPaid(s)'
    BY <1>0, <1>1, <1>2, <1>5, Amounts DEF StopPaid, One
  <1>9. OrphansPaid(s)'
    <2>1. \A i \in 1..Len(orders[s]) : InHand(s, i) => i = req[s]
      BY <1>3 DEF InHand
    <2>2. crashes' + failures' = crashes + failures + 1
      BY <1>1, <1>2, Amounts
    <2> QED BY <2>1, <2>2, <1>0, <1>4, OrphanLeft
  <1>10. StopsCover(s)'
    BY <1>1, <1>3 DEF StopsCover
  <1> QED BY <1>6, <1>7, <1>8, <1>9, <1>10 DEF SymInv

-----------------------------------------------------------------------------
(* Orders that reach the broker *)

\* A new order leaves no stop behind when it is no stop, or in hand.
LEMMA OrphansAppended ==
  ASSUME TypeOK, TypeOK', NEW s \in Symbols, NEW kind \in Kinds, NEW q \in Int,
         orders' = [orders EXCEPT ![s] = Append(@, NewOrder(kind, q))], OrphansPaid(s),
         NEW n \in Nat, n = Len(orders[s]) + 1, kind = "stop" => InHand(s, n)',
         crashes' = crashes, failures' = failures,
         \A i \in 1..Len(orders[s]) : InHand(s, i) => InHand(s, i)'
  PROVE  OrphansPaid(s)'
  <1>1. /\ Len(orders[s]) \in Nat /\ orders[s] \in Seq(Order)
        /\ \A i \in 1..Len(orders[s]) : orders'[s][i] = orders[s][i]
        /\ orders'[s][n] = NewOrder(kind, q) /\ Len(orders'[s]) = n
    <2>1. Len(orders[s]) \in Nat /\ orders[s] \in Seq(Order)
      BY TypedAt
    <2>2. /\ \A i \in 1..Len(orders[s]) : orders'[s][i] = orders[s][i]
          /\ orders'[s][Len(orders[s]) + 1] = NewOrder(kind, q)
          /\ Len(orders'[s]) = Len(orders[s]) + 1
      BY Appended, ZenonT(40)
    <2> QED BY <2>1, <2>2
  <1>2. orders'[s] \in Seq(Order)
    BY DEF TypeOK
  <1>3. DOMAIN orders[s] = 1..Len(orders[s]) /\ DOMAIN orders'[s] = 1..n
    BY <1>1, <1>2
  <1>4. orders'[s][n].kind = kind
    BY <1>1 DEF NewOrder
  <1>5. 1..n = 1..Len(orders[s]) \cup {n}
    BY <1>1
  <1>6. Orphans(s)' \subseteq Orphans(s)
    <2> SUFFICES ASSUME NEW i \in Orphans(s)' PROVE i \in Orphans(s)
      OBVIOUS
    <2>1. /\ i \in 1..n /\ orders'[s][i].kind = "stop" /\ orders'[s][i].st = "working"
          /\ ~InHand(s, i)'
      BY <1>3 DEF Orphans, OrdersOf, InHand
    <2>2. i # n
      BY <2>1, <1>4
    <2>3. i \in 1..Len(orders[s])
      BY <2>1, <2>2, <1>5
    <2>4. orders[s][i].kind = "stop" /\ orders[s][i].st = "working" /\ ~InHand(s, i)
      BY <2>1, <2>3, <1>1
    <2> QED BY <2>3, <2>4, <1>3 DEF Orphans, OrdersOf, InHand
  <1>7. Cardinality(Orphans(s)') <= Cardinality(Orphans(s))
    BY <1>6, OrphansFinite, FS_Subset
  <1>8. Cardinality(Orphans(s)) <= crashes + failures
    BY DEF OrphansPaid
  <1>9. Cardinality(Orphans(s)) \in Nat /\ Cardinality(Orphans(s)') \in Nat
    BY <1>6, OrphansFinite, FS_Subset, FS_CardinalityType
  <1>10. crashes \in Nat /\ failures \in Nat
    BY DEF TypeOK
  <1>11. Cardinality(Orphans(s)') <= crashes' + failures'
    BY <1>7, <1>8, <1>9, <1>10
  <1> QED BY <1>11 DEF OrphansPaid

LEMMA RoutePlaceSym ==
  ASSUME TypeOK, TypeOK', NEW s \in Symbols, SymInv(s), RoutePlace(s)
  PROVE  SymInv(s)'
  <1>0. EntryHeld(s) /\ StopInHand(s) /\ ExitPaid(s) /\ StopPaid(s) /\ OrphansPaid(s) /\ StopsCover(s)
    BY DEF SymInv
  <1>1. /\ pos' = pos /\ pc[s] \in {"entry", "exit"} /\ pc'[s] = "placing" /\ entered' = entered
        /\ stopId' = stopId /\ legs' = legs /\ failures' = failures /\ crashes' = crashes
    BY DEF RoutePlace, TypeOK, memory, bounds
  <1>2. /\ orders' = [orders EXCEPT ![s] = Append(@, NewOrder(pc[s], amt[s]))]
        /\ pc[s] \in Kinds /\ amt[s] \in Int
    BY TypedAt DEF RoutePlace, Kinds
  <1>3. /\ Len(orders[s]) \in Nat
        /\ \A i \in 1..Len(orders[s]) : orders'[s][i] = orders[s][i]
    BY <1>2, Appended
  <1>4. Cardinality(OrdersOf(s, "exit")') = Cardinality(OrdersOf(s, "exit")) + One("exit" = pc[s])
    BY <1>2, AppendedCounted DEF One
  <1>5. Cardinality(OrdersOf(s, "stop")') = Cardinality(OrdersOf(s, "stop"))
    <2>1. Cardinality(OrdersOf(s, "stop")') = Cardinality(OrdersOf(s, "stop")) + One("stop" = pc[s])
      BY <1>2, AppendedCounted DEF One
    <2> QED BY <2>1, <1>1, OrdersFinite DEF One
  <1>6. EntryHeld(s)' /\ StopInHand(s)'
    BY <1>0, <1>1 DEF EntryHeld, StopInHand
  <1>7. ExitPaid(s)'
    BY <1>0, <1>1, <1>4, Amounts DEF ExitPaid, One
  <1>8. StopPaid(s)'
    BY <1>0, <1>1, <1>5, Amounts DEF StopPaid, One
  <1>9. OrphansPaid(s)'
    <2>1. pc[s] # "stop"
      BY <1>1
    <2>2. \A i \in 1..Len(orders[s]) : InHand(s, i) => InHand(s, i)'
      BY <1>1 DEF InHand
    <2>3. PICK n \in Nat : n = Len(orders[s]) + 1
      BY <1>3
    <2> QED BY <1>0, <1>1, <1>2, <2>1, <2>2, <2>3, OrphansAppended
  <1>10. StopsCover(s)'
    BY <1>0, <1>1, <1>3, Amounts DEF StopsCover
  <1> QED BY <1>6, <1>7, <1>8, <1>9, <1>10 DEF SymInv

LEMMA SendStopSym ==
  ASSUME TypeOK, TypeOK', NEW s \in Symbols, SymInv(s), SendStop(s)
  PROVE  SymInv(s)'
  <1>0. EntryHeld(s) /\ StopInHand(s) /\ ExitPaid(s) /\ StopPaid(s) /\ OrphansPaid(s) /\ StopsCover(s)
    BY DEF SymInv
  <1>1. /\ pos' = pos /\ pc[s] = "post" /\ pc'[s] = "stop" /\ s \in entered /\ entered' = entered
        /\ pos[s] # 0 /\ stopId[s] = 0 /\ stopId' = stopId /\ legs' = legs
        /\ failures' = failures /\ crashes' = crashes
        /\ req'[s] = Len(orders[s]) + 1
    BY DEF SendStop, TypeOK, memory, bounds
  <1>2. /\ orders' = [orders EXCEPT ![s] = Append(@, NewOrder("stop", -pos[s]))]
        /\ "stop" \in Kinds /\ -pos[s] \in Int
    BY TypedAt DEF SendStop, Kinds
  <1>3. /\ Len(orders[s]) \in Nat /\ Len(orders'[s]) = Len(orders[s]) + 1
        /\ orders'[s][Len(orders[s]) + 1] = NewOrder("stop", -pos[s])
    BY <1>2, Appended, ZenonT(40)
  <1>4. Cardinality(OrdersOf(s, "exit")') = Cardinality(OrdersOf(s, "exit"))
    <2>1. Cardinality(OrdersOf(s, "exit")') = Cardinality(OrdersOf(s, "exit")) + One("exit" = "stop")
      BY <1>2, AppendedCounted DEF One
    <2> QED BY <2>1, OrdersFinite DEF One
  <1>5. Cardinality(OrdersOf(s, "stop")') = Cardinality(OrdersOf(s, "stop")) + 1
    <2>1. Cardinality(OrdersOf(s, "stop")') = Cardinality(OrdersOf(s, "stop")) + One("stop" = "stop")
      BY <1>2, AppendedCounted DEF One
    <2> QED BY <2>1 DEF One
  <1>6. EntryHeld(s)' /\ StopInHand(s)'
    BY <1>0, <1>1, <1>3 DEF EntryHeld, StopInHand
  <1>7. ExitPaid(s)'
    BY <1>0, <1>1, <1>4, Amounts DEF ExitPaid, One
  <1>8. StopPaid(s)'
    BY <1>0, <1>1, <1>5, Amounts DEF StopPaid, One
  <1>9. OrphansPaid(s)'
    <2>1. PICK n \in Nat : n = Len(orders[s]) + 1
      BY <1>3
    <2>2. InHand(s, n)'
      BY <1>1, <2>1 DEF InHand
    <2>3. \A i \in 1..Len(orders[s]) : InHand(s, i) => InHand(s, i)'
      BY <1>1, <1>3 DEF InHand
    <2> QED BY <1>0, <1>1, <1>2, <2>1, <2>2, <2>3, OrphansAppended
  <1>10. StopsCover(s)'
    <2>1. orders'[s][req'[s]].qty = -pos[s]
      BY <1>1, <1>3 DEF NewOrder
    <2> QED BY <1>1, <2>1 DEF StopsCover
  <1> QED BY <1>6, <1>7, <1>8, <1>9, <1>10 DEF SymInv

\* The flatten's orders are not the strategy's.
LEMMA FlattenPlaceSym ==
  ASSUME TypeOK, TypeOK', NEW s \in Symbols, SymInv(s), NEW q \in Int, FlattenPlace(s, q)
  PROVE  SymInv(s)'
  <1>0. EntryHeld(s) /\ StopInHand(s) /\ ExitPaid(s) /\ StopPaid(s) /\ OrphansPaid(s) /\ StopsCover(s)
    BY DEF SymInv
  <1>1. UNCHANGED <<pos, pc, entered, stopId, req, legs, failures, crashes>>
    BY DEF FlattenPlace, memory, bounds
  <1>2. /\ orders' = [orders EXCEPT ![s] = Append(@, NewOrder("flatten", -q))]
        /\ "flatten" \in Kinds /\ -q \in Int
    BY DEF FlattenPlace, Kinds
  <1>3. /\ Len(orders[s]) \in Nat /\ Len(orders'[s]) = Len(orders[s]) + 1
        /\ \A i \in 1..Len(orders[s]) : orders'[s][i] = orders[s][i]
    BY <1>2, Appended
  <1>4. Cardinality(OrdersOf(s, "exit")') = Cardinality(OrdersOf(s, "exit"))
    <2>1. Cardinality(OrdersOf(s, "exit")') = Cardinality(OrdersOf(s, "exit")) + One("exit" = "flatten")
      BY <1>2, AppendedCounted DEF One
    <2> QED BY <2>1, OrdersFinite DEF One
  <1>5. Cardinality(OrdersOf(s, "stop")') = Cardinality(OrdersOf(s, "stop"))
    <2>1. Cardinality(OrdersOf(s, "stop")') = Cardinality(OrdersOf(s, "stop")) + One("stop" = "flatten")
      BY <1>2, AppendedCounted DEF One
    <2> QED BY <2>1, OrdersFinite DEF One
  <1>6. EntryHeld(s)' /\ StopInHand(s)'
    BY <1>0, <1>1, <1>3 DEF EntryHeld, StopInHand
  <1>7. ExitPaid(s)'
    BY <1>0, <1>1, <1>4, Amounts DEF ExitPaid, One
  <1>8. StopPaid(s)'
    BY <1>0, <1>1, <1>5, Amounts DEF StopPaid, One
  <1>9. OrphansPaid(s)'
    <2>1. \A i \in 1..Len(orders[s]) : InHand(s, i) => InHand(s, i)'
      BY <1>1 DEF InHand
    <2>2. PICK n \in Nat : n = Len(orders[s]) + 1
      BY <1>3
    <2> QED BY <1>0, <1>1, <1>2, <2>1, <2>2, OrphansAppended
  <1>10. StopsCover(s)'
    <2>1. stopId[s] # 0 => orders'[s][stopId[s]] = orders[s][stopId[s]]
      BY <1>3, Amounts
    <2>2. pc[s] = "stop" => orders'[s][req[s]] = orders[s][req[s]]
      BY <1>0, <1>3 DEF StopInHand
    <2> QED BY <1>0, <1>1, <2>1, <2>2 DEF StopsCover
  <1> QED BY <1>6, <1>7, <1>8, <1>9, <1>10 DEF SymInv

-----------------------------------------------------------------------------
(* The inductive invariant *)

\* A death: the stop in hand, at most one, stays behind.
LEMMA CrashSym ==
  ASSUME TypeOK, TypeOK', NEW s \in Symbols, SymInv(s), Crash
  PROVE  SymInv(s)'
  <1>0. EntryHeld(s) /\ StopInHand(s) /\ ExitPaid(s) /\ StopPaid(s) /\ OrphansPaid(s) /\ StopsCover(s)
    BY DEF SymInv
  <1>1. /\ pos'[s] = 0 /\ pc'[s] = "wait" /\ s \notin entered' /\ stopId'[s] = 0
        /\ orders' = orders /\ legs' = legs /\ failures' = failures /\ crashes' = crashes + 1
    BY DEF Crash, broker
  <1>2. Carried(s)
    BY <1>1, UntouchedCarried
  <1>3. OrdersOf(s, "exit")' = OrdersOf(s, "exit") /\ OrdersOf(s, "stop")' = OrdersOf(s, "stop")
    BY <1>2, CarriedOrders DEF TypeOK
  <1>4. EntryHeld(s)' /\ StopInHand(s)' /\ StopsCover(s)'
    BY <1>1 DEF EntryHeld, StopInHand, StopsCover
  <1>5. ExitPaid(s)'
    BY <1>0, <1>1, <1>3, Amounts DEF ExitPaid, One
  <1>6. StopPaid(s)'
    BY <1>0, <1>1, <1>3, Amounts DEF StopPaid, One
  <1>7. OrphansPaid(s)'
    <2>1. PICK x : x = IF stopId[s] # 0 THEN stopId[s] ELSE req[s]
      OBVIOUS
    <2>2. \A i \in 1..Len(orders[s]) : InHand(s, i) => i = x
      BY <2>1, <1>0 DEF InHand, StopInHand
    <2>3. crashes' + failures' = crashes + failures + 1
      BY <1>1, Amounts
    <2> QED BY <2>2, <2>3, <1>0, <1>2, OrphanLeft
  <1> QED BY <1>4, <1>5, <1>6, <1>7 DEF SymInv

\* A start: a leg is counted for each position the broker reports.
LEMMA RestartSym ==
  ASSUME TypeOK, TypeOK', Down, NEW s \in Symbols, SymInv(s), Restart
  PROVE  SymInv(s)'
  <1>0. EntryHeld(s) /\ StopInHand(s) /\ ExitPaid(s) /\ StopPaid(s) /\ OrphansPaid(s) /\ StopsCover(s)
    BY DEF SymInv
  <1>1. pc[s] = "wait" /\ pos[s] = 0 /\ stopId[s] = 0 /\ s \notin entered
    BY DEF Down, Restart
  <1>2. /\ pc' = pc /\ stopId' = stopId /\ entered' = entered /\ orders' = orders
        /\ crashes' = crashes
    BY DEF Restart, broker
  <1>3. /\ failures' >= failures
        /\ \/ pos'[s] = 0 /\ legs'[s] = legs[s]
           \/ pos'[s] # 0 /\ legs'[s] = legs[s] + 1
    <2>1. CASE pos' = [o \in Symbols |-> Restore(o)]
                 /\ legs' = [o \in Symbols |-> legs[o] + (IF hold[o] # 0 THEN 1 ELSE 0)]
                 /\ failures' = failures
      <3>1. pos'[s] = Restore(s) /\ legs'[s] = legs[s] + (IF hold[s] # 0 THEN 1 ELSE 0)
        BY <2>1
      <3>2. hold[s] \in Int /\ legs[s] \in Nat /\ failures \in Nat
        BY TypedAt
      <3> QED BY <3>1, <3>2, <2>1 DEF Restore
    <2>2. CASE Fail /\ UNCHANGED <<pos, legs>>
      BY <2>2, <1>1, Amounts DEF Fail
    <2> QED BY <2>1, <2>2 DEF Restart
  <1>4. Carried(s)
    BY <1>2, UntouchedCarried
  <1>5. OrdersOf(s, "exit")' = OrdersOf(s, "exit") /\ OrdersOf(s, "stop")' = OrdersOf(s, "stop")
    BY <1>4, CarriedOrders DEF TypeOK
  <1>6. EntryHeld(s)' /\ StopInHand(s)' /\ StopsCover(s)'
    BY <1>1, <1>2 DEF EntryHeld, StopInHand, StopsCover
  <1>7. ExitPaid(s)'
    BY <1>0, <1>1, <1>2, <1>3, <1>5, Amounts DEF ExitPaid, One
  <1>8. StopPaid(s)'
    BY <1>0, <1>1, <1>2, <1>3, <1>5, Amounts DEF StopPaid, One
  <1>9. OrphansPaid(s)'
    <2>1. StaysInHand(s)
      BY <1>1, <1>2 DEF StaysInHand, InHand
    <2>2. crashes' >= crashes
      BY <1>2, Amounts
    <2> QED BY <2>1, <2>2, <1>0, <1>3, <1>4, OrphansKept
  <1> QED BY <1>6, <1>7, <1>8, <1>9 DEF SymInv

\* The daily task keeps the invariant of its own symbol.
LEMMA DailySym ==
  ASSUME TypeOK, TypeOK', NEW s \in Symbols, SymInv(s), DailyTask(s)
  PROVE  SymInv(s)'
  <1> USE DEF memory, broker, flatten, bounds
  <1>1. ASSUME TakeBar(s) \/ HoldBar(s) \/ RouteBlocked(s) \/ RouteAnswered(s) \/ RouteError(s)
               \/ RouteRaises(s) \/ NothingToPost(s)
        PROVE  SymInv(s)'
    <2>1. /\ pos' = pos /\ stopId' = stopId /\ entered' = entered /\ orders' = orders /\ legs' = legs
          /\ crashes' = crashes
      BY <1>1 DEF TakeBar, HoldBar, RouteBlocked, RouteAnswered, RouteError, RouteRaises, NothingToPost
    <2>2. failures' = failures \/ failures' = failures + 1
      BY <1>1 DEF TakeBar, HoldBar, RouteBlocked, RouteAnswered, RouteError, RouteRaises, NothingToPost, Fail
    <2>3. failures' >= failures /\ failures' \in Nat /\ failures \in Nat
      BY <2>2, Amounts
    <2>4. pc[s] \notin {"cancel", "stop"}
      BY <1>1 DEF TakeBar, HoldBar, RouteBlocked, RouteAnswered, RouteError, RouteRaises, NothingToPost
    <2>5. /\ pc'[s] \notin {"cancel", "stop", "exit"}
          /\ \/ failures' # 0
             \/ pc'[s] = "post"
             \/ pc[s] = "wait"
             \/ pos[s] = 0 => stopId[s] = 0
      <3>1. CASE TakeBar(s)
        BY <3>1 DEF TakeBar, TypeOK
      <3>2. CASE HoldBar(s) \/ RouteBlocked(s) \/ RouteAnswered(s) \/ RouteError(s)
        BY <3>2 DEF HoldBar, RouteBlocked, RouteAnswered, RouteError, TypeOK
      <3>3. CASE RouteRaises(s)
        <4>1. failures' # 0
          BY <3>3, Amounts DEF RouteRaises, Fail
        <4> QED BY <3>3, <4>1 DEF RouteRaises, TypeOK
      <3>4. CASE NothingToPost(s)
        BY <3>4 DEF NothingToPost, Finish, TypeOK
      <3> QED BY <1>1, <3>1, <3>2, <3>3, <3>4
    <2> QED BY <2>1, <2>3, <2>4, <2>5, TaskMoves
  <1> QED BY <1>1, EnterBarSym, ExitBarSym, RoutePlaceSym, CancelStopSym, CancelEndsSym, SendStopSym,
             StopAnsweredSym, StopFailsSym DEF DailyTask, OnBar, Route, PostBar

\* The legs that are counted: an entry adds one where there is room.
LEMMA NextLegs ==
  ASSUME TypeOK, LegsWithinMax, \A s \in Symbols : EntryHeld(s), [Next]_vars
  PROVE  LegsWithinMax'
  <1> USE DEF memory, broker, flatten, bounds
  <1>1. IsFiniteSet(Symbols) /\ IsFiniteSet(Open) /\ IsFiniteSet(entered) /\ entered \subseteq Open
    <2>1. entered \subseteq Open /\ Open \subseteq Symbols
      BY DEF EntryHeld, Open, TypeOK
    <2> QED BY <2>1, SymbolsAssumption, FS_Subset
  <1>2. /\ Cardinality(entered) \in Nat /\ Cardinality(Open) \in Nat
        /\ Cardinality(entered) <= Cardinality(Open)
    BY <1>1, FS_Subset, FS_CardinalityType
  <1>3. ASSUME NEW s \in Symbols, EnterBar(s) PROVE LegsWithinMax'
    <2>1. entered' = entered \cup {s} /\ Cardinality(Open) < MaxPositions
      BY <1>3 DEF EnterBar
    <2>2. Cardinality(entered') \in Nat /\ Cardinality(entered') <= Cardinality(entered) + 1
      BY <1>1, <2>1, OneMore
    <2> QED BY <1>2, <2>1, <2>2, LimitsAssumption DEF LegsWithinMax
  <1>4. ASSUME entered' \subseteq entered PROVE LegsWithinMax'
    <2>1. Cardinality(entered') <= Cardinality(entered) /\ Cardinality(entered') \in Nat
      BY <1>1, <1>4, FS_Subset, FS_CardinalityType
    <2> QED BY <1>2, <2>1, LimitsAssumption DEF LegsWithinMax
  <1>5. ASSUME NEW s \in Symbols, DailyTask(s), ~EnterBar(s) PROVE entered' \subseteq entered
    BY <1>5 DEF DailyTask, OnBar, Route, PostBar, TakeBar, HoldBar, ExitBar, RouteBlocked, RoutePlace,
                RouteAnswered, RouteError, RouteRaises, NothingToPost, CancelStop, CancelAnswered,
                CancelFails, SendStop, StopAnswered, StopFails
  <1>6. ASSUME \A s \in Symbols : ~DailyTask(s) PROVE entered' \subseteq entered
    BY <1>6 DEF Next, vars, BrokerFill, BrokerKill, FlattenPlace, FlattenStart, FlattenFails, NextDay,
                Crash, Restart
  <1> QED BY <1>3, <1>4, <1>5, <1>6

\* Every step keeps the invariant.
LEMMA NextIInv == IInv /\ [Next]_vars => IInv'
  <1> SUFFICES ASSUME IInv, [Next]_vars PROVE IInv'
    OBVIOUS
  <1>0. TypeOK /\ Down /\ LegsWithinMax /\ \A s \in Symbols : SymInv(s)
    BY DEF IInv
  <1>1. LegsWithinMax'
    BY <1>0, NextLegs DEF SymInv
  <1>2. ASSUME NEW s \in Symbols, DailyTask(s) PROVE IInv'
    <2>1. TypeOK'
      BY <1>0, <1>2, DailyTypeOK DEF SymInv
    <2>2. up /\ up' = up
      BY <1>2 DEF DailyTask, OnBar, Route, PostBar, TakeBar, HoldBar, EnterBar, ExitBar, RouteBlocked,
                  RoutePlace, RouteAnswered, RouteError, RouteRaises, NothingToPost, CancelStop,
                  CancelAnswered, CancelFails, SendStop, StopAnswered, StopFails
    <2>3. Down'
      BY <2>2 DEF Down
    <2>4. ASSUME NEW o \in Symbols PROVE SymInv(o)'
      <3>1. CASE o = s
        BY <3>1, <1>0, <1>2, <2>1, DailySym
      <3>2. CASE o # s
        <4>1. /\ pos'[o] = pos[o] /\ stopId'[o] = stopId[o] /\ pc'[o] = pc[o] /\ req'[o] = req[o]
              /\ o \in entered' <=> o \in entered
              /\ legs'[o] = legs[o] /\ orders'[o] = orders[o]
              /\ failures' >= failures /\ crashes' = crashes
          BY <3>2, <1>0, <1>2, DailyLeavesOthers
        <4>2. Carried(o)
          BY <4>1, UntouchedCarried
        <4>3. legs'[o] >= legs[o] /\ crashes' >= crashes
          BY <4>1, <1>0, <2>1, Amounts
        <4> QED BY <4>1, <4>2, <4>3, <1>0, <2>1, SymKept
      <3> QED BY <3>1, <3>2
    <2> QED BY <1>1, <2>1, <2>3, <2>4 DEF IInv
  <1>3. ASSUME \A s \in Symbols : ~DailyTask(s) PROVE TypeOK'
    BY <1>0, <1>3, OtherTypeOK
  <1>4. ASSUME TypeOK', \A s \in Symbols : Carried(s),
               UNCHANGED <<pos, stopId, pc, req, entered, legs, crashes>>, failures' >= failures
        PROVE  \A s \in Symbols : SymInv(s)'
    <2> SUFFICES ASSUME NEW s \in Symbols PROVE SymInv(s)'
      OBVIOUS
    <2>1. legs'[s] >= legs[s] /\ crashes' >= crashes
      BY <1>0, <1>4, Amounts
    <2> QED BY <1>0, <1>4, <2>1, SymKept
  <1>5. ASSUME \A s \in Symbols : ~DailyTask(s) PROVE Down'
    BY <1>0, <1>5 DEF Next, vars, Down, memory, BrokerFill, BrokerKill, FlattenPlace, FlattenStart,
                      FlattenFails, NextDay, Crash, Restart
  <1>6. ASSUME \A s \in Symbols : ~DailyTask(s), NEW s \in Symbols, NEW i \in DOMAIN orders[s],
               BrokerFill(s, i) \/ BrokerKill(s, i)
        PROVE  \A o \in Symbols : SymInv(o)'
    <2>1. \E st \in {"filled", "dead"} : orders' = [orders EXCEPT ![s][i].st = st]
      BY <1>6 DEF BrokerFill, BrokerKill
    <2>2. \A o \in Symbols : Carried(o)
      BY <2>1, <1>0, RestatedCarried
    <2>3. UNCHANGED <<pos, stopId, pc, req, entered, legs, crashes>> /\ failures' = failures
      BY <1>6 DEF BrokerFill, BrokerKill, memory, bounds
    <2>4. failures' >= failures
      BY <2>3, <1>0 DEF TypeOK
    <2> QED BY <1>3, <1>4, <1>6, <2>2, <2>3, <2>4
  <1>7. ASSUME \A s \in Symbols : ~DailyTask(s), NEW p \in plan, FlattenPlace(p[1], p[2])
        PROVE  \A o \in Symbols : SymInv(o)'
    <2>1. p[1] \in Symbols /\ p[2] \in Int
      BY <1>0 DEF TypeOK
    <2>2. TypeOK'
      BY <1>3, <1>7
    <2> SUFFICES ASSUME NEW o \in Symbols PROVE SymInv(o)'
      OBVIOUS
    <2>3. CASE o = p[1]
      BY <2>1, <2>2, <2>3, <1>0, <1>7, FlattenPlaceSym
    <2>4. CASE o # p[1]
      <3>1. orders'[o] = orders[o] /\ UNCHANGED <<pos, stopId, pc, req, entered, legs, crashes, failures>>
        BY <2>4, <1>0, <1>7 DEF FlattenPlace, TypeOK, memory, bounds
      <3>2. Carried(o)
        BY <3>1, UntouchedCarried
      <3>3. legs'[o] >= legs[o] /\ crashes' >= crashes /\ failures' >= failures
        BY <3>1, <2>2, <1>0, Amounts
      <3> QED BY <3>1, <3>2, <3>3, <2>2, <1>0, SymKept
    <2> QED BY <2>3, <2>4
  <1>8. ASSUME \A s \in Symbols : ~DailyTask(s),
               FlattenStart \/ FlattenFails \/ NextDay \/ UNCHANGED vars
        PROVE  \A o \in Symbols : SymInv(o)'
    <2>1. UNCHANGED <<pos, stopId, pc, req, entered, legs, crashes, orders>>
      BY <1>8 DEF FlattenStart, FlattenFails, NextDay, vars, memory, broker, bounds
    <2>2. failures' >= failures
      BY <1>0, <1>8 DEF FlattenStart, FlattenFails, NextDay, Fail, vars, bounds, TypeOK
    <2>3. \A o \in Symbols : Carried(o)
      BY <2>1, UntouchedCarried
    <2> QED BY <1>3, <1>4, <1>8, <2>1, <2>2, <2>3
  <1>9. ASSUME \A s \in Symbols : ~DailyTask(s), Crash \/ Restart
        PROVE  \A o \in Symbols : SymInv(o)'
    BY <1>0, <1>3, <1>9, CrashSym, RestartSym
  <1>10. ASSUME \A s \in Symbols : ~DailyTask(s) PROVE \A o \in Symbols : SymInv(o)'
    BY <1>6, <1>7, <1>8, <1>9, <1>10 DEF Next
  <1> QED BY <1>1, <1>2, <1>3, <1>5, <1>10 DEF IInv

\* The invariant holds in every reachable state.
LEMMA SpecIInv == Spec => []IInv
  BY InitIInv, NextIInv, PTL DEF Spec

-----------------------------------------------------------------------------
(* Theorems *)

\* The types of strategy 004's memory, its tasks and its orders are kept.
THEOREM TypeCorrect == Spec => []TypeOK
  <1>1. IInv => TypeOK
    BY DEF IInv
  <1> QED BY <1>1, SpecIInv, PTL

\* Strategy 004 never opens more legs than MAX_POSITIONS, in whatever order
\* the tasks of its symbols handle their bars (on_bar, _open_position_count).
THEOREM PositionsWithinMax == Spec => []LegsWithinMax
  <1>1. IInv => LegsWithinMax
    BY DEF IInv
  <1> QED BY <1>1, SpecIInv, PTL

\* A leg is sold at most once, however often its exit is routed, fails or is
\* retried after a restart (on_bar goes flat before it routes).
THEOREM ExitsWithinLegs == Spec => []OneExitPerLeg
  <1>1. IInv => OneExitPerLeg
    <2> SUFFICES ASSUME IInv, NEW s \in Symbols
                 PROVE  Cardinality(OrdersOf(s, "exit")) + Cardinality({s} \cap Open) <= legs[s]
      BY DEF OneExitPerLeg
    <2>1. /\ Cardinality(OrdersOf(s, "exit")) \in Nat /\ legs[s] \in Nat
          /\ Cardinality(OrdersOf(s, "exit")) + One(pos[s] # 0) + One(pc[s] = "exit") <= legs[s]
      BY OrdersFinite, TypedAt DEF IInv, SymInv, ExitPaid
    <2>2. Cardinality({s} \cap Open) = One(pos[s] # 0)
      <3>1. CASE pos[s] # 0
        <4>1. {s} \cap Open = {s}
          BY <3>1 DEF Open
        <4> QED BY <3>1, <4>1, FS_Singleton DEF One
      <3>2. CASE pos[s] = 0
        <4>1. {s} \cap Open = {}
          BY <3>2 DEF Open
        <4> QED BY <3>2, <4>1, FS_EmptySet DEF One
      <3> QED BY <3>1, <3>2
    <2> QED BY <2>1, <2>2 DEF One
  <1> QED BY <1>1, SpecIInv, PTL

\* A leg gets one protective stop, and one more at most for each failure
\* (post_bar_async).
THEOREM StopsWithinLegs == Spec => []OneStopPerLeg
  <1>1. IInv => OneStopPerLeg
    <2> SUFFICES ASSUME IInv, NEW s \in Symbols
                 PROVE  Cardinality(OrdersOf(s, "stop")) <= legs[s] + failures
      BY DEF OneStopPerLeg
    <2>1. /\ Cardinality(OrdersOf(s, "stop")) \in Nat /\ legs[s] \in Nat /\ failures \in Nat
          /\ Cardinality(OrdersOf(s, "stop")) + One(s \in entered /\ stopId[s] = 0 /\ pc[s] # "stop")
               <= legs[s] + failures
      BY OrdersFinite, TypedAt DEF IInv, SymInv, StopPaid
    <2> QED BY <2>1 DEF One
  <1> QED BY <1>1, SpecIInv, PTL

\* While nothing fails, the stop that is tracked is for the leg that is held,
\* never for an earlier one (post_bar_async, _cancel_gtc_stop_for_symbol).
THEOREM StopIsForTheLeg == Spec => []StopCoversLeg
  <1>1. IInv => StopCoversLeg
    BY DEF IInv, SymInv, StopsCover, StopCoversLeg
  <1> QED BY <1>1, SpecIInv, PTL

\* Deaths and failures are all that leaves a working stop behind, and each
\* leaves one at most (post_bar_async, _cancel_gtc_stop_for_symbol).
THEOREM OrphansWithinFaults == Spec => []OrphanStopsBounded
  <1>1. IInv => OrphanStopsBounded
    BY DEF IInv, SymInv, OrphansPaid, OrphanStopsBounded
  <1> QED BY <1>1, SpecIInv, PTL

-----------------------------------------------------------------------------
(* The strategy's memory and the account *)

\* What an order buys; the orders of the legs; those that executed; and what
\* the signal in hand is about to send.
Qty(s) == [i \in DOMAIN orders[s] |-> orders[s][i].qty]
Traded(s) == OrdersOf(s, "entry") \cup OrdersOf(s, "exit")
Executed(s) == {i \in DOMAIN orders[s] : orders[s][i].st = "filled"}
Due(s) == IF pc[s] \in {"entry", "exit"} THEN amt[s] ELSE 0

\* Every leg pays for one entry order: sent or in hand.
EntryPaid(s) == Cardinality(OrdersOf(s, "entry")) + One(pc[s] = "entry") <= legs[s]

\* The account holds what executed.
HoldIsSum(s) == hold[s] = SumFunctionOnSet(Qty(s), Executed(s))

\* No leg went without its entry, and no leg that is over without its exit.
AllRouted(s) ==
  /\ crashes = 0
  /\ Cardinality(OrdersOf(s, "entry")) + One(pc[s] = "entry") = legs[s]
  /\ Cardinality(OrdersOf(s, "exit")) + One(pc[s] = "exit") + One(pos[s] # 0) = legs[s]

\* Then the strategy believes in what its orders add up to.
Balanced(s) == AllRouted(s) => SumFunctionOnSet(Qty(s), Traded(s)) + Due(s) = pos[s]

BeliefInv ==
  /\ crashes = 0 => up
  /\ \A s \in Symbols : EntryPaid(s) /\ HoldIsSum(s) /\ Balanced(s)

\* The sets of orders that are summed.
LEMMA SumSets ==
  ASSUME TypeOK, NEW s \in Symbols
  PROVE  /\ DOMAIN orders[s] = 1..Len(orders[s]) /\ Len(orders[s]) \in Nat
         /\ \A i \in 1..Len(orders[s]) : Qty(s)[i] = orders[s][i].qty /\ Qty(s)[i] \in Int
         /\ Traded(s) \subseteq 1..Len(orders[s]) /\ IsFiniteSet(Traded(s))
         /\ Executed(s) \subseteq 1..Len(orders[s]) /\ IsFiniteSet(Executed(s))
         /\ IsFiniteSet(1..Len(orders[s]))
  <1>1. orders[s] \in Seq(Order)
    BY DEF TypeOK
  <1>2. /\ Len(orders[s]) \in Nat /\ DOMAIN orders[s] = 1..Len(orders[s])
        /\ \A i \in 1..Len(orders[s]) : orders[s][i] \in Order
    BY <1>1
  <1>3. IsFiniteSet(1..Len(orders[s]))
    BY <1>2, FS_Interval
  <1>4. Traded(s) \subseteq 1..Len(orders[s]) /\ Executed(s) \subseteq 1..Len(orders[s])
    BY <1>2 DEF Traded, OrdersOf, Executed
  <1>5. \A i \in 1..Len(orders[s]) : Qty(s)[i] = orders[s][i].qty /\ Qty(s)[i] \in Int
    BY <1>2 DEF Qty, Order
  <1>6. IsFiniteSet(Traded(s)) /\ IsFiniteSet(Executed(s))
    BY <1>3, <1>4, FS_Subset
  <1> QED BY <1>2, <1>3, <1>4, <1>5, <1>6

\* Orders of the same quantities have the same sums.
LEMMA SameSums ==
  ASSUME TypeOK, TypeOK', NEW s \in Symbols,
         Len(orders[s]) <= Len(orders'[s]),
         \A i \in 1..Len(orders[s]) : orders'[s][i].qty = orders[s][i].qty,
         NEW T \in SUBSET (1..Len(orders[s]))
  PROVE  SumFunctionOnSet(Qty(s)', T) = SumFunctionOnSet(Qty(s), T)
  <1>1. orders'[s] \in Seq(Order) /\ orders[s] \in Seq(Order)
    BY DEF TypeOK
  <1>2. DOMAIN orders'[s] = 1..Len(orders'[s]) /\ Len(orders'[s]) \in Nat /\ Len(orders[s]) \in Nat
    BY <1>1
  <1>3. T \subseteq DOMAIN orders'[s]
    BY <1>2
  <1>4. \A i \in T : Qty(s)'[i] = Qty(s)[i]
    BY <1>3, SumSets DEF Qty
  <1>5. IsFiniteSet(T)
    BY SumSets, FS_Subset
  <1> QED BY <1>4, <1>5, SumSame

\* Carried orders: the legs' orders and their sum are the same.
LEMMA CarriedSums ==
  ASSUME TypeOK, TypeOK', NEW s \in Symbols, Carried(s)
  PROVE  /\ OrdersOf(s, "entry")' = OrdersOf(s, "entry")
         /\ OrdersOf(s, "exit")' = OrdersOf(s, "exit")
         /\ SumFunctionOnSet(Qty(s)', Traded(s)') = SumFunctionOnSet(Qty(s), Traded(s))
  <1>1. /\ DOMAIN orders[s] = 1..Len(orders[s]) /\ DOMAIN orders'[s] = 1..Len(orders[s])
        /\ Len(orders[s]) \in Nat
    BY CarriedOrders DEF TypeOK
  <1>2. OrdersOf(s, "entry")' = OrdersOf(s, "entry") /\ OrdersOf(s, "exit")' = OrdersOf(s, "exit")
    BY <1>1 DEF OrdersOf, Carried
  <1>3. Traded(s)' = Traded(s)
    BY <1>2 DEF Traded
  <1>4. Len(orders[s]) <= Len(orders'[s]) /\ \A i \in 1..Len(orders[s]) : orders'[s][i].qty = orders[s][i].qty
    BY <1>1 DEF Carried
  <1>5. Traded(s) \in SUBSET (1..Len(orders[s]))
    BY SumSets
  <1>6. SumFunctionOnSet(Qty(s)', Traded(s)) = SumFunctionOnSet(Qty(s), Traded(s))
    BY <1>4, <1>5, SameSums
  <1> QED BY <1>2, <1>3, <1>6

\* Nothing executed: the account and what executed are the same.
LEMMA HoldKept ==
  ASSUME TypeOK, TypeOK', NEW s \in Symbols, Carried(s), HoldIsSum(s), hold'[s] = hold[s],
         \A j \in 1..Len(orders[s]) : orders'[s][j].st = "filled" <=> orders[s][j].st = "filled"
  PROVE  HoldIsSum(s)'
  <1>1. /\ DOMAIN orders[s] = 1..Len(orders[s]) /\ DOMAIN orders'[s] = 1..Len(orders[s])
        /\ Len(orders[s]) \in Nat
    BY CarriedOrders DEF TypeOK
  <1>2. Executed(s)' = Executed(s)
    BY <1>1 DEF Executed
  <1>3. Len(orders[s]) <= Len(orders'[s]) /\ \A i \in 1..Len(orders[s]) : orders'[s][i].qty = orders[s][i].qty
    BY <1>1 DEF Carried
  <1>4. Executed(s) \in SUBSET (1..Len(orders[s]))
    BY SumSets
  <1>5. SumFunctionOnSet(Qty(s)', Executed(s)) = SumFunctionOnSet(Qty(s), Executed(s))
    BY <1>3, <1>4, SameSums
  <1> QED BY <1>2, <1>5 DEF HoldIsSum

\* A working order executed, or ended: the account holds its quantity more,
\* or nothing more.
LEMMA HoldRestated ==
  ASSUME TypeOK, TypeOK', NEW s \in Symbols, NEW i \in DOMAIN orders[s], HoldIsSum(s),
         BrokerFill(s, i) \/ BrokerKill(s, i)
  PROVE  HoldIsSum(s)'
  <1>1. PICK st \in {"filled", "dead"} :
          /\ orders' = [orders EXCEPT ![s][i].st = st]
          /\ hold' = IF st = "filled" THEN [hold EXCEPT ![s] = @ + orders[s][i].qty] ELSE hold
    BY DEF BrokerFill, BrokerKill
  <1>2. orders[s][i].st = "working"
    BY DEF BrokerFill, BrokerKill
  <1>3. /\ Carried(s) /\ orders'[s][i].st = st
        /\ \A j \in 1..Len(orders[s]) : j # i => orders'[s][j] = orders[s][j]
    BY <1>1, RestatedCarried
  <1>4. CASE st = "dead"
    <2>1. \A j \in 1..Len(orders[s]) : orders'[s][j].st = "filled" <=> orders[s][j].st = "filled"
      BY <1>2, <1>3, <1>4
    <2> QED BY <1>1, <1>3, <1>4, <2>1, HoldKept
  <1>5. CASE st = "filled"
    <2>1. /\ DOMAIN orders[s] = 1..Len(orders[s]) /\ DOMAIN orders'[s] = 1..Len(orders[s])
          /\ Len(orders[s]) \in Nat
      BY <1>3, CarriedOrders DEF TypeOK
    <2>2. Executed(s)' = Executed(s) \cup {i} /\ i \notin Executed(s)
      BY <1>2, <1>3, <1>5, <2>1 DEF Executed
    <2>3. Executed(s) \cup {i} \in SUBSET (1..Len(orders[s]))
      BY <2>1, SumSets
    <2>4. /\ Len(orders[s]) <= Len(orders'[s])
          /\ \A j \in 1..Len(orders[s]) : orders'[s][j].qty = orders[s][j].qty
      BY <1>3, <2>1 DEF Carried
    <2>5. SumFunctionOnSet(Qty(s)', Executed(s) \cup {i}) = SumFunctionOnSet(Qty(s), Executed(s) \cup {i})
      BY <2>3, <2>4, SameSums
    <2>6. \A j \in Executed(s) \cup {i} : Qty(s)[j] \in Int
      BY <2>3, SumSets
    <2>7. SumFunctionOnSet(Qty(s), Executed(s) \cup {i}) = Qty(s)[i] + SumFunctionOnSet(Qty(s), Executed(s))
      BY <2>2, <2>6, SumSets, SumAdd
    <2>8. SumFunctionOnSet(Qty(s), Executed(s)) \in Int
      BY <2>6, SumSets, SumInt
    <2>9. hold'[s] = hold[s] + orders[s][i].qty
      BY <1>1, <1>5 DEF TypeOK
    <2>10. Qty(s)[i] = orders[s][i].qty /\ Qty(s)[i] \in Int
      BY <2>1, SumSets
    <2>11. hold[s] = SumFunctionOnSet(Qty(s), Executed(s))
      BY DEF HoldIsSum
    <2> DEFINE x == SumFunctionOnSet(Qty(s), Executed(s))
               y == SumFunctionOnSet(Qty(s), Executed(s) \cup {i})
               z == Qty(s)[i]
    <2>12. hold'[s] = y
      <3>1. y = z + x /\ x \in Int /\ z \in Int /\ hold'[s] = x + z
        BY <2>7, <2>8, <2>9, <2>10, <2>11
      <3> HIDE DEF x, y, z
      <3> QED BY <3>1
    <2> QED BY <2>2, <2>5, <2>12 DEF HoldIsSum
  <1> QED BY <1>4, <1>5

\* An order that reached the broker has not executed; it counts for the legs
\* if it is an entry or an exit.
LEMMA AppendedSums ==
  ASSUME TypeOK, TypeOK', NEW s \in Symbols, NEW kind \in Kinds, NEW q \in Int,
         orders' = [orders EXCEPT ![s] = Append(@, NewOrder(kind, q))]
  PROVE  /\ HoldIsSum(s) /\ hold'[s] = hold[s] => HoldIsSum(s)'
         /\ SumFunctionOnSet(Qty(s)', Traded(s)')
              = SumFunctionOnSet(Qty(s), Traded(s)) + (IF kind \in {"entry", "exit"} THEN q ELSE 0)
         /\ SumFunctionOnSet(Qty(s), Traded(s)) \in Int
  <1>1. /\ Len(orders[s]) \in Nat /\ Len(orders'[s]) = Len(orders[s]) + 1
        /\ \A i \in 1..Len(orders[s]) : orders'[s][i] = orders[s][i]
        /\ orders'[s][Len(orders[s]) + 1] = NewOrder(kind, q)
        /\ orders'[s] \in Seq(Order)
    <2>1. orders'[s] \in Seq(Order)
      BY DEF TypeOK
    <2>2. /\ Len(orders[s]) \in Nat /\ Len(orders'[s]) = Len(orders[s]) + 1
          /\ \A i \in 1..Len(orders[s]) : orders'[s][i] = orders[s][i]
          /\ orders'[s][Len(orders[s]) + 1] = NewOrder(kind, q)
      BY Appended, ZenonT(40)
    <2> QED BY <2>1, <2>2
  <1>2. PICK n \in Nat : n = Len(orders[s]) + 1
    BY <1>1
  <1>3. /\ DOMAIN orders'[s] = 1..n /\ DOMAIN orders[s] = 1..Len(orders[s])
        /\ 1..n = 1..Len(orders[s]) \cup {n} /\ n \notin 1..Len(orders[s])
    <2>1. DOMAIN orders'[s] = 1..n
      BY <1>1, <1>2
    <2>2. 1..n = 1..Len(orders[s]) \cup {n} /\ n \notin 1..Len(orders[s])
      BY <1>1, <1>2
    <2> QED BY <2>1, <2>2, SumSets
  <1>4. orders'[s][n].kind = kind /\ orders'[s][n].qty = q /\ orders'[s][n].st = "working"
    BY <1>1, <1>2 DEF NewOrder
  <1>5. /\ Len(orders[s]) <= Len(orders'[s])
        /\ \A i \in 1..Len(orders[s]) : orders'[s][i].qty = orders[s][i].qty
    BY <1>1
  <1>6. \A T \in SUBSET (1..Len(orders[s])) : SumFunctionOnSet(Qty(s)', T) = SumFunctionOnSet(Qty(s), T)
    BY <1>5, SameSums
  <1>7. ASSUME HoldIsSum(s), hold'[s] = hold[s] PROVE HoldIsSum(s)'
    <2>1. Executed(s)' = {i \in 1..n : orders'[s][i].st = "filled"}
      BY <1>3 DEF Executed
    <2>2. Executed(s) = {i \in 1..Len(orders[s]) : orders[s][i].st = "filled"}
      BY <1>3 DEF Executed
    <2>3. Executed(s)' = Executed(s)
      BY <1>1, <1>3, <1>4, <2>1, <2>2
    <2>4. SumFunctionOnSet(Qty(s)', Executed(s)) = SumFunctionOnSet(Qty(s), Executed(s))
      BY <1>6, SumSets
    <2> QED BY <1>7, <2>3, <2>4 DEF HoldIsSum
  <1>8. /\ Traded(s)' = {i \in 1..n : orders'[s][i].kind \in {"entry", "exit"}}
        /\ Traded(s) = {i \in 1..Len(orders[s]) : orders[s][i].kind \in {"entry", "exit"}}
    BY <1>3 DEF Traded, OrdersOf
  <1>9. SumFunctionOnSet(Qty(s)', Traded(s)) = SumFunctionOnSet(Qty(s), Traded(s))
    BY <1>6, SumSets
  <1>10. SumFunctionOnSet(Qty(s), Traded(s)) \in Int
    BY SumSets, SumInt
  <1>11. CASE kind \in {"entry", "exit"}
    <2>1. Traded(s)' = Traded(s) \cup {n} /\ n \notin Traded(s)
      BY <1>1, <1>3, <1>4, <1>8, <1>11
    <2>2. Qty(s)'[n] = q
      BY <1>2, <1>3, <1>4 DEF Qty
    <2>3. \A i \in Traded(s) \cup {n} : Qty(s)'[i] \in Int
      <3>1. \A i \in 1..Len(orders[s]) : Qty(s)'[i] = Qty(s)[i]
        BY <1>1, <1>3 DEF Qty
      <3> QED BY <2>2, <3>1, SumSets
    <2>4. SumFunctionOnSet(Qty(s)', Traded(s) \cup {n}) = Qty(s)'[n] + SumFunctionOnSet(Qty(s)', Traded(s))
      <3> DEFINE f == Qty(s)'
      <3>1. \A i \in Traded(s) \cup {n} : f[i] \in Int
        BY <2>3
      <3> HIDE DEF f
      <3>2. SumFunctionOnSet(f, Traded(s) \cup {n}) = f[n] + SumFunctionOnSet(f, Traded(s))
        BY <2>1, <3>1, SumSets, SumAdd
      <3> QED BY <3>2 DEF f
    <2>5. SumFunctionOnSet(Qty(s)', Traded(s)') = q + SumFunctionOnSet(Qty(s), Traded(s))
      BY <1>9, <2>1, <2>2, <2>4
    <2> QED BY <1>7, <1>10, <1>11, <2>5
  <1>12. CASE kind \notin {"entry", "exit"}
    <2>1. Traded(s)' = Traded(s)
      BY <1>1, <1>3, <1>4, <1>8, <1>12
    <2>2. SumFunctionOnSet(Qty(s)', Traded(s)') = SumFunctionOnSet(Qty(s), Traded(s))
      BY <1>9, <2>1
    <2> QED BY <1>7, <1>10, <1>12, <2>2
  <1> QED BY <1>11, <1>12

\* The types the arithmetic of the legs needs.
LEMMA LegAmounts ==
  ASSUME TypeOK, NEW s \in Symbols
  PROVE  /\ Cardinality(OrdersOf(s, "entry")) \in Nat /\ Cardinality(OrdersOf(s, "exit")) \in Nat
         /\ legs[s] \in Nat /\ pos[s] \in Int /\ amt[s] \in Int /\ Due(s) \in Int
         /\ SumFunctionOnSet(Qty(s), Traded(s)) \in Int
  <1>1. SumFunctionOnSet(Qty(s), Traded(s)) \in Int
    BY SumSets, SumInt
  <1> QED BY <1>1, OrdersFinite, TypedAt DEF Due

\* A step that sends no entry or exit and leaves the leg alone: the signal in
\* hand stays, or it is dropped and its leg goes without the order.
Quiet(s) ==
  /\ pos'[s] = pos[s] /\ legs'[s] = legs[s] /\ crashes' = crashes
  /\ (pc'[s] = pc[s] /\ amt'[s] = amt[s]) \/ pc'[s] \notin {"entry", "exit"}
  /\ OrdersOf(s, "entry")' = OrdersOf(s, "entry")
  /\ OrdersOf(s, "exit")' = OrdersOf(s, "exit")
  /\ SumFunctionOnSet(Qty(s)', Traded(s)') = SumFunctionOnSet(Qty(s), Traded(s))

LEMMA QuietBalanced ==
  ASSUME TypeOK, NEW s \in Symbols, EntryPaid(s), ExitPaid(s), Balanced(s), Quiet(s)
  PROVE  EntryPaid(s)' /\ Balanced(s)'
  <1> DEFINE e == Cardinality(OrdersOf(s, "entry"))
             x == Cardinality(OrdersOf(s, "exit"))
             t == SumFunctionOnSet(Qty(s), Traded(s))
  <1>1. e \in Nat /\ x \in Nat /\ legs[s] \in Nat /\ pos[s] \in Int /\ Due(s) \in Int /\ t \in Int
    BY LegAmounts
  <1>2. /\ Cardinality(OrdersOf(s, "entry")') = e /\ Cardinality(OrdersOf(s, "exit")') = x
        /\ SumFunctionOnSet(Qty(s)', Traded(s)') = t
    BY DEF Quiet
  <1>3. e + One(pc[s] = "entry") <= legs[s] /\ x + One(pos[s] # 0) + One(pc[s] = "exit") <= legs[s]
    BY DEF EntryPaid, ExitPaid
  <1>4. AllRouted(s) => t + Due(s) = pos[s]
    BY DEF Balanced
  <1>5. AllRouted(s) <=> /\ crashes = 0
                         /\ e + One(pc[s] = "entry") = legs[s]
                         /\ x + One(pc[s] = "exit") + One(pos[s] # 0) = legs[s]
    BY DEF AllRouted
  <1>6. AllRouted(s)' <=> /\ crashes = 0
                          /\ e + One(pc'[s] = "entry") = legs[s]
                          /\ x + One(pc'[s] = "exit") + One(pos[s] # 0) = legs[s]
    BY <1>2 DEF AllRouted, Quiet, One
  <1> HIDE DEF e, x, t
  <1>7. EntryPaid(s)' <=> e + One(pc'[s] = "entry") <= legs[s]
    BY <1>2 DEF EntryPaid, Quiet, One
  <1>8. CASE pc'[s] = pc[s] /\ amt'[s] = amt[s]
    <2>1. Due(s)' = Due(s)
      BY <1>8 DEF Due
    <2> QED BY <1>2, <1>3, <1>4, <1>5, <1>6, <1>7, <1>8, <2>1 DEF Balanced, Quiet
  <1>9. CASE pc'[s] \notin {"entry", "exit"}
    <2>1. EntryPaid(s)'
      BY <1>1, <1>3, <1>7, <1>9 DEF One
    <2>2. ASSUME AllRouted(s)' PROVE pc[s] \notin {"entry", "exit"} /\ AllRouted(s)
      <3>1. crashes = 0 /\ e = legs[s] /\ x + One(pos[s] # 0) = legs[s]
        BY <1>1, <1>6, <1>9, <2>2 DEF One
      <3>2. pc[s] # "entry" /\ pc[s] # "exit"
        BY <1>1, <1>3, <3>1 DEF One
      <3> QED BY <1>1, <1>5, <3>1, <3>2 DEF One
    <2>3. pc[s] \notin {"entry", "exit"} => Due(s) = 0
      BY DEF Due
    <2>4. Due(s)' = 0
      BY <1>9 DEF Due
    <2>5. AllRouted(s)' => t + Due(s)' = pos'[s]
      BY <1>4, <2>2, <2>3, <2>4 DEF Quiet
    <2> QED BY <1>2, <2>1, <2>5 DEF Balanced
  <1> QED BY <1>8, <1>9 DEF Quiet

\* A step that only carries orders over, restating none of the executed.
LEMMA CarriedBelief ==
  ASSUME TypeOK, TypeOK', NEW s \in Symbols, EntryPaid(s), ExitPaid(s), Balanced(s), HoldIsSum(s), Carried(s),
         \A j \in 1..Len(orders[s]) : orders'[s][j].st = "filled" <=> orders[s][j].st = "filled",
         hold'[s] = hold[s], pos'[s] = pos[s], legs'[s] = legs[s], crashes' = crashes,
         (pc'[s] = pc[s] /\ amt'[s] = amt[s]) \/ pc'[s] \notin {"entry", "exit"}
  PROVE  EntryPaid(s)' /\ Balanced(s)' /\ HoldIsSum(s)'
  <1>1. Quiet(s)
    BY CarriedSums DEF Quiet
  <1> QED BY <1>1, QuietBalanced, HoldKept

\* An entry: the leg is in hand, and the legs before it were balanced.
LEMMA EnterBarBelief ==
  ASSUME TypeOK, TypeOK', NEW s \in Symbols, EntryPaid(s), Balanced(s), HoldIsSum(s), EnterBar(s)
  PROVE  EntryPaid(s)' /\ Balanced(s)' /\ HoldIsSum(s)'
  <1>1. PICK q \in Sizes : pos' = [pos EXCEPT ![s] = q] /\ amt' = [amt EXCEPT ![s] = q]
    BY DEF EnterBar
  <1>2. /\ pos[s] = 0 /\ pc[s] = "bar" /\ pc'[s] = "entry" /\ legs'[s] = legs[s] + 1
        /\ pos'[s] = q /\ amt'[s] = q /\ crashes' = crashes
        /\ orders'[s] = orders[s] /\ hold'[s] = hold[s]
    BY <1>1 DEF EnterBar, TypeOK, broker, bounds
  <1>3. q \in Int /\ q # 0
    BY SizesAssumption
  <1>4. Carried(s)
    BY <1>2, UntouchedCarried
  <1>5. HoldIsSum(s)'
    BY <1>2, <1>4, HoldKept
  <1> DEFINE e == Cardinality(OrdersOf(s, "entry"))
             x == Cardinality(OrdersOf(s, "exit"))
             t == SumFunctionOnSet(Qty(s), Traded(s))
  <1>6. e \in Nat /\ x \in Nat /\ legs[s] \in Nat /\ t \in Int
    BY LegAmounts
  <1>7. /\ Cardinality(OrdersOf(s, "entry")') = e /\ Cardinality(OrdersOf(s, "exit")') = x
        /\ SumFunctionOnSet(Qty(s)', Traded(s)') = t
    BY <1>4, CarriedSums
  <1>8. e <= legs[s]
    BY <1>2, <1>6 DEF EntryPaid, One
  <1>9. crashes = 0 /\ e = legs[s] /\ x = legs[s] => t = 0
    BY <1>2, <1>6 DEF Balanced, AllRouted, Due, One
  <1> HIDE DEF e, x, t
  <1>10. EntryPaid(s)'
    BY <1>2, <1>6, <1>7, <1>8 DEF EntryPaid, One
  <1>11. AllRouted(s)' => crashes = 0 /\ e = legs[s] /\ x = legs[s]
    BY <1>2, <1>3, <1>6, <1>7 DEF AllRouted, One
  <1>12. AllRouted(s)' => t + q = q
    BY <1>3, <1>9, <1>11
  <1>13. Due(s)' = q
    BY <1>2 DEF Due
  <1>14. Balanced(s)'
    BY <1>2, <1>7, <1>12, <1>13 DEF Balanced
  <1> QED BY <1>5, <1>10, <1>14

\* An exit: what is in hand sells what the leg holds; a short that is not
\* routed leaves its leg without an exit.
LEMMA ExitBarBelief ==
  ASSUME TypeOK, TypeOK', NEW s \in Symbols, EntryPaid(s), ExitPaid(s), Balanced(s), HoldIsSum(s), ExitBar(s)
  PROVE  EntryPaid(s)' /\ Balanced(s)' /\ HoldIsSum(s)'
  <1>1. /\ pos[s] # 0 /\ pc[s] = "bar" /\ pc'[s] \in {"exit", "post"} /\ legs'[s] = legs[s]
        /\ pos'[s] = 0 /\ amt'[s] = -pos[s] /\ crashes' = crashes
        /\ orders'[s] = orders[s] /\ hold'[s] = hold[s]
    BY DEF ExitBar, TypeOK, broker, bounds
  <1>2. Carried(s)
    BY <1>1, UntouchedCarried
  <1>3. HoldIsSum(s)'
    BY <1>1, <1>2, HoldKept
  <1> DEFINE e == Cardinality(OrdersOf(s, "entry"))
             x == Cardinality(OrdersOf(s, "exit"))
             t == SumFunctionOnSet(Qty(s), Traded(s))
  <1>4. e \in Nat /\ x \in Nat /\ legs[s] \in Nat /\ t \in Int /\ pos[s] \in Int
    BY LegAmounts
  <1>5. /\ Cardinality(OrdersOf(s, "entry")') = e /\ Cardinality(OrdersOf(s, "exit")') = x
        /\ SumFunctionOnSet(Qty(s)', Traded(s)') = t
    BY <1>2, CarriedSums
  <1>6. x + 1 <= legs[s] /\ e <= legs[s]
    BY <1>1, <1>4 DEF ExitPaid, EntryPaid, One
  <1>7. crashes = 0 /\ e = legs[s] /\ x + 1 = legs[s] => t = pos[s]
    BY <1>1, <1>4 DEF Balanced, AllRouted, Due, One
  <1> HIDE DEF e, x, t
  <1>8. EntryPaid(s)'
    BY <1>1, <1>4, <1>5, <1>6 DEF EntryPaid, One
  <1>9. AllRouted(s)' => pc'[s] = "exit" /\ crashes = 0 /\ e = legs[s] /\ x + 1 = legs[s]
    BY <1>1, <1>4, <1>5, <1>6 DEF AllRouted, One
  <1>10. AllRouted(s)' => t + Due(s)' = 0
    BY <1>1, <1>4, <1>7, <1>9 DEF Due
  <1>11. Balanced(s)'
    BY <1>1, <1>5, <1>10 DEF Balanced
  <1> QED BY <1>3, <1>8, <1>11

\* The signal in hand becomes an order of its leg.
LEMMA RoutePlaceBelief ==
  ASSUME TypeOK, TypeOK', NEW s \in Symbols, EntryPaid(s), ExitPaid(s), Balanced(s), HoldIsSum(s), RoutePlace(s)
  PROVE  EntryPaid(s)' /\ Balanced(s)' /\ HoldIsSum(s)'
  <1>1. /\ pos' = pos /\ pc[s] \in {"entry", "exit"} /\ pc'[s] = "placing" /\ legs' = legs
        /\ crashes' = crashes /\ hold' = hold
    BY DEF RoutePlace, TypeOK, memory, bounds
  <1>2. /\ orders' = [orders EXCEPT ![s] = Append(@, NewOrder(pc[s], amt[s]))]
        /\ pc[s] \in Kinds /\ amt[s] \in Int
    BY TypedAt DEF RoutePlace, Kinds
  <1> DEFINE e == Cardinality(OrdersOf(s, "entry"))
             x == Cardinality(OrdersOf(s, "exit"))
             t == SumFunctionOnSet(Qty(s), Traded(s))
  <1>3. e \in Nat /\ x \in Nat /\ legs[s] \in Nat /\ t \in Int /\ pos[s] \in Int
    BY LegAmounts
  <1>4. Cardinality(OrdersOf(s, "entry")') = e + One("entry" = pc[s])
    BY <1>2, AppendedCounted DEF One
  <1>5. Cardinality(OrdersOf(s, "exit")') = x + One("exit" = pc[s])
    BY <1>2, AppendedCounted DEF One
  <1>6. HoldIsSum(s)' /\ SumFunctionOnSet(Qty(s)', Traded(s)') = t + amt[s]
    BY <1>1, <1>2, AppendedSums
  <1>7. AllRouted(s) => t + amt[s] = pos[s]
    BY <1>1 DEF Balanced, Due
  <1>8. AllRouted(s) <=> /\ crashes = 0
                         /\ e + One(pc[s] = "entry") = legs[s]
                         /\ x + One(pc[s] = "exit") + One(pos[s] # 0) = legs[s]
    BY DEF AllRouted
  <1> HIDE DEF e, x, t
  <1>9. EntryPaid(s)'
    BY <1>1, <1>3, <1>4 DEF EntryPaid, One, e
  <1>10. AllRouted(s)' => AllRouted(s)
    <2>1. AllRouted(s)' <=> /\ crashes = 0
                            /\ e + One("entry" = pc[s]) = legs[s]
                            /\ x + One("exit" = pc[s]) + One(pos[s] # 0) = legs[s]
      BY <1>1, <1>3, <1>4, <1>5 DEF AllRouted, One
    <2> QED BY <1>3, <1>8, <2>1 DEF One
  <1>11. Due(s)' = 0
    BY <1>1 DEF Due
  <1>12. AllRouted(s)' => (t + amt[s]) + 0 = pos[s]
    BY <1>2, <1>3, <1>7, <1>10
  <1>13. Balanced(s)'
    BY <1>1, <1>6, <1>11, <1>12 DEF Balanced
  <1> QED BY <1>6, <1>9, <1>13

\* A stop or an order of the flatten is not an order of a leg.
LEMMA OtherOrderBelief ==
  ASSUME TypeOK, TypeOK', NEW s \in Symbols, EntryPaid(s), ExitPaid(s), Balanced(s), HoldIsSum(s),
         NEW kind \in {"stop", "flatten"}, NEW q \in Int,
         orders' = [orders EXCEPT ![s] = Append(@, NewOrder(kind, q))],
         hold'[s] = hold[s], pos'[s] = pos[s], legs'[s] = legs[s], crashes' = crashes,
         (pc'[s] = pc[s] /\ amt'[s] = amt[s]) \/ pc'[s] \notin {"entry", "exit"}
  PROVE  EntryPaid(s)' /\ Balanced(s)' /\ HoldIsSum(s)'
  <1>1. kind \in Kinds /\ kind \notin {"entry", "exit"}
    BY DEF Kinds
  <1>2. HoldIsSum(s)' /\ SumFunctionOnSet(Qty(s)', Traded(s)') = SumFunctionOnSet(Qty(s), Traded(s)) + 0
    BY <1>1, AppendedSums
  <1>3. SumFunctionOnSet(Qty(s)', Traded(s)') = SumFunctionOnSet(Qty(s), Traded(s))
    BY <1>2, LegAmounts
  <1>4. ASSUME NEW k \in {"entry", "exit"} PROVE OrdersOf(s, k)' = OrdersOf(s, k)
    <2>1. /\ Len(orders[s]) \in Nat /\ Len(orders'[s]) = Len(orders[s]) + 1
          /\ \A i \in 1..Len(orders[s]) : orders'[s][i] = orders[s][i]
          /\ orders'[s][Len(orders[s]) + 1] = NewOrder(kind, q)
      BY <1>1, Appended, ZenonT(40)
    <2>2. PICK n \in Nat : n = Len(orders[s]) + 1
      BY <2>1
    <2>3. orders'[s] \in Seq(Order) /\ orders[s] \in Seq(Order)
      BY DEF TypeOK
    <2>4. DOMAIN orders'[s] = 1..n /\ DOMAIN orders[s] = 1..Len(orders[s])
      BY <2>1, <2>2, <2>3
    <2>5. 1..n = 1..Len(orders[s]) \cup {n} /\ n \notin 1..Len(orders[s])
      BY <2>1, <2>2
    <2>6. orders'[s][n].kind # k
      BY <1>1, <2>1, <2>2 DEF NewOrder
    <2>7. OrdersOf(s, k)' = {i \in 1..n : orders'[s][i].kind = k}
      BY <2>4 DEF OrdersOf
    <2>8. OrdersOf(s, k) = {i \in 1..Len(orders[s]) : orders[s][i].kind = k}
      BY <2>4 DEF OrdersOf
    <2> QED BY <2>1, <2>5, <2>6, <2>7, <2>8
  <1>5. Quiet(s)
    BY <1>3, <1>4 DEF Quiet
  <1> QED BY <1>2, <1>5, QuietBalanced

\* The daily task of a symbol.
LEMMA DailyBelief ==
  ASSUME TypeOK, TypeOK', NEW s \in Symbols, EntryPaid(s), ExitPaid(s), Balanced(s), HoldIsSum(s), DailyTask(s)
  PROVE  EntryPaid(s)' /\ Balanced(s)' /\ HoldIsSum(s)'
  <1> USE DEF memory, broker, flatten, bounds
  <1>1. ASSUME TakeBar(s) \/ HoldBar(s) \/ RouteBlocked(s) \/ RouteAnswered(s) \/ RouteError(s)
               \/ RouteRaises(s) \/ NothingToPost(s) \/ CancelStop(s) \/ StopAnswered(s) \/ StopFails(s)
        PROVE  EntryPaid(s)' /\ Balanced(s)' /\ HoldIsSum(s)'
    <2>1. /\ pos' = pos /\ orders' = orders /\ legs' = legs /\ hold' = hold /\ crashes' = crashes
      BY <1>1 DEF TakeBar, HoldBar, RouteBlocked, RouteAnswered, RouteError, RouteRaises, NothingToPost,
                  CancelStop, StopAnswered, StopFails
    <2>2. pc'[s] \notin {"entry", "exit"}
      BY <1>1 DEF TakeBar, HoldBar, RouteBlocked, RouteAnswered, RouteError, RouteRaises, NothingToPost,
                  CancelStop, StopAnswered, StopFails, Finish, TypeOK
    <2>3. Carried(s)
      BY <2>1, UntouchedCarried
    <2> QED BY <2>1, <2>2, <2>3, CarriedBelief
  <1>2. ASSUME CancelAnswered(s) \/ CancelFails(s)
        PROVE  EntryPaid(s)' /\ Balanced(s)' /\ HoldIsSum(s)'
    <2>1. pos' = pos /\ legs' = legs /\ hold' = hold /\ crashes' = crashes
      BY <1>2 DEF CancelAnswered, CancelFails
    <2>2. pc'[s] \notin {"entry", "exit"}
      BY <1>2 DEF CancelAnswered, CancelFails, Finish, TypeOK
    <2>3. Cancelled(s) \/ orders' = orders
      BY <1>2 DEF CancelAnswered, CancelFails
    <2>4. /\ Carried(s)
          /\ \A j \in 1..Len(orders[s]) : orders'[s][j].st = "filled" <=> orders[s][j].st = "filled"
      BY <2>3, UntouchedCarried, CancelledCarried
    <2> QED BY <2>1, <2>2, <2>4, CarriedBelief
  <1>3. ASSUME SendStop(s) PROVE EntryPaid(s)' /\ Balanced(s)' /\ HoldIsSum(s)'
    <2>1. /\ pos' = pos /\ legs' = legs /\ hold' = hold /\ crashes' = crashes
          /\ orders' = [orders EXCEPT ![s] = Append(@, NewOrder("stop", -pos[s]))]
      BY <1>3 DEF SendStop
    <2>2. pc'[s] \notin {"entry", "exit"}
      BY <1>3 DEF SendStop, TypeOK
    <2>3. -pos[s] \in Int
      BY TypedAt
    <2> QED BY <2>1, <2>2, <2>3, OtherOrderBelief
  <1> QED BY <1>1, <1>2, <1>3, EnterBarBelief, ExitBarBelief, RoutePlaceBelief
          DEF DailyTask, OnBar, Route, PostBar

\* The daily task of a symbol leaves the signals and the holdings of others.
LEMMA DailyLeavesHoldings ==
  ASSUME TypeOK, NEW s \in Symbols, DailyTask(s), NEW o \in Symbols, o # s
  PROVE  amt'[o] = amt[o] /\ hold'[o] = hold[o]
  <1>1. hold' = hold
    BY DEF DailyTask, OnBar, Route, PostBar, TakeBar, HoldBar, EnterBar, ExitBar, RouteBlocked,
           RoutePlace, RouteAnswered, RouteError, RouteRaises, NothingToPost, CancelStop,
           CancelAnswered, CancelFails, SendStop, StopAnswered, StopFails, broker
  <1>2. CASE amt' = amt
    BY <1>1, <1>2
  <1>3. CASE \E v : amt' = [amt EXCEPT ![s] = v]
    BY <1>1, <1>3 DEF TypeOK
  <1>4. amt' = amt \/ \E v : amt' = [amt EXCEPT ![s] = v]
    BY DEF DailyTask, OnBar, Route, PostBar, TakeBar, HoldBar, EnterBar, ExitBar, RouteBlocked,
           RoutePlace, RouteAnswered, RouteError, RouteRaises, NothingToPost, CancelStop,
           CancelAnswered, CancelFails, SendStop, StopAnswered, StopFails, Finish, Drop
  <1> QED BY <1>2, <1>3, <1>4

\* Every step keeps the agreement.
LEMMA NextBelief ==
  ASSUME IInv, IInv', BeliefInv, [Next]_vars
  PROVE  BeliefInv'
  <1>0. /\ TypeOK /\ TypeOK'
        /\ \A s \in Symbols : EntryPaid(s) /\ ExitPaid(s) /\ Balanced(s) /\ HoldIsSum(s)
    BY DEF IInv, SymInv, BeliefInv
  <1> USE DEF memory, broker, flatten, bounds
  <1>1. crashes' = 0 => up'
    <2>1. crashes \in Nat
      BY <1>0 DEF TypeOK
    <2>2. Crash => crashes' # 0
      BY <2>1 DEF Crash
    <2>3. ~Crash => crashes' = crashes /\ (up' = up \/ up' = TRUE)
      <3>1. ASSUME NEW s \in Symbols, DailyTask(s) PROVE crashes' = crashes /\ up' = up
        BY <3>1 DEF DailyTask, OnBar, Route, PostBar, TakeBar, HoldBar, EnterBar, ExitBar, RouteBlocked,
                    RoutePlace, RouteAnswered, RouteError, RouteRaises, NothingToPost, CancelStop,
                    CancelAnswered, CancelFails, SendStop, StopAnswered, StopFails
      <3> QED BY <3>1 DEF Next, vars, BrokerFill, BrokerKill, FlattenPlace, FlattenStart, FlattenFails,
                          NextDay, Restart
    <2> QED BY <2>2, <2>3 DEF BeliefInv
  <1> SUFFICES ASSUME NEW o \in Symbols PROVE EntryPaid(o)' /\ Balanced(o)' /\ HoldIsSum(o)'
    BY <1>1 DEF BeliefInv
  <1>2. ASSUME orders'[o] = orders[o], hold'[o] = hold[o], pos'[o] = pos[o], legs'[o] = legs[o],
               crashes' = crashes, pc'[o] = pc[o], amt'[o] = amt[o]
        PROVE  EntryPaid(o)' /\ Balanced(o)' /\ HoldIsSum(o)'
    BY <1>0, <1>2, UntouchedCarried, CarriedBelief
  <1>3. ASSUME NEW s \in Symbols, DailyTask(s) PROVE EntryPaid(o)' /\ Balanced(o)' /\ HoldIsSum(o)'
    BY <1>0, <1>2, <1>3, DailyBelief, DailyLeavesOthers, DailyLeavesHoldings
  <1>4. ASSUME NEW s \in Symbols, NEW i \in DOMAIN orders[s], BrokerFill(s, i) \/ BrokerKill(s, i)
        PROVE  EntryPaid(o)' /\ Balanced(o)' /\ HoldIsSum(o)'
    <2>1. UNCHANGED <<pos, legs, pc, amt, crashes>>
      BY <1>4 DEF BrokerFill, BrokerKill
    <2>2. PICK st \in {"filled", "dead"} : orders' = [orders EXCEPT ![s][i].st = st]
      BY <1>4 DEF BrokerFill, BrokerKill
    <2>3. Carried(o) /\ (o # s => orders'[o] = orders[o])
      BY <2>2, <1>0, RestatedCarried
    <2>4. o # s => hold'[o] = hold[o]
      <3>1. hold' = hold \/ hold' = [hold EXCEPT ![s] = @ + orders[s][i].qty]
        BY <1>4 DEF BrokerFill, BrokerKill
      <3>2. hold \in [Symbols -> Int]
        BY <1>0 DEF TypeOK
      <3> QED BY <3>1, <3>2
    <2>5. CASE o # s
      BY <1>2, <2>1, <2>3, <2>4, <2>5
    <2>6. CASE o = s
      <3>1. HoldIsSum(o)'
        BY <1>0, <1>4, <2>6, HoldRestated
      <3>2. Quiet(o)
        BY <1>0, <2>1, <2>3, CarriedSums DEF Quiet
      <3> QED BY <1>0, <3>1, <3>2, QuietBalanced
    <2> QED BY <2>5, <2>6
  <1>5. ASSUME NEW p \in plan, FlattenPlace(p[1], p[2]) PROVE EntryPaid(o)' /\ Balanced(o)' /\ HoldIsSum(o)'
    <2>1. p[1] \in Symbols /\ p[2] \in Int /\ -p[2] \in Int
      <3>1. p \in Symbols \X Int
        BY <1>0 DEF TypeOK
      <3>2. p[1] \in Symbols /\ p[2] \in Int
        BY <3>1
      <3> QED BY <3>2
    <2>2. /\ orders' = [orders EXCEPT ![p[1]] = Append(@, NewOrder("flatten", -p[2]))]
          /\ UNCHANGED <<pos, legs, pc, amt, crashes, hold>>
      BY <1>5 DEF FlattenPlace
    <2>3. CASE o = p[1]
      BY <1>0, <2>1, <2>2, <2>3, OtherOrderBelief
    <2>4. CASE o # p[1]
      <3>1. orders'[o] = orders[o]
        BY <2>2, <2>4, <1>0 DEF TypeOK
      <3> QED BY <1>2, <2>2, <3>1
    <2> QED BY <2>3, <2>4
  <1>6. CASE FlattenStart \/ FlattenFails \/ NextDay \/ UNCHANGED vars
    BY <1>2, <1>6 DEF FlattenStart, FlattenFails, NextDay, vars
  <1>7. CASE Crash \/ Restart
    <2>1. orders' = orders /\ hold' = hold
      BY <1>7 DEF Crash, Restart
    <2>2. Carried(o)
      BY <2>1, UntouchedCarried
    <2>3. HoldIsSum(o)'
      BY <1>0, <2>1, <2>2, HoldKept
    <2>4. crashes' # 0
      <3>1. crashes \in Nat
        BY <1>0 DEF TypeOK
      <3> QED BY <1>7, <3>1 DEF Crash, Restart, BeliefInv
    <2>5. Balanced(o)'
      BY <2>4 DEF Balanced, AllRouted
    <2>6. EntryPaid(o)'
      <3> DEFINE e == Cardinality(OrdersOf(o, "entry"))
      <3>1. Cardinality(OrdersOf(o, "entry")') = e
        BY <2>2, <1>0, CarriedSums
      <3>2. e \in Nat /\ legs[o] \in Nat /\ legs'[o] \in Nat
        BY <1>0, LegAmounts DEF TypeOK
      <3>3. legs'[o] >= legs[o]
        BY <1>7, <3>2 DEF Crash, Restart, TypeOK
      <3>4. pc'[o] = "wait" \/ pc'[o] = pc[o]
        BY <1>7 DEF Crash, Restart
      <3>5. e + One(pc[o] = "entry") <= legs[o]
        BY <1>0 DEF EntryPaid
      <3> HIDE DEF e
      <3> QED BY <3>1, <3>2, <3>3, <3>4, <3>5 DEF EntryPaid, One
    <2> QED BY <2>3, <2>5, <2>6
  <1> QED BY <1>3, <1>4, <1>5, <1>6, <1>7 DEF Next

\* When every order of the legs has executed, and no stop or flatten did, the
\* strategy's memory and the account agree, however often a bar was retried
\* (on_bar, _dict_to_signals).
THEOREM BeliefAgrees == Spec => []BeliefMatchesBroker
  <1>1. Init => BeliefInv
    <2> SUFFICES ASSUME Init, NEW s \in Symbols PROVE EntryPaid(s) /\ HoldIsSum(s) /\ Balanced(s)
      BY DEF BeliefInv, Init
    <2>1. orders[s] = <<>> /\ DOMAIN orders[s] = {}
      BY EmptySeq DEF Init
    <2>2. OrdersOf(s, "entry") = {} /\ Traded(s) = {} /\ Executed(s) = {}
      BY <2>1 DEF OrdersOf, Traded, Executed
    <2>3. /\ pc[s] = "wait" /\ pos[s] = 0 /\ legs[s] = 0 /\ hold[s] = 0
      BY DEF Init
    <2>4. Cardinality({}) = 0 /\ SumFunctionOnSet(Qty(s), {}) = 0
      BY FS_EmptySet, SumEmpty
    <2>5. EntryPaid(s) /\ HoldIsSum(s)
      BY <2>2, <2>3, <2>4 DEF EntryPaid, HoldIsSum, One
    <2>6. SumFunctionOnSet(Qty(s), Traded(s)) + Due(s) = pos[s]
      BY <2>2, <2>3, <2>4 DEF Due
    <2> QED BY <2>5, <2>6 DEF Balanced
  <1>2. IInv /\ IInv' /\ BeliefInv /\ [Next]_vars => BeliefInv'
    BY NextBelief
  <1>3. IInv /\ BeliefInv => BeliefMatchesBroker
    <2> SUFFICES ASSUME IInv, BeliefInv, NEW s \in Symbols,
                        crashes = 0,
                        Cardinality(Filled(s, "entry")) = legs[s],
                        Cardinality(Filled(s, "exit")) + Cardinality({s} \cap Open) = legs[s],
                        Filled(s, "stop") = {}, Filled(s, "flatten") = {}
                 PROVE  hold[s] = pos[s]
      BY DEF BeliefMatchesBroker
    <2>1. TypeOK /\ EntryPaid(s) /\ ExitPaid(s) /\ Balanced(s) /\ HoldIsSum(s)
      BY DEF IInv, SymInv, BeliefInv
    <2>2. Cardinality({s} \cap Open) = One(pos[s] # 0)
      <3>1. CASE pos[s] # 0
        <4>1. {s} \cap Open = {s}
          BY <3>1 DEF Open
        <4> QED BY <3>1, <4>1, FS_Singleton DEF One
      <3>2. CASE pos[s] = 0
        <4>1. {s} \cap Open = {}
          BY <3>2 DEF Open
        <4> QED BY <3>2, <4>1, FS_EmptySet DEF One
      <3> QED BY <3>1, <3>2
    <2>3. ASSUME NEW k, Cardinality(Filled(s, k)) >= Cardinality(OrdersOf(s, k))
          PROVE  Filled(s, k) = OrdersOf(s, k)
      <3>1. IsFiniteSet(OrdersOf(s, k)) /\ Cardinality(OrdersOf(s, k)) \in Nat
        BY <2>1, OrdersFinite
      <3>2. Filled(s, k) \subseteq OrdersOf(s, k)
        BY DEF Filled
      <3>3. IsFiniteSet(Filled(s, k)) /\ Cardinality(Filled(s, k)) \in Nat
        BY <3>1, <3>2, FS_Subset, FS_CardinalityType
      <3> QED BY <2>3, <3>1, <3>2, <3>3, FS_Subset
    <2>4. ASSUME NEW k PROVE Cardinality(Filled(s, k)) <= Cardinality(OrdersOf(s, k))
                             /\ Cardinality(Filled(s, k)) \in Nat /\ Cardinality(OrdersOf(s, k)) \in Nat
      <3>1. IsFiniteSet(OrdersOf(s, k)) /\ Cardinality(OrdersOf(s, k)) \in Nat
        BY <2>1, OrdersFinite
      <3>2. Filled(s, k) \subseteq OrdersOf(s, k)
        BY DEF Filled
      <3> QED BY <3>1, <3>2, FS_Subset, FS_CardinalityType
    <2> DEFINE e == Cardinality(OrdersOf(s, "entry"))
               x == Cardinality(OrdersOf(s, "exit"))
               fe == Cardinality(Filled(s, "entry"))
               fx == Cardinality(Filled(s, "exit"))
    <2>5. e \in Nat /\ x \in Nat /\ fe \in Nat /\ fx \in Nat /\ fe <= e /\ fx <= x /\ legs[s] \in Nat
      BY <2>1, <2>4, LegAmounts
    <2>6. fe = legs[s] /\ fx + One(pos[s] # 0) = legs[s]
      BY <2>2
    <2>7. e + One(pc[s] = "entry") <= legs[s] /\ x + One(pos[s] # 0) + One(pc[s] = "exit") <= legs[s]
      BY <2>1 DEF EntryPaid, ExitPaid
    <2>8. /\ e + One(pc[s] = "entry") = legs[s] /\ x + One(pc[s] = "exit") + One(pos[s] # 0) = legs[s]
          /\ pc[s] # "entry" /\ pc[s] # "exit" /\ fe >= e /\ fx >= x
      <3> HIDE DEF e, x, fe, fx
      <3> QED BY <2>5, <2>6, <2>7 DEF One
    <2>9. Filled(s, "entry") = OrdersOf(s, "entry") /\ Filled(s, "exit") = OrdersOf(s, "exit")
      BY <2>3, <2>8
    <2>10. Executed(s) = Traded(s)
      <3>1. \A i \in DOMAIN orders[s] : orders[s][i].kind \in Kinds
        <4>1. orders[s] \in Seq(Order)
          BY <2>1 DEF TypeOK
        <4>2. \A i \in DOMAIN orders[s] : orders[s][i] \in Order
          BY <4>1
        <4> QED BY <4>2 DEF Order
      <3>2. ASSUME NEW i \in Executed(s) PROVE i \in Traded(s)
        BY <3>1, <3>2 DEF Executed, Traded, Filled, OrdersOf, Kinds
      <3>3. ASSUME NEW i \in Traded(s) PROVE i \in Executed(s)
        BY <2>9, <3>3 DEF Executed, Traded, Filled, OrdersOf
      <3> QED BY <3>2, <3>3
    <2>11. AllRouted(s)
      BY <2>8 DEF AllRouted
    <2>12. SumFunctionOnSet(Qty(s), Traded(s)) + 0 = pos[s]
      BY <2>1, <2>8, <2>11 DEF Balanced, Due
    <2>13. SumFunctionOnSet(Qty(s), Traded(s)) = pos[s]
      BY <2>1, <2>12, LegAmounts
    <2> QED BY <2>1, <2>10, <2>13 DEF HoldIsSum
  <1> QED BY <1>1, <1>2, <1>3, SpecIInv, PTL DEF Spec
=============================================================================
