--------------------------- MODULE OrderRowProofs ---------------------------
(***************************************************************************)
(* More theorems about OrderLifecycle, on top of OrderLifecycleProofs: the *)
(* audit trail and the order rows, and the size of the OCO groups.         *)
(***************************************************************************)
EXTENDS OrderLifecycleProofs

\* Where route() is for an order that is sent, received or logged; an OCO
\* group is only placed for an entry that has its row.
RoutingHolds ==
  /\ \A o \in Routed :
       /\ o \in wire \/ bst[o] # "none" => routePc[o] \in {"placing", "done", "failed", "lost"}
       /\ routePc[o] # "idle" => o \in signalRow
       /\ orderRow[o] # "none" <=> routePc[o] = "done"
       /\ orderRow[o] # "none" => bst[o] # "none"
  /\ \A o \in Orders : stage[o] = "bearer" => o \in Entries /\ orderRow[o] # "none"

\* The end of an order, as its row or an event in the stream tells it, is
\* its end at the broker.
EndsTrue ==
  \A o \in Routed :
    /\ orderRow[o] \in {"cancelled", "rejected"} => bst[o] = orderRow[o]
    /\ \A i \in 1..Len(chan[o]) : chan[o][i].st \in {"cancelled", "rejected"} => bst[o] = chan[o][i].st

\* An order executes no more than its quantity, and is filled when it has
\* executed all of it.
ExecutedWithinOrder ==
  \A o \in Routed : bfill[o] <= QtyOf[o] /\ (bfill[o] = QtyOf[o] => bst[o] = "filled")

\* A row that shows filled is of an order that was filled, or recorded in part.
FilledTrue == \A o \in Routed : orderRow[o] = "filled" => bst[o] = "filled" \/ RecordedInPart(o)

\* The events of an order tell of ever more executed quantity, none of less
\* than its fill row.
EventsGrow ==
  \A o \in Orders :
    /\ \A i \in 1..Len(chan[o]) : fillRow[o].qty <= chan[o][i].fill
    /\ \A i \in 1..Len(chan[o]) : \A j \in 1..Len(chan[o]) : i <= j => chan[o][i].fill <= chan[o][j].fill

\* The group of entry e is on the wire, not the entry.
GroupSent(e) == e \in wire /\ bst[e] # "none"

\* An entry gets one OCO group: it is sent after the fill is posted, and
\* once it has arrived it is neither on the wire nor to be sent.
OneGroup ==
  \A e \in Entries :
    /\ stage[e] # "none" => fillRow[e].kind # "none"
    /\ GroupSent(e) => fillRow[e].kind # "none" /\ stage[e] \notin {"patch", "position", "bearer"}
    /\ legQty[e] # 0 => /\ fillRow[e].kind # "none" /\ stage[e] \notin {"patch", "position", "bearer"}
                        /\ ~GroupSent(e)

\* The inductive invariant.
RowInv == /\ IInv
          /\ RoutingHolds
          /\ EndsTrue
          /\ ExecutedWithinOrder
          /\ FilledTrue
          /\ EventsGrow
          /\ OneGroup
          /\ BracketWithinEntry

-----------------------------------------------------------------------------
(* What one step does to the channel and to the broker's order *)

\* The channel got the event of the order's new state.
Told(o) ==
  /\ Len(chan'[o]) = Len(chan[o]) + 1
  /\ \A i \in 1..Len(chan[o]) : chan'[o][i] = chan[o][i]
  /\ chan'[o][Len(chan[o]) + 1] = [st |-> MapStatus(bst'[o]), fill |-> bfill'[o], snap |-> FALSE]

\* The first event was read.
Read(o) ==
  /\ Len(chan[o]) = Len(chan'[o]) + 1
  /\ \A i \in 1..Len(chan'[o]) : chan'[o][i] = chan[o][i + 1]

\* The channel holds the state of the order only.
Replayed(o) ==
  /\ Len(chan'[o]) = 1
  /\ chan'[o][1] = [st |-> MapStatus(bst'[o]), fill |-> bfill'[o], snap |-> TRUE]

ChannelStep(o) == chan'[o] = chan[o] \/ Len(chan'[o]) = 0 \/ Told(o) \/ Read(o) \/ Replayed(o)

\* An order that ended stays as it ended, and executes no less.
OrderStep(o) ==
  /\ bst[o] \notin {"none", "working"} => bst'[o] = bst[o]
  /\ bst[o] # "none" => bst'[o] # "none"
  /\ bfill[o] <= bfill'[o]

LEMMA EmitSteps ==
  ASSUME TypeOK, NEW S, Emit(S)
  PROVE  \A o \in Orders : ChannelStep(o)
  <1> SUFFICES ASSUME NEW o \in Orders PROVE ChannelStep(o)
    OBVIOUS
  <1> DEFINE e == [st |-> MapStatus(bst'[o]), fill |-> bfill'[o], snap |-> FALSE]
  <1>1. chan[o] \in Seq(Event)
    BY DEF TypeOK, StreamTypes
  <1>2. chan'[o] = Append(chan[o], e) \/ chan'[o] = chan[o]
    BY DEF Emit
  <1>3. CASE chan'[o] = Append(chan[o], e)
    <2>1. Told(o)
      BY <1>1, <1>3 DEF Told
    <2> QED BY <2>1 DEF ChannelStep
  <1> QED BY <1>2, <1>3 DEF ChannelStep

LEMMA ConsumeSteps ==
  ASSUME TypeOK, NEW p \in Orders, Consume(p), chan[p] # <<>>
  PROVE  \A o \in Orders : ChannelStep(o)
  <1> SUFFICES ASSUME NEW o \in Orders PROVE ChannelStep(o)
    OBVIOUS
  <1>1. chan \in [Orders -> Seq(Event)]
    BY DEF TypeOK, StreamTypes
  <1>2. CASE o = p
    <2>1. /\ Len(chan[o]) \in Nat /\ Len(Tail(chan[o])) = Len(chan[o]) - 1
          /\ \A i \in 1..Len(Tail(chan[o])) : Tail(chan[o])[i] = chan[o][i + 1]
      BY <1>1, <1>2, HeadTailProperties
    <2>2. chan'[o] = Tail(chan[o])
      BY <1>1, <1>2 DEF Consume
    <2>3. Read(o)
      BY <2>1, <2>2 DEF Read
    <2> QED BY <2>3 DEF ChannelStep
  <1>3. CASE o # p
    BY <1>1, <1>3 DEF Consume, ChannelStep
  <1> QED BY <1>2, <1>3

LEMMA DisconnectSteps ==
  ASSUME TypeOK, NEW a \in Accounts, Disconnect(a)
  PROVE  \A o \in Orders : ChannelStep(o)
  <1> SUFFICES ASSUME NEW o \in Orders PROVE ChannelStep(o)
    OBVIOUS
  <1>1. chan'[o] = <<>> \/ chan'[o] = chan[o]
    BY DEF Disconnect
  <1> QED BY <1>1 DEF ChannelStep

\* The broker's steps.
LEMMA BrokerSteps ==
  ASSUME IInv, NEW o \in Orders, BrokerStep(o)
  PROVE  /\ \A p \in Orders : ChannelStep(p)
         /\ \A p \in Routed : OrderStep(p)
         /\ \A p \in Orders : bfill[p] <= bfill'[p]
  <1> USE OrdersAssumption, AttributesAssumption
  <1>0. TypeOK /\ \A p \in Orders : bfill[p] \in Nat /\ bst[p] \in BrokerStatus
    BY DEF IInv, TypeOK, BrokerTypes
  <1>1. CASE WireLost(o)
    BY <1>0, <1>1 DEF WireLost, brokerVars, ChannelStep, OrderStep
  <1>2. ASSUME NEW S, Accept(S), \A p \in Routed : p \in S => bst[p] = "none"
        PROVE  /\ \A p \in Orders : ChannelStep(p) /\ bfill[p] <= bfill'[p]
               /\ \A p \in Routed : OrderStep(p)
    BY <1>0, <1>2, EmitSteps DEF Accept, OrderStep
  <1>3. CASE o \in Routed /\ BrokerAccept(o)
    BY <1>2, <1>3 DEF BrokerAccept
  <1>4. CASE o \in External /\ BrokerAcceptExternal(o)
    BY <1>2, <1>4 DEF BrokerAcceptExternal, External
  <1>5. CASE o \in Entries /\ BrokerAcceptBracket(o)
    BY <1>2, <1>5 DEF BrokerAcceptBracket
  <1>6. CASE BrokerFill(o)
    <2>1. \A p \in Orders : bfill[p] <= bfill'[p]
      <3>1. bfill \in [Orders -> Nat] /\ bfill' = [bfill EXCEPT ![o] = @ + 1]
        BY <1>6 DEF BrokerFill, IInv, TypeOK, BrokerTypes
      <3> QED BY <3>1
    <2>2. \A p \in Routed : bst'[p] # bst[p] => bst[p] = "working" /\ bst'[p] # "none"
      BY <1>0, <1>6 DEF BrokerFill, BrokerStatus
    <2>3. \E S : Emit(S)
      BY <1>6 DEF BrokerFill
    <2> QED BY <1>0, <2>1, <2>2, <2>3, EmitSteps DEF OrderStep
  <1>7. ASSUME NEW st \in {"cancelled", "rejected"}, BrokerEnds(o, st)
        PROVE  /\ \A p \in Orders : ChannelStep(p) /\ bfill[p] <= bfill'[p]
               /\ \A p \in Routed : OrderStep(p)
    <2>1. bfill' = bfill /\ bst[o] = "working" /\ bst' = [bst EXCEPT ![o] = st] /\ \E S : Emit(S)
      BY <1>7 DEF BrokerEnds
    <2>2. bst \in [Orders -> BrokerStatus]
      BY DEF IInv, TypeOK, BrokerTypes
    <2>3. \A p \in Routed : OrderStep(p)
      BY <1>0, <2>1, <2>2 DEF OrderStep
    <2> QED BY <1>0, <2>1, <2>3, EmitSteps
  <1> QED BY <1>1, <1>3, <1>4, <1>5, <1>6, <1>7 DEF BrokerStep

\* Every other step leaves the broker's orders alone.
LEMMA OtherSteps ==
  ASSUME IInv, [Next]_vars, \A o \in Orders : ~BrokerStep(o)
  PROVE  UNCHANGED <<bst, bfill, legQty>> /\ \A o \in Orders : ChannelStep(o)
  <1> USE DEF brokerVars
  <1>0. TypeOK
    BY DEF IInv
  <1>1. ASSUME NEW o \in Routed, RouteStep(o)
        PROVE  UNCHANGED <<bst, bfill, legQty>> /\ \A p \in Orders : ChannelStep(p)
    BY <1>1 DEF RouteStep, RouteStart, RouteBlocked, RoutePlace, RouteReturns, RouteFails, ChannelStep
  <1>2. ASSUME NEW o \in Orders, HandlerStep(o) \/ CommitFails(o) \/ BearerFails(o)
        PROVE  UNCHANGED <<bst, bfill, legQty>> /\ \A p \in Orders : ChannelStep(p)
    <2>1. UNCHANGED <<bst, bfill, legQty>>
      BY <1>2 DEF HandlerStep, SkipFill, RecordFill, PatchStatus, PatchFill, PostPosition, BracketSend,
                  BracketReturns, CommitFails, BearerFails
    <2>2. \/ Consume(o) /\ chan[o] # <<>>
          \/ Disconnect(AcctOf[o])
          \/ UNCHANGED chan
      BY <1>2 DEF HandlerStep, SkipFill, RecordFill, PatchStatus, PatchFill, PostPosition, BracketSend,
                  BracketReturns, CommitFails, BearerFails, Readable
    <2>3. AcctOf[o] \in Accounts
      BY AttributesAssumption
    <2>4. UNCHANGED chan => \A p \in Orders : ChannelStep(p)
      BY DEF ChannelStep
    <2> QED BY <1>0, <2>1, <2>2, <2>3, <2>4, ConsumeSteps, DisconnectSteps
  <1>3. ASSUME NEW a \in Accounts, ConnectionStep(a)
        PROVE  UNCHANGED <<bst, bfill, legQty>> /\ \A p \in Orders : ChannelStep(p)
    <2>1. UNCHANGED <<bst, bfill, legQty>>
      BY <1>3 DEF ConnectionStep, BeginConnect, OpenStream, InactivityTimeout, ReceiveEOS, DropStream
    <2>2. CASE OpenStream(a)
      <3> SUFFICES ASSUME NEW p \in Orders PROVE ChannelStep(p)
        BY <2>1
      <3>1. \/ chan'[p] = chan[p]
            \/ chan'[p] = <<[st |-> MapStatus(bst'[p]), fill |-> bfill'[p], snap |-> TRUE]>>
        BY <2>1, <2>2 DEF OpenStream
      <3>2. chan'[p] = <<[st |-> MapStatus(bst'[p]), fill |-> bfill'[p], snap |-> TRUE]>> => Replayed(p)
        BY DEF Replayed
      <3> QED BY <3>1, <3>2 DEF ChannelStep
    <2>3. CASE Disconnect(a)
      BY <1>0, <2>1, <2>3, DisconnectSteps
    <2>4. CASE UNCHANGED chan
      BY <2>1, <2>4 DEF ChannelStep
    <2> QED BY <1>3, <2>2, <2>3, <2>4 DEF ConnectionStep, BeginConnect, InactivityTimeout, ReceiveEOS, DropStream
  <1>4. CASE Crash
    BY <1>4 DEF Crash, ChannelStep
  <1>5. CASE Restart \/ UNCHANGED vars
    BY <1>5 DEF Restart, vars, ChannelStep
  <1> QED BY <1>1, <1>2, <1>3, <1>4, <1>5 DEF Next

\* The steps that write an order row.
LEMMA RowSteps ==
  ASSUME IInv, [Next]_vars, NEW o \in Orders
  PROVE  \/ orderRow'[o] = orderRow[o]
         \/ o \in Routed /\ RouteReturns(o)
         \/ PatchStatus(o) /\ orderRow'[o] = Head(chan[o]).st /\ orderRow[o] # "none"
         \/ PatchFill(o) /\ orderRow'[o] = "filled" /\ orderRow[o] # "none"
  <1> DEFINE Goal == \/ orderRow'[o] = orderRow[o]
                     \/ o \in Routed /\ RouteReturns(o)
                     \/ PatchStatus(o) /\ orderRow'[o] = Head(chan[o]).st /\ orderRow[o] # "none"
                     \/ PatchFill(o) /\ orderRow'[o] = "filled" /\ orderRow[o] # "none"
  <1>0. orderRow \in [Orders -> RowStatus]
    BY DEF IInv, TypeOK, RowTypes
  <1>1. ASSUME NEW p \in Routed, RouteStep(p) PROVE Goal
    <2>1. CASE RouteReturns(p)
      <3>1. p = o \/ orderRow'[o] = orderRow[o]
        BY <2>1, <1>0 DEF RouteReturns
      <3> QED BY <2>1, <3>1
    <2>2. CASE ~RouteReturns(p)
      BY <1>1, <2>2 DEF RouteStep, RouteStart, RouteBlocked, RoutePlace, RouteFails, dbVars
    <2> QED BY <2>1, <2>2
  <1>2. ASSUME NEW p \in Orders, BrokerStep(p) PROVE Goal
    BY <1>2 DEF BrokerStep, BrokerAccept, BrokerAcceptExternal, BrokerAcceptBracket, WireLost, BrokerFill,
                BrokerEnds, dbVars
  <1>3. ASSUME NEW p \in Orders, PatchStatus(p) PROVE Goal
    <2>1. PatchRow(p, Head(chan[p]).st)
      BY <1>3 DEF PatchStatus, EventRow
    <2>2. \/ orderRow'[o] = orderRow[o]
          \/ p = o /\ orderRow'[o] = Head(chan[o]).st /\ orderRow[o] # "none"
      BY <2>1, <1>0 DEF PatchRow
    <2> QED BY <1>3, <2>2
  <1>4. ASSUME NEW p \in Orders, PatchFill(p) PROVE Goal
    <2>1. \/ orderRow'[o] = orderRow[o]
          \/ p = o /\ orderRow'[o] = "filled" /\ orderRow[o] # "none"
      BY <1>4, <1>0 DEF PatchFill, PatchRow
    <2> QED BY <1>4, <2>1
  <1>5. ASSUME NEW p \in Orders, HandlerStep(p) \/ CommitFails(p) \/ BearerFails(p),
               ~PatchStatus(p), ~PatchFill(p)
        PROVE  Goal
    BY <1>5 DEF HandlerStep, SkipFill, RecordFill, PostPosition, BracketSend, BracketReturns, CommitFails,
                BearerFails, dbVars
  <1>6. ASSUME NEW a \in Accounts, ConnectionStep(a) PROVE Goal
    BY <1>6 DEF ConnectionStep, BeginConnect, OpenStream, InactivityTimeout, ReceiveEOS, DropStream, dbVars
  <1>7. CASE Crash \/ Restart \/ UNCHANGED vars
    BY <1>7 DEF Crash, Restart, vars, dbVars
  <1> QED BY <1>1, <1>2, <1>3, <1>4, <1>5, <1>6, <1>7 DEF Next

-----------------------------------------------------------------------------
(* The parts of the invariant *)

\* A step is the broker's for some order, or leaves its orders alone.
LEMMA AnySteps ==
  ASSUME IInv, [Next]_vars
  PROVE  /\ \A o \in Orders : ChannelStep(o) /\ bfill[o] <= bfill'[o]
         /\ \A o \in Routed : OrderStep(o)
  <1>1. CASE \E o \in Orders : BrokerStep(o)
    BY <1>1, BrokerSteps
  <1>2. CASE \A o \in Orders : ~BrokerStep(o)
    <2>1. \A o \in Orders : bfill[o] \in Nat
      BY DEF IInv, TypeOK, BrokerTypes
    <2>2. UNCHANGED <<bst, bfill>> /\ \A o \in Orders : ChannelStep(o)
      BY <1>2, OtherSteps
    <2>3. Routed \subseteq Orders
      BY OrdersAssumption
    <2> QED BY <2>1, <2>2, <2>3 DEF OrderStep
  <1> QED BY <1>1, <1>2

\* What an order executes.
LEMMA ExecutedStep ==
  ASSUME IInv, ExecutedWithinOrder, [Next]_vars
  PROVE  ExecutedWithinOrder'
  <1> USE OrdersAssumption, AttributesAssumption
  <1>0. bst \in [Orders -> BrokerStatus] /\ bfill \in [Orders -> Nat]
    BY DEF IInv, TypeOK, BrokerTypes
  <1> SUFFICES ASSUME NEW o \in Routed
               PROVE  bfill'[o] <= QtyOf[o] /\ (bfill'[o] = QtyOf[o] => bst'[o] = "filled")
    BY DEF ExecutedWithinOrder
  <1>1. /\ o \in Orders /\ o \notin Legs /\ QtyOf[o] \in Nat /\ bfill[o] \in Nat
        /\ bfill[o] <= QtyOf[o] /\ (bfill[o] = QtyOf[o] => bst[o] = "filled")
    BY <1>0 DEF ExecutedWithinOrder
  <1>2. CASE bfill'[o] = bfill[o] /\ (bst[o] = "filled" => bst'[o] = "filled")
    BY <1>1, <1>2
  <1>3. CASE BrokerFill(o)
    <2>1. bfill[o] < QtyOf[o] /\ bfill'[o] = bfill[o] + 1
      BY <1>0, <1>1, <1>3 DEF BrokerFill, Cap
    <2>2. bfill[o] + 1 = QtyOf[o] => bst'[o] = "filled"
      BY <1>1, <1>3 DEF BrokerFill, Cap
    <2> QED BY <1>1, <2>1, <2>2
  <1>4. CASE \E p \in Orders \ {o} : BrokerFill(p)
    <2>1. PICK p \in Orders \ {o} : BrokerFill(p)
      BY <1>4
    <2>2. bfill'[o] = bfill[o] /\ bst'[o] = bst[o]
      BY <1>0, <1>1, <2>1 DEF BrokerFill
    <2> QED BY <1>2, <2>2
  <1>5. CASE \A p \in Orders : ~BrokerFill(p)
    <2>1. \A p \in Orders : bfill' = bfill \/ ~BrokerStep(p)
      BY <1>5 DEF BrokerStep, BrokerAccept, BrokerAcceptExternal, BrokerAcceptBracket, WireLost, BrokerEnds,
                  Accept, brokerVars
    <2>2. bfill' = bfill
      BY <2>1, OtherSteps
    <2>3. bst[o] = "filled" => bst'[o] = "filled"
      BY <1>1, AnySteps DEF OrderStep
    <2> QED BY <1>2, <2>2, <2>3
  <1> QED BY <1>3, <1>4, <1>5

\* Events are about what the broker executed.
LEMMA ChannelTyped ==
  ASSUME IInv, NEW o \in Orders
  PROVE  /\ chan[o] \in Seq(Event) /\ Len(chan[o]) \in Nat
         /\ \A i \in 1..Len(chan[o]) :
              chan[o][i] \in Event /\ chan[o][i].fill \in Nat /\ chan[o][i].fill <= bfill[o]
         /\ bfill[o] \in Nat /\ fillRow[o].qty \in Nat /\ fillRow[o].qty <= bfill[o]
  <1>1. chan[o] \in Seq(Event) /\ Len(chan[o]) \in Nat
    BY DEF IInv, TypeOK, StreamTypes
  <1>2. \A i \in 1..Len(chan[o]) : chan[o][i] \in Event /\ chan[o][i].fill \in Nat
    <2>1. \A i \in 1..Len(chan[o]) : chan[o][i] \in Event
      BY <1>1, ElementOfSeq
    <2> QED BY <2>1 DEF Event
  <1>3. \A i \in 1..Len(chan[o]) : chan[o][i].fill <= bfill[o]
    BY DEF IInv, EventsTrue
  <1>4. bfill[o] \in Nat /\ fillRow[o].qty \in Nat
    BY DEF IInv, TypeOK, BrokerTypes, RowTypes
  <1>5. fillRow[o].qty <= bfill[o]
    BY DEF IInv, LedgerWithinBroker
  <1> QED BY <1>1, <1>2, <1>3, <1>4, <1>5

\* A fill row is written once.
LEMMA FillRowStays ==
  ASSUME IInv, [Next]_vars, NEW o \in Orders, fillRow[o].qty > 0
  PROVE  fillRow'[o] = fillRow[o]
  <1>1. fillRow \in [Orders -> [kind : FillKind, qty : Nat]] /\ fillRow[o] # NoFill
    BY DEF IInv, TypeOK, RowTypes, NoFill
  <1>2. ASSUME NEW p \in Orders, RecordFill(p) PROVE fillRow'[o] = fillRow[o]
    BY <1>1, <1>2 DEF RecordFill
  <1>3. ASSUME \A p \in Orders : ~RecordFill(p) PROVE fillRow' = fillRow
    BY <1>3 DEF Next, RouteStep, RouteStart, RouteBlocked, RoutePlace, RouteReturns, RouteFails,
                BrokerStep, BrokerAccept, BrokerAcceptExternal, BrokerAcceptBracket, WireLost, BrokerFill,
                BrokerEnds, HandlerStep, SkipFill, PatchStatus, PatchFill, PostPosition, BracketSend,
                BracketReturns, CommitFails, BearerFails, ConnectionStep, BeginConnect, OpenStream,
                InactivityTimeout, ReceiveEOS, DropStream, Crash, Restart, vars, dbVars
  <1> QED BY <1>2, <1>3

\* An order row is true of the broker's order when it is written.
LEMMA EndsStep ==
  ASSUME IInv, EndsTrue, ExecutedWithinOrder, FilledTrue, [Next]_vars
  PROVE  EndsTrue' /\ FilledTrue'
  <1> SUFFICES ASSUME NEW o \in Routed
               PROVE  /\ orderRow'[o] \in {"cancelled", "rejected"} => bst'[o] = orderRow'[o]
                      /\ \A i \in 1..Len(chan'[o]) :
                           chan'[o][i].st \in {"cancelled", "rejected"} => bst'[o] = chan'[o][i].st
                      /\ orderRow'[o] = "filled" => bst'[o] = "filled" \/ RecordedInPart(o)'
    BY DEF EndsTrue, FilledTrue
  <1>0. o \in Orders /\ OrderStep(o) /\ ChannelStep(o) /\ bfill[o] <= bfill'[o] /\ bfill[o] \in Nat
        /\ IInv'
    BY OrdersAssumption, AnySteps, ChannelTyped, InvStep
  <1>t. bfill'[o] \in Nat
    BY <1>0 DEF IInv, TypeOK, BrokerTypes
  <1>1. /\ orderRow[o] \in {"cancelled", "rejected"} => bst[o] = orderRow[o]
        /\ \A i \in 1..Len(chan[o]) : chan[o][i].st \in {"cancelled", "rejected"} => bst[o] = chan[o][i].st
        /\ orderRow[o] = "filled" => bst[o] = "filled" \/ RecordedInPart(o)
    BY DEF EndsTrue, FilledTrue
  <1>k. (bst[o] = "filled" => bst'[o] = "filled") /\ (RecordedInPart(o) => RecordedInPart(o)')
    <2>1. bst[o] = "filled" => bst'[o] = "filled"
      BY <1>0 DEF OrderStep
    <2>2. RecordedInPart(o) => fillRow'[o] = fillRow[o]
      BY <1>0, FillRowStays DEF RecordedInPart
    <2> QED BY <2>1, <2>2 DEF RecordedInPart
  <1>2. ASSUME NEW st \in {"cancelled", "rejected"}, bst[o] = st PROVE bst'[o] = st
    BY <1>0, <1>2 DEF OrderStep
  <1>3. ASSUME NEW i \in 1..Len(chan'[o]), chan'[o][i].st \in {"cancelled", "rejected"}
        PROVE  bst'[o] = chan'[o][i].st
    <2>1. CASE chan'[o] = chan[o]
      BY <2>1, <1>1, <1>2, <1>3
    <2>2. CASE Len(chan'[o]) = 0
      BY <2>2
    <2>3. CASE Told(o)
      <3>0. Len(chan[o]) \in Nat
        BY <1>0, ChannelTyped
      <3>1. CASE i \in 1..Len(chan[o])
        BY <3>1, <2>3, <1>1, <1>2, <1>3 DEF Told
      <3>2. CASE i = Len(chan[o]) + 1
        <4>1. chan'[o][i].st = MapStatus(bst'[o])
          BY <3>2, <2>3 DEF Told
        <4> QED BY <4>1, <1>3 DEF MapStatus
      <3> QED BY <3>0, <3>1, <3>2, <2>3 DEF Told
    <2>4. CASE Read(o)
      <3>0. chan'[o] \in Seq(Event)
        BY <1>0, ChannelTyped DEF IInv, TypeOK, StreamTypes
      <3>1. i + 1 \in 1..Len(chan[o]) /\ chan'[o][i] = chan[o][i + 1]
        BY <2>4, <3>0 DEF Read
      <3> QED BY <3>1, <1>1, <1>2, <1>3
    <2>5. CASE Replayed(o)
      <3>1. chan'[o][i].st = MapStatus(bst'[o])
        BY <2>5 DEF Replayed
      <3> QED BY <3>1, <1>3 DEF MapStatus
    <2> QED BY <1>0, <2>1, <2>2, <2>3, <2>4, <2>5 DEF ChannelStep
  <1>4. /\ orderRow'[o] \in {"cancelled", "rejected"} => bst'[o] = orderRow'[o]
        /\ orderRow'[o] = "filled" => bst'[o] = "filled" \/ RecordedInPart(o)'
    <2>1. CASE orderRow'[o] = orderRow[o]
      BY <2>1, <1>1, <1>2, <1>k
    <2>2. CASE RouteReturns(o)
      <3>1. UNCHANGED <<bst, bfill>>
        BY <2>2 DEF RouteReturns, brokerVars
      <3>2. orderRow'[o] \in {"submitted", MapStatus(bst[o])}
        BY <2>2, <1>0 DEF RouteReturns, IInv, TypeOK, RowTypes
      <3> QED BY <3>1, <3>2 DEF MapStatus
    <2>3. CASE PatchStatus(o) /\ orderRow'[o] = Head(chan[o]).st
      <3>1. chan[o] # <<>> /\ ~IsFill(Head(chan[o])) /\ UNCHANGED <<bst, bfill>>
        BY <2>3 DEF PatchStatus, Readable, brokerVars
      <3>2. Head(chan[o]) = chan[o][1] /\ 1 \in 1..Len(chan[o])
        <4>1. chan[o] \in Seq(Event)
          BY <1>0, ChannelTyped
        <4> QED BY <4>1, <3>1
      <3> QED BY <2>3, <3>1, <3>2, <1>1 DEF IsFill
    <2>4. CASE PatchFill(o) /\ orderRow'[o] = "filled"
      <3>1. fillRow[o].kind # "none" /\ UNCHANGED <<bst, bfill, fillRow>>
        BY <2>4, <1>0 DEF PatchFill, IInv, HandlerHoldsFill, brokerVars
      <3>2. fillRow[o].qty > 0 /\ fillRow[o].qty <= bfill[o] /\ fillRow[o].qty \in Nat
        BY <3>1, <1>0, ChannelTyped DEF IInv, LedgerWithinBroker
      <3>3. bfill[o] <= QtyOf[o] /\ (bfill[o] = QtyOf[o] => bst[o] = "filled") /\ QtyOf[o] \in Nat
        BY <1>0, AttributesAssumption DEF ExecutedWithinOrder
      <3>4. bst[o] = "filled" \/ RecordedInPart(o)
        BY <1>0, <3>2, <3>3 DEF RecordedInPart
      <3> QED BY <2>4, <3>1, <3>4, <1>k
    <2> QED BY <1>0, <2>1, <2>2, <2>3, <2>4, RowSteps
  <1> QED BY <1>3, <1>4

\* What a fill row and the events of its order tell of the quantity.
LEMMA GrowStep ==
  ASSUME IInv, EventsGrow, [Next]_vars
  PROVE  EventsGrow'
  <1> SUFFICES ASSUME NEW o \in Orders
               PROVE  /\ \A i \in 1..Len(chan'[o]) : fillRow'[o].qty <= chan'[o][i].fill
                      /\ \A i \in 1..Len(chan'[o]) : \A j \in 1..Len(chan'[o]) :
                           i <= j => chan'[o][i].fill <= chan'[o][j].fill
    BY DEF EventsGrow
  <1>0. ChannelStep(o) /\ bfill[o] <= bfill'[o] /\ IInv'
    BY AnySteps, InvStep
  <1>1. /\ \A i \in 1..Len(chan[o]) : fillRow[o].qty <= chan[o][i].fill
        /\ \A i \in 1..Len(chan[o]) : \A j \in 1..Len(chan[o]) :
             i <= j => chan[o][i].fill <= chan[o][j].fill
    BY DEF EventsGrow
  <1>2. /\ chan[o] \in Seq(Event) /\ Len(chan[o]) \in Nat /\ bfill[o] \in Nat
        /\ \A i \in 1..Len(chan[o]) : chan[o][i].fill \in Nat /\ chan[o][i].fill <= bfill[o]
    BY ChannelTyped
  <1>3. /\ bfill'[o] \in Nat /\ fillRow'[o].qty \in Nat /\ Len(chan'[o]) \in Nat
        /\ \A i \in 1..Len(chan'[o]) : chan'[o][i].fill \in Nat
        /\ fillRow'[o].qty <= bfill'[o]
    <2>1. bfill'[o] \in Nat /\ fillRow'[o].qty \in Nat /\ chan'[o] \in Seq(Event)
      BY <1>0 DEF IInv, TypeOK, BrokerTypes, RowTypes, StreamTypes
    <2>2. \A i \in 1..Len(chan'[o]) : chan'[o][i] \in Event
      BY <2>1, ElementOfSeq
    <2>3. \A i \in 1..Len(chan'[o]) : chan'[o][i].fill \in Nat
      BY <2>2 DEF Event
    <2>4. fillRow'[o].qty <= bfill'[o]
      BY <1>0 DEF IInv, LedgerWithinBroker
    <2> QED BY <2>1, <2>3, <2>4
  <1>4. fillRow'[o] = fillRow[o] \/ RecordFill(o)
    <2>1. fillRow \in [Orders -> [kind : FillKind, qty : Nat]]
      BY DEF IInv, TypeOK, RowTypes
    <2>2. ASSUME NEW p \in Orders, RecordFill(p) PROVE p = o \/ fillRow'[o] = fillRow[o]
      BY <2>1, <2>2 DEF RecordFill
    <2>3. ASSUME \A p \in Orders : ~RecordFill(p) PROVE fillRow' = fillRow
      BY <2>3 DEF Next, RouteStep, RouteStart, RouteBlocked, RoutePlace, RouteReturns, RouteFails,
                  BrokerStep, BrokerAccept, BrokerAcceptExternal, BrokerAcceptBracket, WireLost, BrokerFill,
                  BrokerEnds, HandlerStep, SkipFill, PatchStatus, PatchFill, PostPosition, BracketSend,
                  BracketReturns, CommitFails, BearerFails, ConnectionStep, BeginConnect, OpenStream,
                  InactivityTimeout, ReceiveEOS, DropStream, Crash, Restart, vars, dbVars
    <2> QED BY <2>2, <2>3
  <1>5. CASE RecordFill(o)
    <2>1. /\ Head(chan[o]) = chan[o][1] /\ Len(chan[o]) > 0
          /\ Len(Tail(chan[o])) = Len(chan[o]) - 1
          /\ \A i \in 1..Len(Tail(chan[o])) : Tail(chan[o])[i] = chan[o][i + 1]
      BY <1>2, <1>5, HeadTailProperties DEF RecordFill, Readable
    <2>2. chan'[o] = Tail(chan[o])
      BY <1>5 DEF RecordFill, Consume, IInv, TypeOK, StreamTypes
    <2>3. fillRow'[o].qty = chan[o][1].fill
      BY <1>5, <2>1 DEF RecordFill, IInv, TypeOK, RowTypes
    <2>4. \A i \in 1..Len(chan'[o]) :
            i + 1 \in 1..Len(chan[o]) /\ 1 <= i + 1 /\ chan'[o][i] = chan[o][i + 1]
      BY <2>1, <2>2, <1>2, <1>3
    <2>5. 1 \in 1..Len(chan[o])
      BY <2>1, <1>2
    <2>6. \A i \in 1..Len(chan'[o]) : fillRow'[o].qty <= chan'[o][i].fill
      BY <2>3, <2>4, <2>5, <1>1
    <2>7. \A i \in 1..Len(chan'[o]) : \A j \in 1..Len(chan'[o]) : i <= j => i + 1 <= j + 1
      BY <1>3
    <2> QED BY <2>4, <2>6, <2>7, <1>1
  <1>6. CASE fillRow'[o] = fillRow[o]
    <2>1. CASE chan'[o] = chan[o]
      BY <2>1, <1>1, <1>6
    <2>2. CASE Len(chan'[o]) = 0
      BY <2>2
    <2>3. CASE Told(o)
      <3>1. \A i \in 1..Len(chan'[o]) :
              \/ i \in 1..Len(chan[o]) /\ chan'[o][i] = chan[o][i]
              \/ i = Len(chan[o]) + 1 /\ chan'[o][i].fill = bfill'[o]
        BY <2>3, <1>2, <1>3 DEF Told
      <3>2. \A i \in 1..Len(chan'[o]) : chan'[o][i].fill <= bfill'[o]
        BY <1>0, <1>3, ChannelTyped DEF IInv, EventsTrue
      <3>3. \A i \in 1..Len(chan'[o]) : fillRow'[o].qty <= chan'[o][i].fill
        BY <3>1, <1>1, <1>3, <1>6
      <3>4. ASSUME NEW i \in 1..Len(chan'[o]), NEW j \in 1..Len(chan'[o]), i <= j
            PROVE  chan'[o][i].fill <= chan'[o][j].fill
        <4>1. CASE j = Len(chan[o]) + 1
          <5>1. chan'[o][j].fill = bfill'[o]
            BY <4>1, <3>1, <1>2
          <5> QED BY <5>1, <3>2
        <4>2. CASE j \in 1..Len(chan[o])
          <5>1. i \in 1..Len(chan[o])
            BY <4>2, <3>4, <1>2, <1>3
          <5>2. chan'[o][i] = chan[o][i] /\ chan'[o][j] = chan[o][j]
            BY <4>2, <5>1, <2>3 DEF Told
          <5> QED BY <4>2, <5>1, <5>2, <3>4, <1>1
        <4> QED BY <4>1, <4>2, <3>1
      <3> QED BY <3>3, <3>4
    <2>4. CASE Read(o)
      <3>1. \A i \in 1..Len(chan'[o]) : i + 1 \in 1..Len(chan[o]) /\ chan'[o][i] = chan[o][i + 1]
        BY <2>4, <1>2, <1>3 DEF Read
      <3>2. \A i \in 1..Len(chan'[o]) : \A j \in 1..Len(chan'[o]) : i <= j => i + 1 <= j + 1
        BY <1>3
      <3> QED BY <3>1, <3>2, <1>1, <1>6
    <2>5. CASE Replayed(o)
      <3>1. \A i \in 1..Len(chan'[o]) : i = 1 /\ chan'[o][i].fill = bfill'[o]
        BY <2>5 DEF Replayed
      <3> QED BY <3>1, <1>3
    <2> QED BY <1>0, <2>1, <2>2, <2>3, <2>4, <2>5 DEF ChannelStep
  <1> QED BY <1>4, <1>5, <1>6

\* The routing steps keep what holds of the routing.
LEMMA RoutingRouteStep ==
  ASSUME IInv, RoutingHolds, NEW p \in Routed, RouteStep(p)
  PROVE  RoutingHolds'
  <1>0. /\ routePc \in [Routed -> {"idle", "checking", "blocked", "placing", "done", "failed", "lost"}]
        /\ orderRow \in [Orders -> RowStatus] /\ p \in Orders
    BY OrdersAssumption DEF IInv, TypeOK, RouteTypes, RowTypes
  <1>1. /\ p \in wire \/ bst[p] # "none" => routePc[p] \in {"placing", "done", "failed", "lost"}
        /\ routePc[p] # "idle" => p \in signalRow
        /\ orderRow[p] # "none" <=> routePc[p] = "done"
    BY DEF RoutingHolds
  <1>2. UNCHANGED <<bst, stage>>
    BY DEF RouteStep, RouteStart, RouteBlocked, RoutePlace, RouteReturns, RouteFails, brokerVars
  <1>3. /\ \A o \in Routed : o # p => routePc'[o] = routePc[o]
        /\ \A o \in Orders : o # p => orderRow'[o] = orderRow[o]
        /\ \A o \in Routed : o # p => (o \in wire' <=> o \in wire)
        /\ signalRow \subseteq signalRow'
    BY <1>0 DEF RouteStep, RouteStart, RouteBlocked, RoutePlace, RouteReturns, RouteFails, dbVars
  <1>4. /\ p \in wire' \/ bst'[p] # "none" => routePc'[p] \in {"placing", "done", "failed", "lost"}
        /\ routePc'[p] # "idle" => p \in signalRow'
        /\ orderRow'[p] # "none" <=> routePc'[p] = "done"
        /\ orderRow'[p] # "none" => bst'[p] # "none"
        /\ orderRow[p] # "none" => orderRow'[p] # "none"
    <2>0. orderRow[p] # "none" => bst[p] # "none"
      BY DEF RoutingHolds
    <2>1. CASE RouteStart(p)
      BY <2>0, <2>1, <1>0, <1>1, <1>2 DEF RouteStart, dbVars
    <2>2. CASE RouteBlocked(p)
      BY <2>0, <2>2, <1>0, <1>1, <1>2 DEF RouteBlocked, dbVars
    <2>3. CASE RoutePlace(p)
      BY <2>0, <2>3, <1>0, <1>1, <1>2 DEF RoutePlace, dbVars
    <2>4. CASE RouteReturns(p)
      <3>1. routePc'[p] = "done" /\ bst[p] # "none" /\ UNCHANGED <<wire, signalRow>>
        BY <2>4, <1>0 DEF RouteReturns
      <3>2. PICK st \in {"submitted", MapStatus(bst[p])} : orderRow' = [orderRow EXCEPT ![p] = st]
        BY <2>4 DEF RouteReturns
      <3>3. st # "none"
        BY <3>1 DEF MapStatus
      <3>4. orderRow'[p] = st
        BY <3>2, <1>0
      <3>5. p \in signalRow
        BY <2>4, <1>1 DEF RouteReturns
      <3> QED BY <3>1, <3>3, <3>4, <3>5, <1>2
    <2>5. CASE RouteFails(p)
      BY <2>0, <2>5, <1>0, <1>1, <1>2 DEF RouteFails, dbVars
    <2> QED BY <2>1, <2>2, <2>3, <2>4, <2>5 DEF RouteStep
  <1> QED BY <1>2, <1>3, <1>4, OrdersAssumption DEF RoutingHolds

\* So do the broker's steps.
LEMMA RoutingBrokerStep ==
  ASSUME IInv, RoutingHolds, NEW p \in Orders, BrokerStep(p)
  PROVE  RoutingHolds'
  <1>1. UNCHANGED <<routePc, signalRow, orderRow, stage>>
    BY DEF BrokerStep, BrokerAccept, BrokerAcceptExternal, BrokerAcceptBracket, WireLost, BrokerFill,
           BrokerEnds, routeVars, dbVars
  <1>2. wire' \subseteq wire
    BY DEF BrokerStep, BrokerAccept, BrokerAcceptExternal, BrokerAcceptBracket, WireLost, BrokerFill, BrokerEnds
  <1>3. ASSUME NEW o \in Routed, bst'[o] # "none" PROVE bst[o] # "none" \/ o \in wire
    <2> USE OrdersAssumption
    <2>1. bst \in [Orders -> BrokerStatus]
      BY DEF IInv, TypeOK, BrokerTypes
    <2>2. CASE BrokerAccept(p)
      BY <1>3, <2>1, <2>2 DEF BrokerAccept, Accept
    <2>3. CASE p \in External /\ BrokerAcceptExternal(p)
      BY <1>3, <2>1, <2>3 DEF BrokerAcceptExternal, Accept, External
    <2>4. CASE BrokerAcceptBracket(p)
      BY <1>3, <2>1, <2>4 DEF BrokerAcceptBracket, Accept
    <2>5. CASE WireLost(p)
      BY <1>3, <2>5 DEF WireLost, brokerVars
    <2>6. CASE BrokerFill(p)
      BY <1>3, <2>1, <2>6 DEF BrokerFill
    <2>7. CASE \E st \in {"cancelled", "rejected"} : BrokerEnds(p, st)
      BY <1>3, <2>1, <2>7 DEF BrokerEnds
    <2> QED BY <2>2, <2>3, <2>4, <2>5, <2>6, <2>7 DEF BrokerStep
  <1>4. \A o \in Routed : bst[o] # "none" => bst'[o] # "none"
    BY BrokerSteps DEF OrderStep
  <1> QED BY <1>1, <1>2, <1>3, <1>4 DEF RoutingHolds

\* So do the steps of the handler: a group is sent for an entry with a row.
LEMMA RoutingHandlerStep ==
  ASSUME IInv, RoutingHolds, NEW p \in Orders, HandlerStep(p) \/ CommitFails(p) \/ BearerFails(p)
  PROVE  RoutingHolds'
  <1> USE OrdersAssumption
  <1>0. /\ stage \in [Orders -> {"none", "patch", "position", "bearer", "post"}]
        /\ orderRow \in [Orders -> RowStatus]
    BY DEF IInv, TypeOK, StreamTypes, RowTypes
  <1>1. UNCHANGED <<routePc, signalRow, bst>>
    BY DEF HandlerStep, SkipFill, RecordFill, PatchStatus, PatchFill, PostPosition, BracketSend,
           BracketReturns, CommitFails, BearerFails, routeVars, brokerVars
  <1>2. \A o \in Orders : orderRow'[o] # "none" <=> orderRow[o] # "none"
    <2>1. CASE PatchStatus(p)
      <3>1. EventRow(Head(chan[p])) # "none"
        <4>1. Consume(p) /\ chan[p] # <<>> /\ UNCHANGED bfill
          BY <2>1 DEF PatchStatus, Readable, brokerVars
        <4>2. Head(chan[p]) \in Event
          BY <4>1, ConsumeTrue
        <4> QED BY <4>2 DEF Event, EventStatus, EventRow
      <3> QED BY <3>1, <2>1, <1>0 DEF PatchStatus, PatchRow
    <2>2. CASE PatchFill(p)
      BY <2>2, <1>0 DEF PatchFill, PatchRow
    <2>3. CASE ~PatchStatus(p) /\ ~PatchFill(p)
      BY <2>3 DEF HandlerStep, SkipFill, RecordFill, PostPosition, BracketSend, BracketReturns, CommitFails,
                  BearerFails, dbVars
    <2> QED BY <2>1, <2>2, <2>3
  <1>3. wire' = wire \/ (wire' = wire \cup {p} /\ stage[p] = "bearer")
    BY DEF HandlerStep, SkipFill, RecordFill, PatchStatus, PatchFill, PostPosition, BracketSend,
           BracketReturns, CommitFails, BearerFails
  <1>4. stage[p] = "bearer" => p \in Routed /\ routePc[p] = "done"
    BY DEF RoutingHolds
  <1>5. ASSUME NEW o \in Orders, stage'[o] = "bearer" PROVE o \in Entries /\ orderRow[o] # "none"
    <2>1. CASE stage[o] = "bearer"
      BY <2>1 DEF RoutingHolds
    <2>2. CASE stage[o] # "bearer"
      <3>1. PostPosition(o)
        BY <2>2, <1>0, <1>5 DEF HandlerStep, SkipFill, RecordFill, PatchStatus, PatchFill, PostPosition,
                                BracketSend, BracketReturns, CommitFails, BearerFails
      <3> QED BY <3>1, <1>0, <1>5 DEF PostPosition
    <2> QED BY <2>1, <2>2
  <1> QED BY <1>1, <1>2, <1>3, <1>4, <1>5 DEF RoutingHolds

LEMMA RoutingStep ==
  ASSUME IInv, RoutingHolds, [Next]_vars
  PROVE  RoutingHolds'
  <1>1. ASSUME NEW a \in Accounts, ConnectionStep(a) PROVE RoutingHolds'
    <2>1. UNCHANGED <<routePc, signalRow, orderRow, stage, bst, wire>>
      BY <1>1 DEF ConnectionStep, BeginConnect, OpenStream, InactivityTimeout, ReceiveEOS, DropStream,
                  routeVars, brokerVars, dbVars
    <2> QED BY <2>1 DEF RoutingHolds
  <1>2. CASE Crash
    <2>1. /\ \A o \in Routed : routePc'[o] = IF routePc[o] \in {"checking", "placing"} THEN "lost" ELSE routePc[o]
          /\ \A o \in Orders : stage'[o] = "none"
          /\ UNCHANGED <<wire, bst, orderRow, signalRow>>
      BY <1>2 DEF Crash, brokerVars, dbVars
    <2> QED BY <2>1 DEF RoutingHolds
  <1>3. CASE Restart \/ UNCHANGED vars
    <2>1. UNCHANGED <<routePc, signalRow, orderRow, stage, bst, wire>>
      BY <1>3 DEF Restart, vars, routeVars, brokerVars, dbVars
    <2> QED BY <2>1 DEF RoutingHolds
  <1> QED BY <1>1, <1>2, <1>3, RoutingRouteStep, RoutingBrokerStep, RoutingHandlerStep DEF Next

\* What OneGroup says of one entry.
OneGroupOf(e) ==
  /\ stage[e] # "none" => fillRow[e].kind # "none"
  /\ GroupSent(e) => fillRow[e].kind # "none" /\ stage[e] \notin {"patch", "position", "bearer"}
  /\ legQty[e] # 0 => /\ fillRow[e].kind # "none" /\ stage[e] \notin {"patch", "position", "bearer"}
                      /\ ~GroupSent(e)

\* A step that sends or accepts no group of an entry, and does not start
\* over with its fill, keeps that.
LEMMA GroupFrame ==
  ASSUME NEW e \in Entries, OneGroupOf(e),
         legQty'[e] = legQty[e], fillRow'[e] = fillRow[e],
         GroupSent(e)' => GroupSent(e),
         stage'[e] # "none" => stage[e] # "none",
         stage'[e] \in {"patch", "position", "bearer"} => stage[e] \in {"patch", "position", "bearer"}
  PROVE  OneGroupOf(e)'
  BY DEF OneGroupOf

\* An order goes on the wire before the broker has it.
LEMMA GroupRouteStep ==
  ASSUME IInv, RoutingHolds, NEW e \in Entries, OneGroupOf(e), NEW p \in Routed, RouteStep(p)
  PROVE  OneGroupOf(e)'
  <1>1. UNCHANGED <<legQty, fillRow, stage, bst>>
    BY DEF RouteStep, RouteStart, RouteBlocked, RoutePlace, RouteReturns, RouteFails, brokerVars, dbVars
  <1>2. GroupSent(e)' => GroupSent(e)
    <2>1. CASE RoutePlace(p)
      <3>1. bst[p] = "none" /\ wire' = wire \cup {p}
        BY <2>1 DEF RoutePlace, RoutingHolds
      <3> QED BY <3>1, <1>1 DEF GroupSent
    <2>2. CASE ~RoutePlace(p)
      <3>1. wire' = wire
        BY <2>2 DEF RouteStep, RouteStart, RouteBlocked, RouteReturns, RouteFails
      <3> QED BY <3>1, <1>1 DEF GroupSent
    <2> QED BY <2>1, <2>2
  <1> QED BY <1>1, <1>2, GroupFrame

\* The broker takes a group once, for what the entry had executed.
LEMMA GroupBrokerStep ==
  ASSUME IInv, NEW e \in Entries, OneGroupOf(e), legQty[e] <= bfill[e], NEW p \in Orders, BrokerStep(p)
  PROVE  OneGroupOf(e)' /\ legQty'[e] <= bfill'[e]
  <1> USE OrdersAssumption
  <1>0. /\ bst \in [Orders -> BrokerStatus] /\ legQty \in [Entries -> Nat]
        /\ bfill[e] \in Nat /\ legQty[e] \in Nat /\ bfill'[e] \in Nat
        /\ fillRow[e].qty \in Nat /\ fillRow[e].qty <= bfill[e]
    <2>1. IInv'
      <3>1. [Next]_vars
        BY DEF Next
      <3> QED BY <3>1, InvStep
    <2>2. bst \in [Orders -> BrokerStatus] /\ legQty \in [Entries -> Nat] /\ bfill' \in [Orders -> Nat]
      BY <2>1 DEF IInv, TypeOK, BrokerTypes
    <2>3. legQty[e] \in Nat /\ bfill'[e] \in Nat
      BY <2>2
    <2> QED BY <2>2, <2>3, ChannelTyped
  <1>1. UNCHANGED <<fillRow, stage>>
    BY DEF BrokerStep, BrokerAccept, BrokerAcceptExternal, BrokerAcceptBracket, WireLost, BrokerFill,
           BrokerEnds, dbVars
  <1>2. bfill[e] <= bfill'[e]
    BY BrokerSteps
  <1>3. CASE p = e /\ BrokerAcceptBracket(p)
    <2>1. GroupSent(e) /\ legQty[e] = 0
      BY <1>3 DEF BrokerAcceptBracket, GroupSent, OneGroupOf
    <2>2. legQty'[e] = fillRow[e].qty /\ e \notin wire'
      BY <1>3, <2>1, <1>0 DEF BrokerAcceptBracket
    <2>3. OneGroupOf(e)'
      BY <2>1, <2>2, <1>1 DEF OneGroupOf, GroupSent
    <2> QED BY <2>2, <2>3, <1>0, <1>2
  <1>4. CASE ~(p = e /\ BrokerAcceptBracket(p))
    <2>1. legQty'[e] = legQty[e]
      BY <1>4, <1>0 DEF BrokerStep, BrokerAccept, BrokerAcceptExternal, BrokerAcceptBracket, WireLost,
                        BrokerFill, BrokerEnds, brokerVars
    <2>2. GroupSent(e)' => GroupSent(e)
      <3> SUFFICES ASSUME e \in wire', bst'[e] # "none" PROVE e \in wire /\ bst[e] # "none"
        BY DEF GroupSent
      <3>1. e \in wire
        BY DEF BrokerStep, BrokerAccept, BrokerAcceptExternal, BrokerAcceptBracket, WireLost, BrokerFill,
               BrokerEnds
      <3>2. CASE BrokerAccept(p)
        BY <3>2, <1>0 DEF BrokerAccept, Accept
      <3>3. CASE p \in External /\ BrokerAcceptExternal(p)
        BY <3>3, <1>0 DEF BrokerAcceptExternal, Accept, External
      <3>4. CASE BrokerAcceptBracket(p)
        BY <3>4, <1>0 DEF BrokerAcceptBracket, Accept
      <3>5. CASE WireLost(p)
        BY <3>5 DEF WireLost, brokerVars
      <3>6. CASE BrokerFill(p)
        BY <3>6, <1>0 DEF BrokerFill
      <3>7. CASE \E st \in {"cancelled", "rejected"} : BrokerEnds(p, st)
        BY <3>7, <1>0 DEF BrokerEnds
      <3> QED BY <3>1, <3>2, <3>3, <3>4, <3>5, <3>6, <3>7 DEF BrokerStep
    <2>3. OneGroupOf(e)'
      BY <2>1, <2>2, <1>1, GroupFrame
    <2> QED BY <2>1, <2>3, <1>0, <1>2
  <1> QED BY <1>3, <1>4

\* The handler sends a group once, after the first and only fill it records.
LEMMA GroupHandlerStep ==
  ASSUME IInv, NEW e \in Entries, OneGroupOf(e), NEW p \in Orders,
         HandlerStep(p) \/ CommitFails(p) \/ BearerFails(p)
  PROVE  OneGroupOf(e)'
  <1> USE OrdersAssumption
  <1>0. /\ stage \in [Orders -> {"none", "patch", "position", "bearer", "post"}]
        /\ fillRow \in [Orders -> [kind : FillKind, qty : Nat]]
    BY DEF IInv, TypeOK, StreamTypes, RowTypes
  <1>1. UNCHANGED <<legQty, bst>>
    BY DEF HandlerStep, SkipFill, RecordFill, PatchStatus, PatchFill, PostPosition, BracketSend,
           BracketReturns, CommitFails, BearerFails, brokerVars
  <1>2. CASE p = e /\ RecordFill(p)
    <2>1. legQty[e] = 0 /\ ~GroupSent(e)
      BY <1>2 DEF RecordFill, NoFill, OneGroupOf
    <2>2. UNCHANGED wire /\ fillRow'[e].kind # "none"
      BY <1>2, <1>0 DEF RecordFill
    <2> QED BY <2>1, <2>2, <1>1 DEF OneGroupOf, GroupSent
  <1>3. CASE p = e /\ BracketSend(p)
    <2>1. legQty[e] = 0 /\ fillRow[e].kind # "none"
      BY <1>3 DEF BracketSend, OneGroupOf
    <2>2. stage'[e] = "post" /\ UNCHANGED fillRow
      BY <1>3, <1>0 DEF BracketSend, dbVars
    <2> QED BY <2>1, <2>2, <1>1 DEF OneGroupOf
  <1>4. CASE ~(p = e /\ (RecordFill(p) \/ BracketSend(p)))
    <2>1. fillRow'[e] = fillRow[e] /\ (e \in wire' => e \in wire)
      BY <1>4, <1>0 DEF HandlerStep, SkipFill, RecordFill, PatchStatus, PatchFill, PostPosition, BracketSend,
                        BracketReturns, CommitFails, BearerFails, dbVars
    <2>2. /\ stage'[e] # "none" => stage[e] # "none"
          /\ stage'[e] \in {"patch", "position", "bearer"} => stage[e] \in {"patch", "position", "bearer"}
      BY <1>4, <1>0 DEF HandlerStep, SkipFill, RecordFill, PatchStatus, PatchFill, PostPosition, BracketSend,
                        BracketReturns, CommitFails, BearerFails
    <2>3. GroupSent(e)' => GroupSent(e)
      BY <2>1, <1>1 DEF GroupSent
    <2> QED BY <2>1, <2>2, <2>3, <1>1, GroupFrame
  <1> QED BY <1>2, <1>3, <1>4

\* A leg executes within its group.
LEMMA LegStep ==
  ASSUME IInv, [Next]_vars, NEW l \in Legs, bfill[l] <= legQty[ParentOf[l]]
  PROVE  bfill'[l] <= legQty'[ParentOf[l]]
  <1> USE OrdersAssumption, AttributesAssumption
  <1>0. ParentOf[l] \in Entries
    OBVIOUS
  <1>1. /\ bfill \in [Orders -> Nat] /\ legQty \in [Entries -> Nat]
        /\ bfill[l] \in Nat /\ legQty[ParentOf[l]] \in Nat /\ legQty'[ParentOf[l]] \in Nat
    <2>1. bfill \in [Orders -> Nat] /\ legQty \in [Entries -> Nat] /\ legQty' \in [Entries -> Nat]
      BY InvStep DEF IInv, TypeOK, BrokerTypes
    <2> QED BY <2>1, <1>0
  <1>2. ASSUME NEW p \in Orders, BrokerStep(p) PROVE bfill'[l] <= legQty'[ParentOf[l]]
    <2>1. CASE BrokerFill(p)
      <3>0. legQty' = legQty /\ bfill' = [bfill EXCEPT ![p] = @ + 1] /\ bfill[p] < Cap(p)
        BY <2>1 DEF BrokerFill
      <3>1. CASE p = l
        <4>1. Cap(p) = legQty[ParentOf[l]] /\ bfill'[l] = bfill[l] + 1
          BY <3>0, <3>1, <1>1 DEF Cap
        <4> QED BY <4>1, <3>0, <3>1, <1>1
      <3>2. CASE p # l
        BY <3>0, <3>2, <1>1
      <3> QED BY <3>1, <3>2
    <2>2. CASE ~BrokerFill(p)
      <3>1. bfill' = bfill
        BY <1>2, <2>2 DEF BrokerStep, BrokerAccept, BrokerAcceptExternal, BrokerAcceptBracket, WireLost,
                          BrokerEnds, Accept, brokerVars
      <3>2. legQty[ParentOf[l]] <= legQty'[ParentOf[l]]
        <4>1. CASE p \in Entries /\ BrokerAcceptBracket(p)
          <5>1. legQty' = [legQty EXCEPT ![p] = @ + fillRow[p].qty] /\ fillRow[p].qty \in Nat
            BY <4>1, ChannelTyped DEF BrokerAcceptBracket
          <5> QED BY <5>1, <1>0, <1>1
        <4>2. CASE ~(p \in Entries /\ BrokerAcceptBracket(p))
          <5>1. legQty' = legQty
            BY <1>2, <4>2 DEF BrokerStep, BrokerAccept, BrokerAcceptExternal, WireLost, BrokerFill,
                              BrokerEnds, brokerVars
          <5> QED BY <5>1, <1>1
        <4> QED BY <4>1, <4>2
      <3> QED BY <3>1, <3>2, <1>1
    <2> QED BY <2>1, <2>2
  <1>3. CASE \A p \in Orders : ~BrokerStep(p)
    BY <1>3, OtherSteps
  <1> QED BY <1>2, <1>3

LEMMA GroupStep ==
  ASSUME IInv, RoutingHolds, OneGroup, BracketWithinEntry, [Next]_vars
  PROVE  OneGroup' /\ BracketWithinEntry'
  <1>1. ASSUME NEW e \in Entries PROVE OneGroupOf(e)' /\ legQty'[e] <= bfill'[e]
    <2>0. OneGroupOf(e) /\ legQty[e] <= bfill[e]
      BY DEF OneGroup, OneGroupOf, BracketWithinEntry
    <2>1. CASE \E p \in Orders : BrokerStep(p)
      BY <2>0, <2>1, GroupBrokerStep
    <2>2. CASE \A p \in Orders : ~BrokerStep(p)
      <3>1. legQty'[e] <= bfill'[e]
        BY <2>0, <2>2, OtherSteps
      <3>2. OneGroupOf(e)'
        <4>1. ASSUME NEW a \in Accounts, ConnectionStep(a) PROVE OneGroupOf(e)'
          <5>1. UNCHANGED <<legQty, fillRow, stage, bst, wire>>
            BY <4>1 DEF ConnectionStep, BeginConnect, OpenStream, InactivityTimeout, ReceiveEOS, DropStream,
                        brokerVars, dbVars
          <5> QED BY <5>1, <2>0, GroupFrame DEF GroupSent
        <4>2. CASE Crash
          <5>1. UNCHANGED <<legQty, fillRow, bst, wire>> /\ stage'[e] = "none"
            BY <4>2, OrdersAssumption DEF Crash, brokerVars, dbVars
          <5> QED BY <5>1, <2>0, GroupFrame DEF GroupSent
        <4>3. CASE Restart \/ UNCHANGED vars
          <5>1. UNCHANGED <<legQty, fillRow, stage, bst, wire>>
            BY <4>3 DEF Restart, vars, brokerVars, dbVars
          <5> QED BY <5>1, <2>0, GroupFrame DEF GroupSent
        <4> QED BY <2>0, <2>2, <4>1, <4>2, <4>3, GroupRouteStep, GroupHandlerStep DEF Next
      <3> QED BY <3>1, <3>2
    <2> QED BY <2>1, <2>2
  <1>2. ASSUME NEW l \in Legs PROVE bfill'[l] <= legQty'[ParentOf[l]]
    <2>1. ParentOf[l] \in Entries
      BY AttributesAssumption
    <2>2. bfill[l] <= legQty[ParentOf[l]]
      BY <2>1 DEF BracketWithinEntry
    <2> QED BY <2>2, LegStep
  <1> QED BY <1>1, <1>2 DEF OneGroup, OneGroupOf, BracketWithinEntry

-----------------------------------------------------------------------------
(* The invariant and the theorems *)

LEMMA InitRowInv == Init => RowInv
  <1> SUFFICES ASSUME Init PROVE RowInv
    OBVIOUS
  <1> USE OrdersAssumption, AttributesAssumption
  <1>1. RoutingHolds /\ EndsTrue /\ ExecutedWithinOrder /\ FilledTrue /\ EventsGrow
    BY DEF Init, RoutingHolds, EndsTrue, ExecutedWithinOrder, FilledTrue, EventsGrow
  <1>2. OneGroup /\ BracketWithinEntry
    BY DEF Init, OneGroup, GroupSent, BracketWithinEntry
  <1> QED BY <1>1, <1>2, InitIInv DEF RowInv

LEMMA RowInvStep == RowInv /\ [Next]_vars => RowInv'
  BY InvStep, RoutingStep, ExecutedStep, EndsStep, GrowStep, GroupStep DEF RowInv

LEMMA RowInvariance == Spec => []RowInv
  BY InitRowInv, RowInvStep, PTL DEF Spec

\* Whatever was replayed, retried or raced, an order row shows the end the
\* broker's order came to, or filled for one whose fill was recorded with a
\* part of it executed (log_order, _patch_execution_order).
THEOREM RowsFollowBroker == Spec => []RowFollowsBroker
  <1>1. RowInv => RowFollowsBroker
    <2> SUFFICES ASSUME RowInv, NEW o \in Orders, orderRow[o] # "none"
                 PROVE  /\ orderRow[o] = "filled" => bst[o] = "filled" \/ RecordedInPart(o)
                        /\ orderRow[o] \in {"cancelled", "rejected"} => bst[o] = orderRow[o]
                        /\ bst[o] # "none"
      BY DEF RowFollowsBroker
    <2>1. o \in Routed
      BY DEF RowInv, IInv, NothingWithoutRow
    <2> QED BY <2>1 DEF RowInv, RoutingHolds, EndsTrue, FilledTrue
  <1> QED BY <1>1, RowInvariance, PTL

\* Every order route() got to the broker has its signal logged, and its
\* order row unless route() failed or died while it placed it; a signal that
\* was refused reaches no broker (OrderRouter.route).
THEOREM AuditComplete == Spec => []AuditTrail
  <1>1. RowInv => AuditTrail
    BY DEF RowInv, RoutingHolds, AuditTrail
  <1> QED BY <1>1, RowInvariance, PTL

\* An entry gets at most one OCO group, of no more than it executed, and the
\* legs execute no more than that, across replays, reconnections and
\* restarts (_record_fill, _place_oco_bracket).
THEOREM GroupWithinEntry == Spec => []BracketWithinEntry
  <1>1. RowInv => BracketWithinEntry
    BY DEF RowInv
  <1> QED BY <1>1, RowInvariance, PTL

\* An order whose fill is recorded and whose row shows filled stays filled:
\* no event that is still to come is anything but a fill
\* (_enrich_fill_from_raw before _classify_update).
THEOREM FilledStaysFilled == Spec => FilledIsFinal
  <1>1. ASSUME RowInv, [Next]_vars, NEW o \in Orders, fillRow[o] # NoFill, orderRow[o] = "filled"
        PROVE  orderRow'[o] = "filled"
    <2>0. IInv
      BY <1>1 DEF RowInv
    <2>1. ~(o \in Routed /\ RouteReturns(o))
      BY <1>1 DEF RouteReturns, RowInv, RoutingHolds
    <2>2. ~PatchStatus(o)
      <3> SUFFICES ASSUME PatchStatus(o) PROVE FALSE
        OBVIOUS
      <3>1. chan[o] \in Seq(Event) /\ chan[o] # <<>> /\ ~IsFill(Head(chan[o]))
        BY <2>0, ChannelTyped DEF PatchStatus, Readable
      <3>2. Head(chan[o]) = chan[o][1] /\ 1 \in 1..Len(chan[o])
        BY <3>1
      <3>3. fillRow[o].qty <= chan[o][1].fill
        BY <1>1, <3>2 DEF RowInv, EventsGrow
      <3>4. fillRow[o].kind # "none"
        BY <1>1, <2>0 DEF IInv, NothingWithoutRow
      <3>5. fillRow[o].qty > 0 /\ fillRow[o].qty \in Nat /\ chan[o][1].fill \in Nat
        BY <2>0, <3>2, <3>4, ChannelTyped DEF IInv, LedgerWithinBroker
      <3> QED BY <3>1, <3>2, <3>3, <3>5 DEF IsFill
    <2> QED BY <1>1, <2>0, <2>1, <2>2, RowSteps
  <1>2. RowInv /\ [Next]_vars =>
          [\A o \in Orders : fillRow[o] # NoFill /\ orderRow[o] = "filled" => orderRow'[o] = "filled"]_vars
    BY <1>1
  <1> QED BY <1>2, RowInvariance, PTL DEF Spec, FilledIsFinal
=============================================================================
