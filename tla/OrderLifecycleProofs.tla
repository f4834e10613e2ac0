------------------------ MODULE OrderLifecycleProofs ------------------------
(***************************************************************************)
(* Theorems about OrderLifecycle, for any sets of orders and accounts and  *)
(* any number of crashes and stream failures.                              *)
(***************************************************************************)
EXTENDS OrderLifecycle, SumTheorems, SequenceTheorems, TLAPS

\* What an event in the stream says of its order is true of the broker.
EventsTrue ==
  \A o \in Orders : \A i \in 1 .. Len(chan[o]) :
    /\ chan[o][i].fill <= bfill[o]
    /\ chan[o][i].st = "filled" => chan[o][i].fill > 0

\* Only an executed order is filled.
FilledHasQuantity == \A o \in Orders : bst[o] = "filled" => bfill[o] > 0

\* A handler between its commits holds a recorded, unposted fill that no
\* tracker state exists for yet; only live fills go on to be posted.
HandlerHoldsFill ==
  \A o \in Orders :
    /\ stage[o] \in {"patch", "position"} => /\ fillRow[o].kind # "none"
                                             /\ o \notin posted
                                             /\ cum[o] = 0
    /\ stage[o] = "position" => fillRow[o].kind = "live"

\* An order without a fill row was never counted, and only routed orders
\* have an order row.
NothingWithoutRow ==
  \A o \in Orders :
    /\ fillRow[o].kind = "none" => fillRow[o] = NoFill /\ cum[o] = 0
    /\ orderRow[o] # "none" => o \in Routed

\* The inductive invariant.
IInv == /\ TypeOK
        /\ EventsTrue
        /\ FilledHasQuantity
        /\ HandlerHoldsFill
        /\ NothingWithoutRow
        /\ LedgerWithinBroker
        /\ TrackerWithinLedger

-----------------------------------------------------------------------------
\* The initial states satisfy the type invariant and the rest of IInv.
LEMMA InitIInv == Init => IInv
  <1> SUFFICES ASSUME Init PROVE IInv
    OBVIOUS
  <1> USE OrdersAssumption, AttributesAssumption, BoundsAssumption
  <1>1. TypeOK
    <2>1. ProcessTypes /\ RouteTypes /\ BrokerTypes
      BY DEF Init, ProcessTypes, RouteTypes, BrokerTypes, BrokerStatus
    <2>2. StreamTypes
      BY DEF Init, StreamTypes
    <2>3. RowTypes /\ MemoryTypes
      BY DEF Init, RowTypes, MemoryTypes, RowStatus, FillKind, NoFill
    <2> QED BY <2>1, <2>2, <2>3 DEF TypeOK
  <1>2. EventsTrue /\ FilledHasQuantity /\ HandlerHoldsFill /\ NothingWithoutRow
    BY DEF Init, EventsTrue, FilledHasQuantity, HandlerHoldsFill, NothingWithoutRow, NoFill
  <1>3. LedgerWithinBroker /\ TrackerWithinLedger
    BY DEF Init, LedgerWithinBroker, TrackerWithinLedger, NoFill
  <1> QED BY <1>1, <1>2, <1>3 DEF IInv

-----------------------------------------------------------------------------
\* The groups of variables a step leaves alone keep their types.
LEMMA Frame ==
  ASSUME TypeOK
  PROVE  /\ UNCHANGED <<up, accountRow, wire, bounds>> => ProcessTypes'
         /\ UNCHANGED routeVars => RouteTypes'
         /\ UNCHANGED brokerVars => BrokerTypes'
         /\ UNCHANGED <<streamVars, chan, stage>> => StreamTypes'
         /\ UNCHANGED dbVars => RowTypes'
         /\ UNCHANGED memVars => MemoryTypes'
  <1>1. UNCHANGED <<up, accountRow, wire, bounds>> => ProcessTypes'
    BY DEF TypeOK, ProcessTypes, bounds
  <1>2. UNCHANGED routeVars => RouteTypes'
    BY DEF TypeOK, RouteTypes, routeVars
  <1>3. UNCHANGED brokerVars => BrokerTypes'
    BY DEF TypeOK, BrokerTypes, brokerVars
  <1>4. UNCHANGED <<streamVars, chan, stage>> => StreamTypes'
    BY DEF TypeOK, StreamTypes, streamVars
  <1>5. UNCHANGED dbVars => RowTypes'
    BY DEF TypeOK, RowTypes, dbVars
  <1>6. UNCHANGED memVars => MemoryTypes'
    BY DEF TypeOK, MemoryTypes, memVars
  <1> QED BY <1>1, <1>2, <1>3, <1>4, <1>5, <1>6

\* The events the broker makes of an order it has are well formed.
LEMMA EventType ==
  ASSUME NEW st \in BrokerStatus, st # "none", NEW q \in Nat, NEW b \in BOOLEAN
  PROVE  [st |-> MapStatus(st), fill |-> q, snap |-> b] \in Event
  BY DEF BrokerStatus, RowStatus, EventStatus, Event, MapStatus

\* Appending such events keeps the type of the channels.
LEMMA EmitType ==
  ASSUME chan \in [Orders -> Seq(Event)],
         NEW S, Emit(S),
         bst' \in [Orders -> BrokerStatus], bfill' \in [Orders -> Nat],
         \A o \in Orders : o \in S => bst'[o] # "none"
  PROVE  chan' \in [Orders -> Seq(Event)]
  <1>1. ASSUME NEW o \in Orders, o \in S
        PROVE  Append(chan[o], [st |-> MapStatus(bst'[o]), fill |-> bfill'[o], snap |-> FALSE])
                 \in Seq(Event)
    <2>1. [st |-> MapStatus(bst'[o]), fill |-> bfill'[o], snap |-> FALSE] \in Event
      BY <1>1, EventType
    <2> QED BY <2>1, AppendProperties
  <1> QED BY <1>1 DEF Emit

\* Reading an event keeps the type of the channels.
LEMMA ConsumeType ==
  ASSUME chan \in [Orders -> Seq(Event)], NEW o \in Orders, Consume(o), chan[o] # <<>>
  PROVE  /\ chan' \in [Orders -> Seq(Event)]
         /\ Head(chan[o]) \in Event
  <1>1. Tail(chan[o]) \in Seq(Event) /\ Head(chan[o]) \in Event
    BY HeadTailProperties
  <1> QED BY <1>1 DEF Consume

\* Losing the connection of an account keeps the types.
LEMMA DisconnectType ==
  ASSUME TypeOK, NEW a \in Accounts, Disconnect(a)
  PROVE  /\ conn' \in [Accounts -> {"down", "opening", "open"}]
         /\ eos' \in [Accounts -> BOOLEAN]
         /\ chan' \in [Orders -> Seq(Event)]
         /\ drops' \in Nat
  <1>1. chan \in [Orders -> Seq(Event)] /\ <<>> \in Seq(Event)
    BY DEF TypeOK, StreamTypes
  <1>2. chan' \in [Orders -> Seq(Event)]
    BY <1>1 DEF Disconnect
  <1>3. conn' \in [Accounts -> {"down", "opening", "open"}] /\ eos' \in [Accounts -> BOOLEAN]
    BY DEF Disconnect, TypeOK, StreamTypes
  <1>4. drops' \in Nat
    BY DEF Disconnect, TypeOK, ProcessTypes
  <1> QED BY <1>2, <1>3, <1>4

\* The routing steps preserve the type invariant.
LEMMA RouteTypeStep ==
  ASSUME TypeOK, NEW o \in Routed, RouteStep(o)
  PROVE  TypeOK'
  <1> USE OrdersAssumption, Frame
  <1>1. CASE RouteStart(o) \/ RouteBlocked(o) \/ RouteFails(o)
    <2>1. RouteTypes'
      BY <1>1 DEF RouteStart, RouteBlocked, RouteFails, TypeOK, RouteTypes
    <2> QED BY <1>1, <2>1 DEF RouteStart, RouteBlocked, RouteFails, TypeOK
  <1>2. CASE RoutePlace(o)
    <2>1. RouteTypes'
      BY <1>2 DEF RoutePlace, TypeOK, RouteTypes
    <2>2. ProcessTypes'
      BY <1>2 DEF RoutePlace, TypeOK, ProcessTypes, bounds
    <2> QED BY <1>2, <2>1, <2>2 DEF RoutePlace, TypeOK
  <1>3. CASE RouteReturns(o)
    <2>1. RouteTypes'
      BY <1>3 DEF RouteReturns, TypeOK, RouteTypes
    <2>2. {"submitted", MapStatus(bst[o])} \subseteq RowStatus
      BY DEF TypeOK, BrokerTypes, BrokerStatus, RowStatus, MapStatus
    <2>3. RowTypes'
      BY <1>3, <2>2 DEF RouteReturns, TypeOK, RowTypes
    <2> QED BY <1>3, <2>1, <2>3 DEF RouteReturns, TypeOK
  <1> QED BY <1>1, <1>2, <1>3 DEF RouteStep

\* The broker's steps preserve the type invariant.
LEMMA BrokerTypeStep ==
  ASSUME TypeOK, NEW o \in Orders, BrokerStep(o)
  PROVE  TypeOK'
  <1> USE OrdersAssumption, AttributesAssumption, Frame
  <1>1. ASSUME NEW S, Emit(S), bst' \in [Orders -> BrokerStatus], bfill' \in [Orders -> Nat],
               \A p \in Orders : p \in S => bst'[p] # "none",
               UNCHANGED <<stage, streamVars>>
        PROVE  StreamTypes'
    BY <1>1, EmitType DEF TypeOK, StreamTypes, streamVars
  <1>2. ASSUME NEW S, Accept(S), UNCHANGED <<stage, streamVars>>
        PROVE  /\ StreamTypes'
               /\ bst' \in [Orders -> BrokerStatus]
               /\ bfill' \in [Orders -> Nat]
    <2>1. bst' \in [Orders -> BrokerStatus] /\ bfill' \in [Orders -> Nat]
      BY <1>2 DEF Accept, TypeOK, BrokerTypes, BrokerStatus
    <2> QED BY <1>1, <1>2, <2>1 DEF Accept
  <1>3. CASE o \in Routed /\ BrokerAccept(o)
    <2>1. ProcessTypes'
      BY <1>3 DEF BrokerAccept, TypeOK, ProcessTypes, bounds
    <2>2. StreamTypes' /\ BrokerTypes'
      BY <1>2, <1>3 DEF BrokerAccept, TypeOK, BrokerTypes
    <2> QED BY <1>3, <2>1, <2>2 DEF BrokerAccept, TypeOK
  <1>4. CASE o \in External /\ BrokerAcceptExternal(o)
    <2>1. StreamTypes' /\ BrokerTypes'
      BY <1>2, <1>4 DEF BrokerAcceptExternal, TypeOK, BrokerTypes
    <2> QED BY <1>4, <2>1 DEF BrokerAcceptExternal, TypeOK
  <1>5. CASE o \in Entries /\ BrokerAcceptBracket(o)
    <2>1. ProcessTypes'
      BY <1>5 DEF BrokerAcceptBracket, TypeOK, ProcessTypes, bounds
    <2>2. legQty' \in [Entries -> Nat]
      BY <1>5 DEF BrokerAcceptBracket, TypeOK, BrokerTypes, RowTypes
    <2>3. StreamTypes' /\ BrokerTypes'
      BY <1>2, <1>5, <2>2 DEF BrokerAcceptBracket, BrokerTypes
    <2> QED BY <1>5, <2>1, <2>3 DEF BrokerAcceptBracket, TypeOK
  <1>6. CASE WireLost(o)
    <2>1. ProcessTypes'
      BY <1>6 DEF WireLost, TypeOK, ProcessTypes, bounds
    <2> QED BY <1>6, <2>1 DEF WireLost, TypeOK
  <1>7. CASE BrokerFill(o)
    <2>1. bst' \in [Orders -> BrokerStatus] /\ bfill' \in [Orders -> Nat]
      BY <1>7 DEF BrokerFill, TypeOK, BrokerTypes, BrokerStatus
    <2>2. PICK S : Emit(S) /\ \A p \in Orders : p \in S => bst'[p] # "none"
      BY <1>7 DEF BrokerFill
    <2>3. StreamTypes'
      BY <1>1, <1>7, <2>1, <2>2 DEF BrokerFill
    <2>4. BrokerTypes'
      BY <1>7, <2>1 DEF BrokerFill, TypeOK, BrokerTypes
    <2> QED BY <1>7, <2>3, <2>4 DEF BrokerFill, TypeOK
  <1>8. ASSUME NEW st \in {"cancelled", "rejected"}, BrokerEnds(o, st) PROVE TypeOK'
    <2>1. bst' \in [Orders -> BrokerStatus] /\ bfill' \in [Orders -> Nat]
      BY <1>8 DEF BrokerEnds, TypeOK, BrokerTypes, BrokerStatus
    <2>2. \A p \in Orders : p \in {o} => bst'[p] # "none"
      BY <1>8 DEF BrokerEnds, TypeOK, BrokerTypes
    <2>3. StreamTypes' /\ BrokerTypes'
      BY <1>1, <1>8, <2>1, <2>2 DEF BrokerEnds, TypeOK, BrokerTypes
    <2> QED BY <1>8, <2>3 DEF BrokerEnds, TypeOK
  <1> QED BY <1>3, <1>4, <1>5, <1>6, <1>7, <1>8 DEF BrokerStep

\* The handler's steps preserve the type invariant.
LEMMA HandlerTypeStep ==
  ASSUME TypeOK, NEW o \in Orders, HandlerStep(o) \/ CommitFails(o) \/ BearerFails(o)
  PROVE  TypeOK'
  <1> USE OrdersAssumption, AttributesAssumption, Frame
  <1>1. ASSUME Readable(o), Consume(o)
        PROVE  /\ chan' \in [Orders -> Seq(Event)]
               /\ Head(chan[o]) \in Event
    BY <1>1, ConsumeType DEF Readable, TypeOK, StreamTypes
  <1>2. CASE SkipFill(o)
    <2>1. StreamTypes'
      BY <1>1, <1>2 DEF SkipFill, TypeOK, StreamTypes, streamVars
    <2> QED BY <1>2, <2>1 DEF SkipFill, TypeOK
  <1>3. CASE RecordFill(o)
    <2>1. StreamTypes'
      BY <1>1, <1>3 DEF RecordFill, TypeOK, StreamTypes, streamVars
    <2>2. Head(chan[o]).fill \in Nat
      BY <1>1, <1>3 DEF RecordFill, Event
    <2>3. RowTypes'
      BY <1>3, <2>2 DEF RecordFill, TypeOK, RowTypes, FillKind
    <2> QED BY <1>3, <2>1, <2>3 DEF RecordFill, TypeOK
  <1>4. CASE PatchStatus(o)
    <2>1. StreamTypes'
      BY <1>1, <1>4 DEF PatchStatus, TypeOK, StreamTypes, streamVars
    <2>2. EventRow(Head(chan[o])) \in RowStatus
      BY <1>1, <1>4 DEF PatchStatus, EventRow, Event, EventStatus, RowStatus
    <2>3. RowTypes'
      BY <1>4, <2>2 DEF PatchStatus, PatchRow, TypeOK, RowTypes
    <2> QED BY <1>4, <2>1, <2>3 DEF PatchStatus, TypeOK
  <1>5. CASE PatchFill(o)
    <2>1. StreamTypes'
      BY <1>5 DEF PatchFill, TypeOK, StreamTypes, streamVars
    <2>2. RowTypes'
      BY <1>5 DEF PatchFill, PatchRow, TypeOK, RowTypes, RowStatus
    <2> QED BY <1>5, <2>1, <2>2 DEF PatchFill, TypeOK
  <1>6. CASE PostPosition(o)
    <2>1. StreamTypes'
      BY <1>6 DEF PostPosition, TypeOK, StreamTypes, streamVars
    <2>2. fillRow[o].qty \in Nat /\ Signed(o, fillRow[o].qty) \in Int
      BY DEF TypeOK, RowTypes, Signed
    <2>3. RowTypes'
      BY <1>6, <2>2 DEF PostPosition, TypeOK, RowTypes
    <2>4. cum' \in [Orders -> Nat]
      BY <1>6, <2>2 DEF PostPosition, TypeOK, MemoryTypes
    <2>5. MemoryTypes'
      BY <1>6, <2>4 DEF PostPosition, ApplyFill, TypeOK, MemoryTypes
    <2> QED BY <1>6, <2>1, <2>3, <2>5 DEF PostPosition, TypeOK
  <1>7. CASE BracketSend(o) \/ BracketReturns(o)
    <2>1. StreamTypes'
      <3>1. stage' \in [Orders -> {"none", "patch", "position", "bearer", "post"}]
        <4>1. stage' = [stage EXCEPT ![o] = "post"] \/ stage' = [stage EXCEPT ![o] = "none"]
          BY <1>7 DEF BracketSend, BracketReturns
        <4>2. ASSUME NEW v \in {"post", "none"}, stage' = [stage EXCEPT ![o] = v]
              PROVE  stage' \in [Orders -> {"none", "patch", "position", "bearer", "post"}]
          BY <4>2 DEF TypeOK, StreamTypes
        <4> QED BY <4>1, <4>2
      <3>2. UNCHANGED <<conn, phase, eos, chan>>
        BY <1>7 DEF BracketSend, BracketReturns, streamVars
      <3> QED BY <3>1, <3>2 DEF TypeOK, StreamTypes
    <2>2. ProcessTypes'
      BY <1>7 DEF BracketSend, BracketReturns, TypeOK, ProcessTypes, bounds
    <2> QED BY <1>7, <2>1, <2>2 DEF BracketSend, BracketReturns, TypeOK
  <1>8. CASE CommitFails(o) \/ BearerFails(o)
    <2>1. Disconnect(AcctOf[o]) /\ AcctOf[o] \in Accounts
      BY <1>8 DEF CommitFails, BearerFails
    <2>2. StreamTypes'
      <3>1. /\ conn' \in [Accounts -> {"down", "opening", "open"}]
            /\ eos' \in [Accounts -> BOOLEAN]
            /\ chan' \in [Orders -> Seq(Event)]
        BY <2>1, DisconnectType
      <3>2. stage' = [stage EXCEPT ![o] = "none"] /\ phase' = phase
        BY <1>8 DEF CommitFails, BearerFails
      <3> QED BY <3>1, <3>2 DEF TypeOK, StreamTypes
    <2>3. ProcessTypes'
      <3>1. UNCHANGED <<up, accountRow, wire, crashes>>
        BY <1>8 DEF CommitFails, BearerFails
      <3> QED BY <2>1, <3>1, DisconnectType DEF TypeOK, ProcessTypes
    <2>4. MemoryTypes'
      <3>1. cum' \in [Orders -> Nat]
        BY <1>8, SMTT(20) DEF CommitFails, BearerFails, TypeOK, MemoryTypes, RowTypes, memVars
      <3>2. trk' \in [Orders -> Nat]
        BY <1>8, <3>1 DEF CommitFails, BearerFails, ApplyFill, TypeOK, MemoryTypes, memVars
      <3> QED BY <3>1, <3>2 DEF MemoryTypes
    <2> QED BY <1>8, <2>2, <2>3, <2>4 DEF CommitFails, BearerFails, TypeOK
  <1> QED BY <1>2, <1>3, <1>4, <1>5, <1>6, <1>7, <1>8 DEF HandlerStep

\* Connection steps preserve the type invariant.
LEMMA ConnectionTypeStep ==
  ASSUME TypeOK, NEW a \in Accounts, ConnectionStep(a)
  PROVE  TypeOK'
  <1> USE Frame
  <1>1. CASE BeginConnect(a) \/ InactivityTimeout(a) \/ ReceiveEOS(a)
    <2>1. StreamTypes'
      BY <1>1 DEF BeginConnect, InactivityTimeout, ReceiveEOS, TypeOK, StreamTypes
    <2> QED BY <1>1, <2>1 DEF BeginConnect, InactivityTimeout, ReceiveEOS, TypeOK
  <1>2. CASE OpenStream(a)
    <2>1. ASSUME NEW o \in Orders, bst[o] # "none"
          PROVE  <<[st |-> MapStatus(bst[o]), fill |-> bfill[o], snap |-> TRUE]>> \in Seq(Event)
      <3>1. [st |-> MapStatus(bst[o]), fill |-> bfill[o], snap |-> TRUE] \in Event
        BY <2>1, EventType DEF TypeOK, BrokerTypes
      <3> QED BY <3>1
    <2>2. \A o \in Orders : chan'[o] \in Seq(Event)
      BY <1>2, <2>1 DEF OpenStream, TypeOK, StreamTypes
    <2>3. chan' \in [Orders -> Seq(Event)]
      BY <1>2, <2>2 DEF OpenStream
    <2>4. StreamTypes'
      BY <1>2, <2>3 DEF OpenStream, TypeOK, StreamTypes
    <2> QED BY <1>2, <2>4 DEF OpenStream, TypeOK
  <1>3. CASE DropStream(a)
    <2>1. StreamTypes'
      BY <1>3, DisconnectType DEF DropStream, TypeOK, StreamTypes
    <2>2. ProcessTypes'
      <3>1. UNCHANGED <<up, accountRow, wire, crashes>> /\ drops' \in Nat
        BY <1>3, DisconnectType DEF DropStream
      <3> QED BY <3>1 DEF TypeOK, ProcessTypes
    <2> QED BY <1>3, <2>1, <2>2 DEF DropStream, TypeOK
  <1> QED BY <1>1, <1>2, <1>3 DEF ConnectionStep

\* The process's death and its restart preserve the type invariant.
LEMMA ProcessTypeStep ==
  ASSUME TypeOK, Crash \/ Restart
  PROVE  TypeOK'
  <1> USE Frame
  <1>1. CASE Crash
    <2>1. ProcessTypes'
      <3>1. up' \in BOOLEAN
        BY <1>1 DEF Crash
      <3>2. crashes' \in Nat
        BY <1>1 DEF Crash, TypeOK, ProcessTypes
      <3>3. UNCHANGED <<accountRow, wire, drops>>
        BY <1>1 DEF Crash
      <3> QED BY <3>1, <3>2, <3>3 DEF TypeOK, ProcessTypes
    <2>2. RouteTypes'
      BY <1>1 DEF Crash, TypeOK, RouteTypes
    <2>3. StreamTypes'
      BY <1>1 DEF Crash, StreamTypes
    <2>4. MemoryTypes'
      BY <1>1 DEF Crash, MemoryTypes
    <2> QED BY <1>1, <2>1, <2>2, <2>3, <2>4 DEF Crash, TypeOK
  <1>2. CASE Restart
    <2>1. ProcessTypes'
      BY <1>2 DEF Restart, TypeOK, ProcessTypes, bounds
    <2> QED BY <1>2, <2>1 DEF Restart, TypeOK
  <1> QED BY <1>1, <1>2

\* Every step preserves the type invariant.
LEMMA TypeStep == TypeOK /\ [Next]_vars => TypeOK'
  <1> SUFFICES ASSUME TypeOK, [Next]_vars PROVE TypeOK'
    OBVIOUS
  <1>1. CASE Next
    BY <1>1, RouteTypeStep, BrokerTypeStep, HandlerTypeStep, ConnectionTypeStep, ProcessTypeStep DEF Next
  <1>2. CASE UNCHANGED vars
    BY <1>2, Frame DEF vars, TypeOK
  <1> QED BY <1>1, <1>2

\* OrderLifecycle is type correct: every variable keeps its type whatever the
\* numbers of orders, accounts, crashes and stream failures.
THEOREM TypeCorrect == Spec => []TypeOK
  <1>1. Init => TypeOK
    BY InitIInv DEF IInv
  <1> QED BY <1>1, TypeStep, PTL DEF Spec

-----------------------------------------------------------------------------
\* The conjuncts of IInv a step does not touch.
LEMMA InvFrame ==
  ASSUME IInv
  PROVE  /\ UNCHANGED <<chan, bfill>> => EventsTrue'
         /\ UNCHANGED <<bst, bfill>> => FilledHasQuantity'
         /\ UNCHANGED <<stage, fillRow, posted, cum>> => HandlerHoldsFill'
         /\ UNCHANGED <<fillRow, cum, orderRow>> => NothingWithoutRow'
         /\ UNCHANGED <<fillRow, bfill, posted, accountRow>> => LedgerWithinBroker'
         /\ UNCHANGED <<trk, fillRow, orderRow>> => TrackerWithinLedger'
  <1>1. UNCHANGED <<chan, bfill>> => EventsTrue'
    BY DEF IInv, EventsTrue
  <1>2. UNCHANGED <<bst, bfill>> => FilledHasQuantity'
    BY DEF IInv, FilledHasQuantity
  <1>3. UNCHANGED <<stage, fillRow, posted, cum>> => HandlerHoldsFill'
    BY DEF IInv, HandlerHoldsFill
  <1>4. UNCHANGED <<fillRow, cum, orderRow>> => NothingWithoutRow'
    BY DEF IInv, NothingWithoutRow
  <1>5. UNCHANGED <<fillRow, bfill, posted, accountRow>> => LedgerWithinBroker'
    BY DEF IInv, LedgerWithinBroker
  <1>6. UNCHANGED <<trk, fillRow, orderRow>> => TrackerWithinLedger'
    BY DEF IInv, TrackerWithinLedger
  <1> QED BY <1>1, <1>2, <1>3, <1>4, <1>5, <1>6

\* Events appended by the broker are true, and it only executes more.
LEMMA EmitTrue ==
  ASSUME IInv, NEW S, Emit(S),
         bfill' \in [Orders -> Nat], \A o \in Orders : bfill[o] <= bfill'[o],
         FilledHasQuantity'
  PROVE  EventsTrue'
  <1> SUFFICES ASSUME NEW o \in Orders, NEW i \in 1 .. Len(chan'[o])
               PROVE  /\ chan'[o][i].fill <= bfill'[o]
                      /\ chan'[o][i].st = "filled" => chan'[o][i].fill > 0
    BY DEF EventsTrue
  <1> DEFINE e == [st |-> MapStatus(bst'[o]), fill |-> bfill'[o], snap |-> FALSE]
  <1>1. chan[o] \in Seq(Event) /\ bfill[o] \in Nat /\ bfill'[o] \in Nat /\ bfill[o] <= bfill'[o]
    BY DEF IInv, TypeOK, StreamTypes, BrokerTypes
  <1>2. \A j \in 1 .. Len(chan[o]) : /\ chan[o][j].fill <= bfill[o]
                                     /\ chan[o][j].st = "filled" => chan[o][j].fill > 0
    BY DEF IInv, EventsTrue
  <1>t. \A j \in 1 .. Len(chan[o]) : chan[o][j].fill \in Nat
    <2>1. \A j \in 1 .. Len(chan[o]) : chan[o][j] \in Event
      BY <1>1, ElementOfSeq
    <2> QED BY <2>1 DEF Event
  <1>3. e.fill <= bfill'[o] /\ (e.st = "filled" => e.fill > 0)
    <2>1. bst'[o] = "filled" => bfill'[o] > 0
      BY DEF FilledHasQuantity
    <2> QED BY <1>1, <2>1 DEF MapStatus
  <1>6. ASSUME NEW j \in 1 .. Len(chan[o])
        PROVE  /\ chan[o][j].fill <= bfill'[o]
               /\ chan[o][j].st = "filled" => chan[o][j].fill > 0
    <2> DEFINE f == chan[o][j].fill
               b == bfill[o]
               c == bfill'[o]
    <2>1. f \in Nat /\ b \in Nat /\ c \in Nat /\ f <= b /\ b <= c
      BY <1>1, <1>2, <1>t
    <2>2. f <= c
      <3> HIDE DEF f, b, c
      <3> QED BY <2>1
    <2> QED BY <1>2, <2>2
  <1>4. CASE chan'[o] = chan[o]
    BY <1>4, <1>6
  <1>5. CASE chan'[o] = Append(chan[o], e)
    <2>1. \A j \in 1 .. Len(chan[o]) : chan'[o][j] = chan[o][j]
      BY <1>1, <1>5
    <2>2. Len(chan'[o]) = Len(chan[o]) + 1 /\ chan'[o][Len(chan[o]) + 1] = e
      BY <1>1, <1>5
    <2>3. CASE i \in 1 .. Len(chan[o])
      BY <1>6, <2>1, <2>3
    <2>4. CASE i = Len(chan[o]) + 1
      BY <1>3, <2>2, <2>4
    <2> QED BY <1>1, <2>2, <2>3, <2>4
  <1> QED BY <1>4, <1>5 DEF Emit

\* Reading an event leaves true events.
LEMMA ConsumeTrue ==
  ASSUME IInv, NEW o \in Orders, Consume(o), chan[o] # <<>>, UNCHANGED bfill
  PROVE  /\ EventsTrue'
         /\ Head(chan[o]) \in Event
         /\ Head(chan[o]).fill <= bfill[o]
         /\ IsFill(Head(chan[o])) => Head(chan[o]).fill > 0
  <1>1. chan \in [Orders -> Seq(Event)]
    BY DEF IInv, TypeOK, StreamTypes
  <1>2. /\ Head(chan[o]) \in Event
        /\ Head(chan[o]) = chan[o][1]
        /\ Len(chan[o]) \in Nat /\ Len(chan[o]) > 0
        /\ Len(Tail(chan[o])) = Len(chan[o]) - 1
        /\ \A i \in 1 .. Len(Tail(chan[o])) : Tail(chan[o])[i] = chan[o][i + 1]
    BY <1>1, HeadTailProperties
  <1>3. /\ Head(chan[o]).fill <= bfill[o]
        /\ IsFill(Head(chan[o])) => Head(chan[o]).fill > 0
    BY <1>2 DEF IInv, EventsTrue, IsFill
  <1>4. \A i \in 1 .. Len(Tail(chan[o])) : /\ Tail(chan[o])[i].fill <= bfill[o]
                                           /\ Tail(chan[o])[i].st = "filled" => Tail(chan[o])[i].fill > 0
    BY <1>2 DEF IInv, EventsTrue
  <1>5. EventsTrue'
    BY <1>1, <1>4 DEF IInv, EventsTrue, Consume
  <1> QED BY <1>2, <1>3, <1>5

\* What is lost with a connection leaves the other events true.
LEMMA DisconnectTrue ==
  ASSUME IInv, NEW a \in Accounts, Disconnect(a), UNCHANGED bfill
  PROVE  EventsTrue'
  <1>1. \A o \in Orders : chan'[o] = <<>> \/ chan'[o] = chan[o]
    BY DEF Disconnect
  <1> QED BY <1>1 DEF IInv, EventsTrue

\* The routing steps preserve the inductive invariant.
LEMMA RouteInvStep ==
  ASSUME IInv, NEW o \in Routed, RouteStep(o)
  PROVE  IInv'
  <1>1. TypeOK'
    BY RouteTypeStep DEF IInv
  <1>2. UNCHANGED <<up, accountRow, chan, stage, brokerVars, streamVars, memVars, fillRow, posted>>
    BY DEF RouteStep, RouteStart, RouteBlocked, RoutePlace, RouteReturns, RouteFails, dbVars
  <1>3. /\ EventsTrue' /\ FilledHasQuantity' /\ HandlerHoldsFill' /\ LedgerWithinBroker'
    BY <1>2, InvFrame DEF brokerVars, memVars
  <1>4. \A p \in Orders : \/ orderRow'[p] = orderRow[p]
                          \/ p \in Routed /\ orderRow'[p] # "none"
    <2>1. CASE UNCHANGED dbVars
      <3>1. orderRow' = orderRow
        BY <2>1 DEF dbVars
      <3> QED BY <3>1
    <2>2. CASE RouteReturns(o)
      <3>1. \E st : st # "none" /\ orderRow' = [orderRow EXCEPT ![o] = st]
        BY <2>2 DEF RouteReturns, MapStatus
      <3>2. orderRow \in [Orders -> RowStatus]
        BY DEF IInv, TypeOK, RowTypes
      <3> QED BY <3>1, <3>2
    <2> QED BY <2>1, <2>2 DEF RouteStep, RouteStart, RouteBlocked, RoutePlace, RouteFails
  <1>5. NothingWithoutRow'
    BY <1>2, <1>4 DEF NothingWithoutRow, IInv, memVars
  <1>6. TrackerWithinLedger'
    BY <1>2, <1>4 DEF TrackerWithinLedger, IInv, memVars
  <1> QED BY <1>1, <1>3, <1>5, <1>6 DEF IInv

\* The broker's steps preserve the inductive invariant.
LEMMA BrokerInvStep ==
  ASSUME IInv, NEW o \in Orders, BrokerStep(o)
  PROVE  IInv'
  <1> USE OrdersAssumption, InvFrame
  <1>1. TypeOK'
    BY BrokerTypeStep DEF IInv
  <1>2. UNCHANGED <<up, accountRow, stage, streamVars, memVars, dbVars>>
    BY DEF BrokerStep, BrokerAccept, BrokerAcceptExternal, BrokerAcceptBracket, WireLost, BrokerFill, BrokerEnds
  <1>3. HandlerHoldsFill' /\ NothingWithoutRow' /\ TrackerWithinLedger'
    BY <1>2 DEF memVars, dbVars
  <1>4. \A p \in Orders : bfill[p] <= bfill'[p]
    <2>1. \A p \in Orders : bfill[p] \in Nat
      BY DEF IInv, TypeOK, BrokerTypes
    <2> QED BY <2>1 DEF BrokerStep, BrokerAccept, BrokerAcceptExternal, BrokerAcceptBracket, Accept, WireLost,
                        BrokerFill, BrokerEnds, brokerVars, IInv, TypeOK, BrokerTypes
  <1>5. bfill \in [Orders -> Nat] /\ bfill' \in [Orders -> Nat]
    BY <1>1 DEF IInv, TypeOK, BrokerTypes
  <1>6. LedgerWithinBroker'
    <2>1. \A p \in Orders : fillRow[p].qty \in Nat
      BY DEF IInv, TypeOK, RowTypes
    <2> QED BY <1>2, <1>4, <1>5, <2>1 DEF LedgerWithinBroker, IInv, dbVars
  <1>7. FilledHasQuantity'
    <2>1. CASE \E S : Accept(S)
      BY <2>1 DEF Accept, FilledHasQuantity, IInv
    <2>2. CASE WireLost(o)
      BY <2>2 DEF WireLost, brokerVars
    <2>3. CASE BrokerFill(o)
      BY <2>3, <1>5 DEF BrokerFill, FilledHasQuantity, IInv, TypeOK, BrokerTypes
    <2>4. ASSUME NEW st \in {"cancelled", "rejected"}, BrokerEnds(o, st) PROVE FilledHasQuantity'
      BY <2>4 DEF BrokerEnds, FilledHasQuantity, IInv, TypeOK, BrokerTypes
    <2> QED BY <2>1, <2>2, <2>3, <2>4 DEF BrokerStep, BrokerAccept, BrokerAcceptExternal, BrokerAcceptBracket
  <1>8. EventsTrue'
    <2>1. CASE WireLost(o)
      BY <2>1 DEF WireLost, brokerVars
    <2>2. CASE \E S : Emit(S)
      BY <2>2, <1>4, <1>5, <1>7, EmitTrue
    <2> QED BY <2>1, <2>2 DEF BrokerStep, BrokerAccept, BrokerAcceptExternal, BrokerAcceptBracket, Accept,
                              BrokerFill, BrokerEnds
  <1> QED BY <1>1, <1>3, <1>6, <1>7, <1>8 DEF IInv

\* The handler's steps preserve the inductive invariant.
LEMMA HandlerInvStep ==
  ASSUME IInv, NEW o \in Orders, HandlerStep(o) \/ CommitFails(o) \/ BearerFails(o)
  PROVE  IInv'
  <1>1. TypeOK'
    BY HandlerTypeStep DEF IInv
  <1>2. UNCHANGED <<accountRow, bst, bfill>>
    BY DEF HandlerStep, SkipFill, RecordFill, PatchStatus, PatchFill, PostPosition, BracketSend, BracketReturns,
           CommitFails, BearerFails, brokerVars
  <1>3. FilledHasQuantity'
    BY <1>2, InvFrame
  <1>4. /\ \A p \in Orders : fillRow[p] \in [kind : FillKind, qty : Nat]
        /\ \A p \in Orders : cum[p] \in Nat /\ trk[p] \in Nat /\ bfill[p] \in Nat
        /\ fillRow \in [Orders -> [kind : FillKind, qty : Nat]]
        /\ stage \in [Orders -> {"none", "patch", "position", "bearer", "post"}]
        /\ orderRow \in [Orders -> RowStatus]
        /\ cum \in [Orders -> Nat]
        /\ trk \in [Orders -> Nat]
    BY DEF IInv, TypeOK, RowTypes, MemoryTypes, BrokerTypes, StreamTypes
  <1>5. CASE SkipFill(o)
    <2>1. EventsTrue'
      BY <1>2, <1>5, ConsumeTrue DEF SkipFill, Readable
    <2>2. UNCHANGED <<stage, fillRow, posted, cum, trk, orderRow>>
      BY <1>5 DEF SkipFill, memVars, dbVars
    <2> QED BY <1>1, <1>2, <1>3, <2>1, <2>2, InvFrame DEF IInv
  <1>6. CASE RecordFill(o)
    <2>1. /\ EventsTrue'
          /\ Head(chan[o]) \in Event
          /\ Head(chan[o]).fill <= bfill[o]
          /\ Head(chan[o]).fill > 0
      BY <1>2, <1>6, ConsumeTrue DEF RecordFill, Readable
    <2>2. PICK kind \in {"live", "snapshot"} :
            fillRow' = [fillRow EXCEPT ![o] = [kind |-> kind, qty |-> Head(chan[o]).fill]]
      BY <1>6 DEF RecordFill
    <2>3. /\ fillRow[o] = NoFill /\ o \in Known
          /\ stage' = [stage EXCEPT ![o] = "patch"]
          /\ UNCHANGED <<posted, orderRow, cum, trk>>
      BY <1>6 DEF RecordFill, memVars
    <2>4. o \notin posted /\ cum[o] = 0 /\ trk[o] = 0
      BY <1>4, <2>3 DEF IInv, LedgerWithinBroker, NothingWithoutRow, TrackerWithinLedger, NoFill
    <2>5. HandlerHoldsFill'
      BY <1>4, <2>2, <2>3, <2>4 DEF IInv, HandlerHoldsFill
    <2>6. NothingWithoutRow'
      BY <1>4, <2>2, <2>3 DEF IInv, NothingWithoutRow
    <2>7. LedgerWithinBroker'
      BY <1>2, <1>4, <2>1, <2>2, <2>3, <2>4 DEF IInv, LedgerWithinBroker
    <2>8. TrackerWithinLedger'
      BY <1>4, <2>2, <2>3, <2>4 DEF IInv, TrackerWithinLedger
    <2> QED BY <1>1, <1>3, <2>1, <2>5, <2>6, <2>7, <2>8 DEF IInv
  <1>7. ASSUME PatchRow(o, "filled") \/ PatchRow(o, EventRow(Head(chan[o]))), EventRow(Head(chan[o])) # "none"
        PROVE  \A p \in Orders : orderRow'[p] = "none" <=> orderRow[p] = "none"
    BY <1>4, <1>7 DEF PatchRow
  <1>8. ASSUME \A p \in Orders : orderRow'[p] = "none" <=> orderRow[p] = "none",
               UNCHANGED <<fillRow, cum, trk>>
        PROVE  NothingWithoutRow' /\ TrackerWithinLedger'
    BY <1>8 DEF IInv, NothingWithoutRow, TrackerWithinLedger
  <1>9. CASE PatchStatus(o)
    <2>1. EventsTrue' /\ Head(chan[o]) \in Event
      BY <1>2, <1>9, ConsumeTrue DEF PatchStatus, Readable
    <2>2. EventRow(Head(chan[o])) # "none"
      BY <2>1 DEF EventRow, Event, EventStatus
    <2>3. UNCHANGED <<stage, fillRow, posted, cum, trk>> /\ PatchRow(o, EventRow(Head(chan[o])))
      BY <1>9 DEF PatchStatus, memVars
    <2>4. NothingWithoutRow' /\ TrackerWithinLedger'
      BY <1>7, <1>8, <2>2, <2>3
    <2> QED BY <1>1, <1>2, <1>3, <2>1, <2>3, <2>4, InvFrame DEF IInv
  <1>10. CASE PatchFill(o)
    <2>1. UNCHANGED <<chan, fillRow, posted, cum, trk>> /\ PatchRow(o, "filled")
      BY <1>10 DEF PatchFill, memVars
    <2>2. \A p \in Orders : orderRow'[p] = "none" <=> orderRow[p] = "none"
      BY <1>4, <2>1 DEF PatchRow
    <2>3. NothingWithoutRow' /\ TrackerWithinLedger'
      BY <1>8, <2>1, <2>2
    <2>4. /\ stage' = [stage EXCEPT ![o] = IF fillRow[o].kind = "live" THEN "position" ELSE "none"]
          /\ stage[o] = "patch"
      BY <1>10 DEF PatchFill
    <2>5. HandlerHoldsFill'
      BY <1>4, <2>1, <2>4 DEF IInv, HandlerHoldsFill
    <2> QED BY <1>1, <1>2, <1>3, <2>1, <2>3, <2>5, InvFrame DEF IInv
  <1>11. ASSUME stage[o] = "position", cum' = [cum EXCEPT ![o] = @ + fillRow[o].qty],
                ApplyFill(o) \/ UNCHANGED trk,
                UNCHANGED <<fillRow, orderRow>>
         PROVE  NothingWithoutRow' /\ TrackerWithinLedger'
    <2>1. fillRow[o].kind = "live" /\ cum[o] = 0
      BY <1>11 DEF IInv, HandlerHoldsFill
    <2>2. NothingWithoutRow'
      BY <1>4, <1>11, <2>1 DEF IInv, NothingWithoutRow
    <2>3. cum'[o] = fillRow[o].qty
      BY <1>4, <1>11, <2>1
    <2>4. TrackerWithinLedger'
      <3>1. CASE UNCHANGED trk
        BY <1>11, <3>1 DEF IInv, TrackerWithinLedger
      <3>2. CASE orderRow[o] # "none" /\ trk' = [trk EXCEPT ![o] = cum'[o]]
        BY <1>4, <1>11, <2>1, <2>3, <3>2 DEF IInv, TrackerWithinLedger, NothingWithoutRow
      <3> QED BY <1>11, <3>1, <3>2 DEF ApplyFill
    <2> QED BY <2>2, <2>4
  <1>12. CASE PostPosition(o)
    <2>1. /\ stage[o] = "position"
          /\ cum' = [cum EXCEPT ![o] = @ + fillRow[o].qty]
          /\ ApplyFill(o)
          /\ posted' = posted \/ (posted' = posted \cup {o} /\ AcctOf[o] \in accountRow)
          /\ stage'[o] \in {"none", "bearer"}
          /\ \A p \in Orders : p # o => stage'[p] = stage[p] /\ cum'[p] = cum[p]
          /\ UNCHANGED <<chan, fillRow, orderRow>>
      BY <1>4, <1>12 DEF PostPosition
    <2>2. NothingWithoutRow' /\ TrackerWithinLedger'
      BY <1>11, <2>1
    <2>3. HandlerHoldsFill'
      BY <2>1 DEF IInv, HandlerHoldsFill
    <2>4. fillRow[o].kind = "live"
      BY <2>1 DEF IInv, HandlerHoldsFill
    <2>5. LedgerWithinBroker'
      BY <1>2, <2>1, <2>4 DEF IInv, LedgerWithinBroker
    <2> QED BY <1>1, <1>2, <1>3, <2>1, <2>2, <2>3, <2>5, InvFrame DEF IInv
  <1>13. CASE BracketSend(o) \/ BracketReturns(o)
    <2>1. /\ stage'[o] \in {"none", "post"}
          /\ \A p \in Orders : p # o => stage'[p] = stage[p]
          /\ UNCHANGED <<chan, fillRow, posted, orderRow, cum, trk>>
      BY <1>4, <1>13 DEF BracketSend, BracketReturns, memVars, dbVars
    <2>2. HandlerHoldsFill'
      BY <2>1 DEF IInv, HandlerHoldsFill
    <2> QED BY <1>1, <1>2, <1>3, <2>1, <2>2, InvFrame DEF IInv
  <1>14. CASE CommitFails(o) \/ BearerFails(o)
    <2>1. /\ stage'[o] = "none"
          /\ \A p \in Orders : p # o => stage'[p] = stage[p]
          /\ Disconnect(AcctOf[o])
          /\ UNCHANGED <<fillRow, posted, orderRow>>
      BY <1>4, <1>14 DEF CommitFails, BearerFails, dbVars
    <2>2. EventsTrue'
      <3>1. AcctOf[o] \in Accounts
        BY AttributesAssumption
      <3> QED BY <1>2, <2>1, <3>1, DisconnectTrue
    <2>3. NothingWithoutRow' /\ TrackerWithinLedger'
      <3>1. CASE UNCHANGED memVars
        BY <2>1, <3>1, InvFrame DEF memVars
      <3>2. CASE stage[o] = "position" /\ cum' = [cum EXCEPT ![o] = @ + fillRow[o].qty] /\ (ApplyFill(o) \/ UNCHANGED trk)
        BY <1>11, <2>1, <3>2
      <3> QED BY <1>14, <3>1, <3>2 DEF CommitFails, BearerFails
    <2>4. \A p \in Orders : p # o => cum'[p] = cum[p]
      BY <1>4, <1>14 DEF CommitFails, BearerFails, memVars
    <2>5. HandlerHoldsFill'
      BY <2>1, <2>4 DEF IInv, HandlerHoldsFill
    <2> QED BY <1>1, <1>2, <1>3, <2>1, <2>2, <2>3, <2>5, InvFrame DEF IInv
  <1> QED BY <1>5, <1>6, <1>9, <1>10, <1>12, <1>13, <1>14 DEF HandlerStep

\* Connection steps preserve the inductive invariant.
LEMMA ConnectionInvStep ==
  ASSUME IInv, NEW a \in Accounts, ConnectionStep(a)
  PROVE  IInv'
  <1>1. TypeOK'
    BY ConnectionTypeStep DEF IInv
  <1>2. UNCHANGED <<accountRow, stage, bst, bfill, cum, trk, orderRow, fillRow, posted>>
    BY DEF ConnectionStep, BeginConnect, OpenStream, InactivityTimeout, ReceiveEOS, DropStream,
           brokerVars, memVars, dbVars
  <1>3. EventsTrue'
    <2>1. CASE UNCHANGED chan
      BY <1>2, <2>1, InvFrame
    <2>2. CASE Disconnect(a)
      BY <1>2, <2>2, DisconnectTrue
    <2>3. CASE OpenStream(a)
      <3> SUFFICES ASSUME NEW o \in Orders, NEW i \in 1 .. Len(chan'[o])
                   PROVE  /\ chan'[o][i].fill <= bfill'[o]
                          /\ chan'[o][i].st = "filled" => chan'[o][i].fill > 0
        BY DEF EventsTrue
      <3> DEFINE e == [st |-> MapStatus(bst[o]), fill |-> bfill[o], snap |-> TRUE]
      <3>1. e.fill <= bfill[o] /\ (e.st = "filled" => e.fill > 0)
        BY DEF IInv, TypeOK, BrokerTypes, FilledHasQuantity, MapStatus
      <3>2. chan'[o] = <<e>> \/ chan'[o] = chan[o]
        BY <2>3 DEF OpenStream
      <3>3. CASE chan'[o] = chan[o]
        BY <1>2, <3>3 DEF IInv, EventsTrue
      <3>4. CASE chan'[o] = <<e>>
        <4>1. Len(chan'[o]) = 1 /\ chan'[o][1] = e
          BY <3>4
        <4>2. i = 1
          BY <4>1
        <4> QED BY <1>2, <3>1, <4>1, <4>2
      <3> QED BY <3>2, <3>3, <3>4
    <2> QED BY <2>1, <2>2, <2>3 DEF ConnectionStep, BeginConnect, InactivityTimeout, ReceiveEOS, DropStream
  <1> QED BY <1>1, <1>2, <1>3, InvFrame DEF IInv

\* The process's death and its restart preserve the inductive invariant.
LEMMA ProcessInvStep ==
  ASSUME IInv, Crash \/ Restart
  PROVE  IInv'
  <1>1. TypeOK'
    BY ProcessTypeStep DEF IInv
  <1>2. CASE Crash
    <2>1. UNCHANGED <<accountRow, bst, bfill, orderRow, fillRow, posted>>
      BY <1>2 DEF Crash, brokerVars, dbVars
    <2>2. \A o \in Orders : chan'[o] = <<>> /\ stage'[o] = "none" /\ cum'[o] = 0 /\ trk'[o] = 0
      BY <1>2 DEF Crash
    <2>3. EventsTrue' /\ HandlerHoldsFill'
      BY <2>2 DEF EventsTrue, HandlerHoldsFill
    <2>4. NothingWithoutRow' /\ TrackerWithinLedger'
      BY <2>1, <2>2 DEF IInv, NothingWithoutRow, TrackerWithinLedger
    <2> QED BY <1>1, <2>1, <2>3, <2>4, InvFrame DEF IInv
  <1>3. CASE Restart
    <2>1. UNCHANGED <<accountRow, chan, stage, bst, bfill, orderRow, fillRow, posted, cum, trk>>
      BY <1>3 DEF Restart, brokerVars, dbVars, memVars
    <2> QED BY <1>1, <2>1, InvFrame DEF IInv
  <1> QED BY <1>2, <1>3

\* Every step preserves the inductive invariant.
LEMMA InvStep == IInv /\ [Next]_vars => IInv'
  <1> SUFFICES ASSUME IInv, [Next]_vars PROVE IInv'
    OBVIOUS
  <1>1. CASE Next
    BY <1>1, RouteInvStep, BrokerInvStep, HandlerInvStep, ConnectionInvStep, ProcessInvStep DEF Next
  <1>2. CASE UNCHANGED vars
    <2>1. TypeOK'
      BY <1>2, TypeStep DEF IInv
    <2>2. UNCHANGED <<accountRow, chan, stage, bst, bfill, orderRow, fillRow, posted, cum, trk>>
      BY <1>2 DEF vars, brokerVars, dbVars, memVars
    <2> QED BY <2>1, <2>2, InvFrame DEF IInv
  <1> QED BY <1>1, <1>2

\* The inductive invariant is an invariant.
LEMMA Invariance == Spec => []IInv
  <1> QED BY InitIInv, InvStep, PTL DEF Spec

\* The fill audit never claims more than the broker executed, and only live
\* fills of known symbols on accounts with a row are posted.
THEOREM AuditWithinBroker == Spec => []LedgerWithinBroker
  <1>1. IInv => LedgerWithinBroker
    BY DEF IInv
  <1> QED BY <1>1, Invariance, PTL

\* The in-memory tracker holds nothing for an order, or exactly the quantity
\* of its live fill row.
THEOREM TrackerAgrees == Spec => []TrackerWithinLedger
  <1>1. IInv => TrackerWithinLedger
    BY DEF IInv
  <1> QED BY <1>1, Invariance, PTL

-----------------------------------------------------------------------------
\* The tracker implements the fill ledger: each step records a first fill
\* row, posts a live row for the first time, executes a unit at the broker,
\* or changes nothing the ledger sees.
THEOREM Refinement == Spec => ImplementsLedger
  <1>1. Init => Ledger!LedgerInit
    BY DEF Init, Ledger!LedgerInit, NoFill, Ledger!NoFill
  <1>2. IInv /\ [Next]_vars => [Ledger!LedgerNext]_Ledger!ledgerVars
    <2> SUFFICES ASSUME IInv, [Next]_vars
                 PROVE  [Ledger!LedgerNext]_Ledger!ledgerVars
      OBVIOUS
    <2> USE DEF Ledger!ledgerVars
    <2>1. ASSUME UNCHANGED <<bfill, fillRow, posted, position>>
          PROVE  [Ledger!LedgerNext]_Ledger!ledgerVars
      BY <2>1
    <2>2. ASSUME NEW o \in Orders, RecordFill(o)
          PROVE  Ledger!Record(o)
      <3>1. Consume(o) /\ chan[o] # <<>> /\ UNCHANGED bfill
        BY <2>2 DEF RecordFill, Readable, brokerVars
      <3>2. /\ Head(chan[o]).fill \in Nat
            /\ Head(chan[o]).fill <= bfill[o]
            /\ Head(chan[o]).fill > 0
        BY <2>2, <3>1, ConsumeTrue DEF RecordFill, Event
      <3>3. Head(chan[o]).fill \in 1 .. bfill[o]
        BY <3>2 DEF IInv, TypeOK, BrokerTypes
      <3>4. PICK kind \in {"live", "snapshot"} :
              fillRow' = [fillRow EXCEPT ![o] = [kind |-> kind, qty |-> Head(chan[o]).fill]]
        BY <2>2 DEF RecordFill
      <3>5. fillRow[o] = Ledger!NoFill /\ UNCHANGED <<bfill, posted, position>>
        BY <2>2, <3>1 DEF RecordFill, NoFill, Ledger!NoFill
      <3> QED BY <3>3, <3>4, <3>5 DEF Ledger!Record
    <2>3. ASSUME NEW o \in Orders, PostPosition(o)
          PROVE  Ledger!Post(o) \/ UNCHANGED <<bfill, fillRow, posted, position>>
      <3>1. fillRow[o].kind = "live" /\ o \notin posted
        BY <2>3 DEF PostPosition, IInv, HandlerHoldsFill
      <3> QED BY <2>3, <3>1 DEF PostPosition, brokerVars, Ledger!Post, Signed, Ledger!Signed
    <2>4. ASSUME NEW o \in Orders, BrokerFill(o)
          PROVE  Ledger!Execute(o)
      BY <2>4 DEF BrokerFill, dbVars, Ledger!Execute
    <2>5. ASSUME NEW o \in Routed, RouteStep(o)
          PROVE  UNCHANGED <<bfill, fillRow, posted, position>>
      BY <2>5 DEF RouteStep, RouteStart, RouteBlocked, RoutePlace, RouteReturns, RouteFails, brokerVars, dbVars
    <2>6. ASSUME NEW o \in Orders, BrokerStep(o), ~BrokerFill(o)
          PROVE  UNCHANGED <<bfill, fillRow, posted, position>>
      BY <2>6 DEF BrokerStep, BrokerAccept, BrokerAcceptExternal, BrokerAcceptBracket, Accept, WireLost,
                  BrokerEnds, brokerVars, dbVars
    <2>7. ASSUME NEW o \in Orders, HandlerStep(o) \/ CommitFails(o) \/ BearerFails(o),
                 ~RecordFill(o), ~PostPosition(o)
          PROVE  UNCHANGED <<bfill, fillRow, posted, position>>
      BY <2>7 DEF HandlerStep, SkipFill, PatchStatus, PatchFill, BracketSend, BracketReturns,
                  CommitFails, BearerFails, brokerVars, dbVars
    <2>8. ASSUME NEW a \in Accounts, ConnectionStep(a)
          PROVE  UNCHANGED <<bfill, fillRow, posted, position>>
      BY <2>8 DEF ConnectionStep, BeginConnect, OpenStream, InactivityTimeout, ReceiveEOS, DropStream,
                  brokerVars, dbVars
    <2>9. ASSUME Crash \/ Restart \/ UNCHANGED vars
          PROVE  UNCHANGED <<bfill, fillRow, posted, position>>
      BY <2>9 DEF Crash, Restart, vars, brokerVars, dbVars
    <2>10. CASE \E o \in Orders : RecordFill(o) \/ PostPosition(o) \/ BrokerFill(o)
      BY <2>1, <2>2, <2>3, <2>4, <2>10 DEF Ledger!LedgerNext
    <2>11. CASE ~\E o \in Orders : RecordFill(o) \/ PostPosition(o) \/ BrokerFill(o)
      BY <2>1, <2>5, <2>6, <2>7, <2>8, <2>9, <2>11 DEF Next
    <2> QED BY <2>10, <2>11
  <1> QED BY <1>1, <1>2, Invariance, PTL DEF Spec, ImplementsLedger, Ledger!LedgerSpec

-----------------------------------------------------------------------------
(* The positions table *)

\* A step that leaves the fill row of every posted order, the postings and
\* the positions alone keeps them in agreement.
LEMMA PositionsSame ==
  ASSUME IInv, PositionsMatchLiveFills, UNCHANGED <<posted, position>>,
         \A o \in posted : fillRow'[o] = fillRow[o]
  PROVE  PositionsMatchLiveFills'
  <1> DEFINE F == [o \in Orders |-> Signed(o, fillRow[o].qty)]
             G == [o \in Orders |-> Signed(o, fillRow'[o].qty)]
  <1> SUFFICES ASSUME NEW k \in Keys
               PROVE  position'[k] = SumFunctionOnSet(G, {o \in posted' : KeyOf[o] = k})
    BY DEF PositionsMatchLiveFills, Signed
  <1> DEFINE S == {o \in posted : KeyOf[o] = k}
  <1>1. S \subseteq Orders /\ IsFiniteSet(S)
    BY FiniteAssumption, FS_Subset DEF IInv, TypeOK, RowTypes
  <1>2. \A o \in S : F[o] = G[o]
    BY <1>1 DEF Signed
  <1>3. SumFunctionOnSet(F, S) = SumFunctionOnSet(G, S)
    <2> HIDE DEF F, G, S
    <2> QED BY <1>1, <1>2, SumSame
  <1>4. position[k] = SumFunctionOnSet(F, S)
    BY DEF PositionsMatchLiveFills
  <1> QED BY <1>3, <1>4

\* Posting a fill adds its signed quantity to the row of its key.
LEMMA PositionsPosted ==
  ASSUME IInv, PositionsMatchLiveFills, NEW o \in Orders, PostPosition(o)
  PROVE  PositionsMatchLiveFills'
  <1>1. CASE AcctOf[o] \notin accountRow
    BY <1>1, PositionsSame DEF PostPosition
  <1>2. CASE AcctOf[o] \in accountRow
    <2> DEFINE F == [p \in Orders |-> Signed(p, fillRow[p].qty)]
    <2>1. /\ o \notin posted /\ posted \subseteq Orders
          /\ posted' = posted \cup {o}
          /\ position' = [position EXCEPT ![KeyOf[o]] = @ + Signed(o, fillRow[o].qty)]
          /\ fillRow' = fillRow
      BY <1>2 DEF PostPosition, IInv, HandlerHoldsFill, TypeOK, RowTypes
    <2>2. position \in [Keys -> Int]
      BY DEF IInv, TypeOK, RowTypes
    <2>3. \A p \in Orders : F[p] \in Int
      BY DEF Signed, IInv, TypeOK, RowTypes
    <2> SUFFICES ASSUME NEW k \in Keys
                 PROVE  position'[k] = SumFunctionOnSet(F, {p \in posted' : KeyOf[p] = k})
      BY <2>1 DEF PositionsMatchLiveFills, Signed
    <2> DEFINE S == {p \in posted : KeyOf[p] = k}
               T == {p \in posted' : KeyOf[p] = k}
    <2>4. position[k] = SumFunctionOnSet(F, S)
      BY DEF PositionsMatchLiveFills
    <2>5. S \subseteq Orders /\ IsFiniteSet(S) /\ o \notin S
      BY <2>1, FiniteAssumption, FS_Subset
    <2>6. CASE KeyOf[o] = k
      <3>1. T = S \cup {o}
        BY <2>1, <2>6
      <3>2. position'[k] = position[k] + F[o]
        BY <2>1, <2>2, <2>6
      <3>3. SumFunctionOnSet(F, S \cup {o}) = F[o] + SumFunctionOnSet(F, S)
        <4> HIDE DEF F, S
        <4> QED BY <2>3, <2>5, SumAdd
      <3>4. SumFunctionOnSet(F, S) \in Int /\ F[o] \in Int
        BY <2>2, <2>3, <2>4
      <3>5. position'[k] = SumFunctionOnSet(F, T)
        <4> HIDE DEF F, S, T
        <4> QED BY <2>4, <3>1, <3>2, <3>3, <3>4
      <3> QED BY <3>5
    <2>7. CASE KeyOf[o] # k
      <3>1. T = S
        BY <2>1, <2>7
      <3>2. position'[k] = position[k]
        BY <2>1, <2>2, <2>7
      <3> QED BY <2>4, <3>1, <3>2
    <2> QED BY <2>6, <2>7
  <1> QED BY <1>1, <1>2

\* Only RecordFill writes a fill row, of an order without one; only
\* PostPosition writes the positions table.
LEMMA PositionsStep ==
  ASSUME IInv, PositionsMatchLiveFills, [Next]_vars
  PROVE  PositionsMatchLiveFills'
  <1>1. ASSUME NEW o \in Orders, RecordFill(o) PROVE PositionsMatchLiveFills'
    <2>1. fillRow[o] = NoFill /\ UNCHANGED <<posted, position>>
      BY <1>1 DEF RecordFill
    <2>2. o \notin posted
      BY <2>1 DEF IInv, LedgerWithinBroker, NoFill
    <2>3. \A p \in posted : fillRow'[p] = fillRow[p]
      BY <1>1, <2>2 DEF RecordFill, IInv, TypeOK, RowTypes
    <2> QED BY <2>1, <2>3, PositionsSame
  <1>2. CASE UNCHANGED <<fillRow, posted, position>>
    BY <1>2, PositionsSame
  <1>3. ASSUME NEW o \in Routed, RouteStep(o) PROVE UNCHANGED <<fillRow, posted, position>>
    BY <1>3 DEF RouteStep, RouteStart, RouteBlocked, RoutePlace, RouteReturns, RouteFails, dbVars
  <1>4. ASSUME NEW o \in Orders, BrokerStep(o) PROVE UNCHANGED <<fillRow, posted, position>>
    BY <1>4 DEF BrokerStep, BrokerAccept, BrokerAcceptExternal, BrokerAcceptBracket, WireLost, BrokerFill,
                BrokerEnds, dbVars
  <1>5. ASSUME NEW o \in Orders,
               SkipFill(o) \/ PatchStatus(o) \/ PatchFill(o) \/ BracketSend(o) \/ BracketReturns(o)
                 \/ CommitFails(o) \/ BearerFails(o)
        PROVE  UNCHANGED <<fillRow, posted, position>>
    BY <1>5 DEF SkipFill, PatchStatus, PatchFill, BracketSend, BracketReturns, CommitFails, BearerFails, dbVars
  <1>6. ASSUME NEW a \in Accounts, ConnectionStep(a) PROVE UNCHANGED <<fillRow, posted, position>>
    BY <1>6 DEF ConnectionStep, BeginConnect, OpenStream, InactivityTimeout, ReceiveEOS, DropStream, dbVars
  <1>7. CASE Crash \/ Restart \/ UNCHANGED vars
    BY <1>2, <1>7 DEF Crash, Restart, vars, dbVars
  <1> QED BY <1>1, <1>2, <1>3, <1>4, <1>5, <1>6, <1>7, PositionsPosted DEF Next, HandlerStep

\* Each positions row is the signed sum of the fills posted to it, each
\* counted once, whatever was replayed, retried or interrupted.
THEOREM PositionsAgree == Spec => []PositionsMatchLiveFills
  <1>1. Init => PositionsMatchLiveFills
    <2> SUFFICES ASSUME Init, NEW k \in Keys
                 PROVE  position[k] = SumFunctionOnSet([o \in Orders |-> Signed(o, fillRow[o].qty)],
                                                       {o \in posted : KeyOf[o] = k})
      BY DEF PositionsMatchLiveFills
    <2>1. {o \in posted : KeyOf[o] = k} = {} /\ position[k] = 0
      BY DEF Init
    <2> QED BY <2>1, SumEmpty
  <1>2. IInv /\ PositionsMatchLiveFills /\ [Next]_vars => PositionsMatchLiveFills'
    BY PositionsStep
  <1> QED BY <1>1, <1>2, Invariance, PTL DEF Spec

-----------------------------------------------------------------------------
(* Lost postings *)

\* The handler of o is between two commits.
Half(o) == stage[o] \in {"patch", "position"}

\* A live fill that is not posted and that no handler is about to post.
Dropped == {o \in Orders : fillRow[o].kind = "live" /\ AcctOf[o] \in accountRow /\ o \notin posted /\ ~Half(o)}

\* At most one handler is between two commits, and the fills dropped are no
\* more than the interruptions.
LossInv ==
  /\ \A o, p \in Orders : Half(o) /\ Half(p) => o = p
  /\ Cardinality(Dropped) <= crashes + drops

\* The set of dropped fills is a finite set of orders.
LEMMA DroppedFinite ==
  ASSUME NEW o
  PROVE  /\ IsFiniteSet(Dropped) /\ IsFiniteSet(Dropped')
         /\ Cardinality(Dropped) \in Nat /\ Cardinality(Dropped') \in Nat
         /\ IsFiniteSet(Dropped \cup {o}) /\ Cardinality(Dropped \cup {o}) \in Nat
         /\ Cardinality(Dropped \cup {o}) <= Cardinality(Dropped) + 1
  <1>1. Dropped \subseteq Orders /\ Dropped' \subseteq Orders
    BY DEF Dropped
  <1>2. IsFiniteSet(Dropped) /\ IsFiniteSet(Dropped')
    BY <1>1, FiniteAssumption, FS_Subset
  <1>3. Cardinality(Dropped) \in Nat /\ Cardinality(Dropped') \in Nat
    BY <1>2, FS_CardinalityType
  <1>4. IsFiniteSet(Dropped \cup {o}) /\ Cardinality(Dropped \cup {o}) <= Cardinality(Dropped) + 1
    BY <1>2, <1>3, FS_AddElement
  <1>5. Cardinality(Dropped \cup {o}) \in Nat
    BY <1>4, FS_CardinalityType
  <1> QED BY <1>2, <1>3, <1>4, <1>5

\* A step that drops no fill.
LEMMA NothingDropped ==
  ASSUME LossInv, TypeOK, Dropped' \subseteq Dropped, UNCHANGED <<crashes, drops>>
  PROVE  Cardinality(Dropped') <= crashes' + drops'
  <1>1. Cardinality(Dropped') <= Cardinality(Dropped)
    BY DroppedFinite, FS_Subset
  <1>2. Cardinality(Dropped) \in Nat /\ Cardinality(Dropped') \in Nat
    BY DroppedFinite
  <1> DEFINE c == Cardinality(Dropped)
             d == Cardinality(Dropped')
  <1>3. c <= crashes + drops /\ crashes \in Nat /\ drops \in Nat
    BY DEF LossInv, TypeOK, ProcessTypes
  <1>4. d <= c /\ c \in Nat /\ d \in Nat
    BY <1>1, <1>2
  <1> HIDE DEF c, d
  <1>5. d <= crashes' + drops'
    BY <1>3, <1>4
  <1> QED BY <1>5 DEF d

\* An interruption drops at most one.
LEMMA OneDropped ==
  ASSUME LossInv, TypeOK, NEW o, Dropped' \subseteq Dropped \cup {o},
         crashes' \in Nat, drops' \in Nat, crashes' + drops' = crashes + drops + 1
  PROVE  Cardinality(Dropped') <= crashes' + drops'
  <1>1. Cardinality(Dropped') <= Cardinality(Dropped \cup {o})
    BY DroppedFinite, FS_Subset
  <1> DEFINE c == Cardinality(Dropped)
             d == Cardinality(Dropped')
             e == Cardinality(Dropped \cup {o})
  <1>2. d <= e /\ e <= c + 1 /\ c \in Nat /\ d \in Nat /\ e \in Nat
    BY <1>1, DroppedFinite
  <1>3. c <= crashes + drops /\ crashes \in Nat /\ drops \in Nat
    BY DEF LossInv, TypeOK, ProcessTypes
  <1> HIDE DEF c, d, e
  <1>4. d <= c + 1
    BY <1>2
  <1>5. d <= (crashes + drops) + 1
    BY <1>2, <1>3, <1>4
  <1>6. d <= crashes' + drops'
    BY <1>5
  <1> QED BY <1>6 DEF d

\* Steps that leave the handlers, the fill rows and the postings alone.
LEMMA LossSame ==
  ASSUME LossInv, TypeOK, UNCHANGED <<stage, fillRow, accountRow, posted, crashes>>,
         drops' = drops \/ drops' = drops + 1
  PROVE  LossInv'
  <1>1. Dropped' = Dropped
    BY DEF Dropped, Half
  <1>2. crashes \in Nat /\ drops \in Nat
    BY DEF TypeOK, ProcessTypes
  <1> DEFINE c == Cardinality(Dropped)
             d == Cardinality(Dropped')
  <1>3. d = c /\ c \in Nat /\ c <= crashes + drops
    BY <1>1, DroppedFinite DEF LossInv
  <1> HIDE DEF c, d
  <1>4. d <= crashes' + drops'
    BY <1>2, <1>3
  <1>5. Cardinality(Dropped') <= crashes' + drops'
    BY <1>4 DEF d
  <1> QED BY <1>5 DEF LossInv, Half

\* The handler's steps.
LEMMA LossHandlerStep ==
  ASSUME LossInv, IInv, NEW o \in Orders, HandlerStep(o) \/ CommitFails(o) \/ BearerFails(o)
  PROVE  LossInv'
  <1>1. /\ stage \in [Orders -> {"none", "patch", "position", "bearer", "post"}]
        /\ fillRow \in [Orders -> [kind : FillKind, qty : Nat]]
        /\ crashes \in Nat /\ drops \in Nat
        /\ TypeOK
    BY DEF IInv, TypeOK, StreamTypes, RowTypes, ProcessTypes
  <1>2. ASSUME Half(o), UNCHANGED crashes, drops' \in Nat,
               \A p \in Orders : p # o => stage'[p] = stage[p]
        PROVE  \A p, q \in Orders : Half(p)' /\ Half(q)' => p = q
    BY <1>2 DEF LossInv, Half
  <1>3. CASE SkipFill(o) \/ PatchStatus(o)
    BY <1>1, <1>3, LossSame DEF SkipFill, PatchStatus, dbVars, bounds
  <1>4. CASE RecordFill(o)
    <2>1. \A p \in Orders : ~Half(p)
      BY <1>4 DEF RecordFill, Readable, LoopFree, Half
    <2>2. /\ stage' = [stage EXCEPT ![o] = "patch"]
          /\ \A p \in Orders : p # o => fillRow'[p] = fillRow[p]
          /\ UNCHANGED <<accountRow, posted, crashes, drops>>
      BY <1>1, <1>4 DEF RecordFill, bounds
    <2>3. Half(o)' /\ \A p \in Orders : p # o => ~Half(p)'
      BY <1>1, <2>1, <2>2 DEF Half
    <2>4. Dropped' \subseteq Dropped
      BY <2>1, <2>2, <2>3 DEF Dropped
    <2>5. Cardinality(Dropped') <= crashes' + drops'
      BY <1>1, <2>2, <2>4, NothingDropped
    <2> QED BY <2>3, <2>5 DEF LossInv
  <1>5. CASE PatchFill(o)
    <2>1. /\ Half(o)
          /\ stage' = [stage EXCEPT ![o] = IF fillRow[o].kind = "live" THEN "position" ELSE "none"]
          /\ UNCHANGED <<accountRow, fillRow, posted, crashes, drops>>
      BY <1>5 DEF PatchFill, Half, bounds
    <2>2. \A p, q \in Orders : Half(p)' /\ Half(q)' => p = q
      BY <1>1, <1>2, <2>1
    <2>3. /\ fillRow[o].kind = "live" => Half(o)'
          /\ \A p \in Orders : p # o => (Half(p)' <=> Half(p))
      BY <1>1, <2>1 DEF Half
    <2>4. Dropped' \subseteq Dropped
      BY <2>1, <2>3 DEF Dropped
    <2> QED BY <1>1, <2>1, <2>2, <2>4, NothingDropped DEF LossInv
  <1>6. CASE PostPosition(o)
    <2>1. /\ Half(o)
          /\ \E v \in {"bearer", "none"} : stage' = [stage EXCEPT ![o] = v]
          /\ UNCHANGED <<accountRow, fillRow, crashes, drops>>
          /\ posted \subseteq posted'
          /\ AcctOf[o] \in accountRow => o \in posted'
      BY <1>6 DEF PostPosition, Half, bounds
    <2>2. \A p, q \in Orders : Half(p)' /\ Half(q)' => p = q
      BY <1>1, <1>2, <2>1
    <2>3. \A p \in Orders : p # o => (Half(p)' <=> Half(p))
      BY <1>1, <2>1 DEF Half
    <2>4. Dropped' \subseteq Dropped
      BY <2>1, <2>3 DEF Dropped
    <2> QED BY <1>1, <2>1, <2>2, <2>4, NothingDropped DEF LossInv
  <1>7. CASE BracketSend(o) \/ BracketReturns(o)
    <2>1. /\ ~Half(o)
          /\ \E v \in {"post", "none"} : stage' = [stage EXCEPT ![o] = v]
          /\ UNCHANGED <<accountRow, fillRow, posted, crashes, drops>>
      BY <1>7 DEF BracketSend, BracketReturns, Half, dbVars, bounds
    <2>2. \A p \in Orders : Half(p)' <=> Half(p)
      BY <1>1, <2>1 DEF Half
    <2>3. Dropped' \subseteq Dropped
      BY <2>1, <2>2 DEF Dropped
    <2> QED BY <1>1, <2>1, <2>2, <2>3, NothingDropped DEF LossInv
  <1>8. CASE CommitFails(o) \/ BearerFails(o)
    <2>1. /\ stage' = [stage EXCEPT ![o] = "none"]
          /\ UNCHANGED <<accountRow, fillRow, posted, crashes>>
          /\ drops' = drops + 1
      BY <1>8 DEF CommitFails, BearerFails, Disconnect, dbVars
    <2>2. ~Half(o)' /\ \A p \in Orders : p # o => (Half(p)' <=> Half(p))
      BY <1>1, <2>1 DEF Half
    <2>3. Dropped' \subseteq Dropped \cup {o}
      BY <2>1, <2>2 DEF Dropped
    <2>4. Cardinality(Dropped') <= crashes' + drops'
      BY <1>1, <2>1, <2>3, OneDropped
    <2> QED BY <2>2, <2>4 DEF LossInv
  <1> QED BY <1>3, <1>4, <1>5, <1>6, <1>7, <1>8 DEF HandlerStep

\* A crash drops the fill of the only handler between two commits.
LEMMA LossCrash ==
  ASSUME LossInv, TypeOK, Crash
  PROVE  LossInv'
  <1>1. /\ \A p \in Orders : ~Half(p)'
        /\ UNCHANGED <<accountRow, fillRow, posted, drops>>
        /\ crashes' = crashes + 1
    BY DEF Crash, Half, dbVars
  <1>2. crashes \in Nat /\ drops \in Nat
    BY DEF TypeOK, ProcessTypes
  <1>3. PICK o : \A p \in Orders : Half(p) => p = o
    BY DEF LossInv
  <1>4. Dropped' \subseteq Dropped \cup {o}
    BY <1>1, <1>3 DEF Dropped
  <1>5. Cardinality(Dropped') <= crashes' + drops'
    BY <1>1, <1>2, <1>4, OneDropped
  <1> QED BY <1>1, <1>5 DEF LossInv

\* Every step preserves the bound on lost postings.
LEMMA LossStep ==
  ASSUME LossInv, IInv, [Next]_vars
  PROVE  LossInv'
  <1>1. ASSUME NEW o \in Routed, RouteStep(o)
        PROVE  UNCHANGED <<stage, fillRow, accountRow, posted, crashes, drops>>
    BY <1>1 DEF RouteStep, RouteStart, RouteBlocked, RoutePlace, RouteReturns, RouteFails, dbVars, bounds
  <1>2. ASSUME NEW o \in Orders, BrokerStep(o)
        PROVE  UNCHANGED <<stage, fillRow, accountRow, posted, crashes, drops>>
    BY <1>2 DEF BrokerStep, BrokerAccept, BrokerAcceptExternal, BrokerAcceptBracket, WireLost, BrokerFill,
                BrokerEnds, dbVars, bounds
  <1>3. ASSUME NEW a \in Accounts, ConnectionStep(a)
        PROVE  /\ UNCHANGED <<stage, fillRow, accountRow, posted, crashes>>
               /\ drops' = drops \/ drops' = drops + 1
    BY <1>3 DEF ConnectionStep, BeginConnect, OpenStream, InactivityTimeout, ReceiveEOS, DropStream, Disconnect,
                dbVars, bounds
  <1>4. CASE Restart \/ UNCHANGED vars
    BY <1>4, LossSame DEF Restart, vars, dbVars, bounds, IInv
  <1>5. CASE Next
    BY <1>1, <1>2, <1>3, <1>4, <1>5, LossSame, LossHandlerStep, LossCrash DEF Next, IInv
  <1> QED BY <1>4, <1>5

\* A fill's posting is lost only to an interruption between two commits, and
\* each interruption costs at most one.
THEOREM LossBound == Spec => []LossesBounded
  <1>1. Init => LossInv
    <2> SUFFICES ASSUME Init PROVE LossInv
      OBVIOUS
    <2>1. Dropped = {} /\ crashes = 0 /\ drops = 0 /\ \A o \in Orders : ~Half(o)
      BY DEF Init, Dropped, Half, NoFill
    <2>2. Cardinality(Dropped) = 0
      BY <2>1, FS_EmptySet
    <2> QED BY <2>1, <2>2 DEF LossInv
  <1>2. LossInv /\ IInv /\ [Next]_vars => LossInv'
    BY LossStep
  <1>3. LossInv /\ IInv => LossesBounded
    <2> SUFFICES ASSUME LossInv, IInv PROVE LossesBounded
      OBVIOUS
    <2> DEFINE L == {o \in Orders : Lost(o)}
    <2>1. L \subseteq Dropped
      BY DEF Lost, Dropped, Half
    <2>2. /\ Cardinality(L) <= Cardinality(Dropped) /\ Cardinality(L) \in Nat
          /\ Cardinality(Dropped) \in Nat
      BY <2>1, DroppedFinite, FS_Subset, FS_CardinalityType
    <2> QED BY <2>2 DEF LossInv, LossesBounded, IInv, TypeOK, ProcessTypes
  <1> QED BY <1>1, <1>2, <1>3, Invariance, PTL DEF Spec
=============================================================================
