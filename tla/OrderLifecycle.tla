--------------------------- MODULE OrderLifecycle ---------------------------
(***************************************************************************)
(* The life of an order between the platform and the broker: OrderRouter.  *)
(* route and ExecutionLogger (execution/router.py, execution/logger.py),   *)
(* the per-account order stream of OrderTracker (execution/                *)
(* order_tracker.py) with its snapshot replay, its fill handler and the    *)
(* OCO bracket it places, the database rows these write, and the broker as *)
(* they use it.                                                            *)
(*                                                                         *)
(* The process is one asyncio event loop.  A handler keeps the loop between*)
(* two awaits that reach the network, so while a fill is between its       *)
(* database commits (stage "patch" or "position") no other task runs; only *)
(* the broker moves, the process may die, or the next commit may fail.     *)
(* Quantities are units; every fill the broker reports carries a price.    *)
(* "cancelled" also stands for expired.                                    *)
(***************************************************************************)
EXTENDS Integers, Sequences, FiniteSets, Functions

CONSTANTS Orders,        \* broker order ids
          Routed,        \* orders OrderRouter.route places
          Entries,       \* routed futures entries of strategy_006
          Legs,          \* children of the OCO groups the tracker places
          ParentOf,      \* the entry a leg belongs to
          Accounts,      \* broker accounts with an order stream
          AcctOf,        \* the account of an order
          Seeded,        \* accounts start() enters in the accounts table
          Known,         \* orders whose symbol passes _is_our_symbol
          Keys,          \* (account, symbol) keys of the positions table
          KeyOf,         \* the key an order trades
          Side,          \* "buy" or "sell"
          QtyOf,         \* quantity of an order that is not a leg
          SnapshotFlag,  \* the broker marks replayed events IsSnapshot
          MaxCrashes,    \* bound: process deaths
          MaxDrops       \* bound: stream failures and handler errors

ASSUME OrdersAssumption ==
  /\ Routed \subseteq Orders
  /\ Entries \subseteq Routed
  /\ Legs \subseteq Orders \ Routed
  /\ Known \subseteq Orders
  /\ Seeded \subseteq Accounts
ASSUME AttributesAssumption ==
  /\ ParentOf \in [Legs -> Entries]
  /\ AcctOf \in [Orders -> Accounts]
  /\ KeyOf \in [Orders -> Keys]
  /\ Side \in [Orders -> {"buy", "sell"}]
  /\ QtyOf \in [Orders -> Nat \ {0}]
\* Sums and counts run over the orders.
ASSUME FiniteAssumption == IsFiniteSet(Orders)
ASSUME BoundsAssumption ==
  /\ SnapshotFlag \in BOOLEAN
  /\ MaxCrashes \in Nat
  /\ MaxDrops \in Nat

VARIABLES
  up,        \* the platform process runs
  accountRow,\* accounts that have a row in the accounts table
  routePc,   \* where route() is for an order
  wire,      \* orders and OCO groups (by entry) sent, not yet at the broker
  bst,       \* broker: status of the order
  bfill,     \* broker: executed quantity
  legQty,    \* broker: quantity of the OCO groups accepted for an entry
  conn,      \* per account: down, opening, open
  phase,     \* per account: snapshot or live
  eos,       \* per account: EndOfSnapshot still to be received
  chan,      \* per order: events in the stream, oldest first
  stage,     \* what the stream handler still has to do for an order
  signalRow, \* orders whose execution_signals row exists
  orderRow,  \* execution_orders.status, or "none"
  fillRow,   \* the execution_fills row
  posted,    \* orders applied to the positions table
  position,  \* positions.quantity per key
  cum,       \* OrderTracker._cum_filled_qty
  trk,       \* PositionTracker._order_filled_qty
  crashes, drops

routeVars  == <<routePc, signalRow>>
brokerVars == <<bst, bfill, legQty>>
streamVars == <<conn, phase, eos>>
memVars    == <<cum, trk>>
dbVars     == <<orderRow, fillRow, posted, position>>
bounds     == <<crashes, drops>>
vars == <<up, accountRow, wire, chan, stage, routeVars, brokerVars, streamVars, memVars, dbVars, bounds>>

BrokerStatus == {"none", "working", "filled", "cancelled", "rejected"}
RowStatus    == {"none", "submitted", "filled", "cancelled", "rejected"}
EventStatus  == RowStatus \ {"none"}
FillKind     == {"none", "live", "snapshot"}
Event        == [st : EventStatus, fill : Nat, snap : BOOLEAN]

NoFill == [kind |-> "none", qty |-> 0]

\* _map_ts_order_status: the status an event or a receipt carries.
MapStatus(st) == IF st = "working" THEN "submitted" ELSE st

\* Mutant: a cancellation is classified before the executed quantity.
IsFillCancelFirst(e) == e.st # "cancelled" /\ (e.st = "filled" \/ e.fill > 0)

\* _is_filled_event, _enrich_fill_from_raw: any executed quantity makes the
\* event a fill with status FILLED, whatever status it came with.
IsFill(e)    == e.st = "filled" \/ e.fill > 0
EventRow(e)  == IF IsFill(e) THEN "filled" ELSE e.st

External == Orders \ (Routed \cup Legs)

OrdersOf(a) == {o \in Orders : AcctOf[o] = a}

\* The quantity the broker holds the order to.
Cap(o) == IF o \in Legs THEN legQty[ParentOf[o]] ELSE QtyOf[o]

Signed(o, q) == IF Side[o] = "buy" THEN q ELSE -q

\* No handler is between two database commits: another task may run.
LoopFree == up /\ \A o \in Orders : stage[o] \notin {"patch", "position"}

\* The stream task of a is waiting for its next event.
Reading(a) == /\ conn[a] = "open"
              /\ \A o \in OrdersOf(a) : stage[o] = "none"

Init ==
  /\ up = TRUE
  /\ accountRow \in {S \in SUBSET Accounts : Seeded \subseteq S}
  /\ routePc = [o \in Routed |-> "idle"]
  /\ wire = {}
  /\ bst = [o \in Orders |-> "none"]
  /\ bfill = [o \in Orders |-> 0]
  /\ legQty = [o \in Entries |-> 0]
  /\ conn = [a \in Accounts |-> "down"]
  /\ phase = [a \in Accounts |-> "snapshot"]
  /\ eos = [a \in Accounts |-> FALSE]
  /\ chan = [o \in Orders |-> <<>>]
  /\ stage = [o \in Orders |-> "none"]
  /\ signalRow = {}
  /\ orderRow = [o \in Orders |-> "none"]
  /\ fillRow = [o \in Orders |-> NoFill]
  /\ posted = {}
  /\ position = [k \in Keys |-> 0]
  /\ cum = [o \in Orders |-> 0]
  /\ trk = [o \in Orders |-> 0]
  /\ crashes = 0
  /\ drops = 0

-----------------------------------------------------------------------------
(* OrderRouter.route *)

\* log_signal commits, then evaluate_risk awaits.
RouteStart(o) ==
  /\ LoopFree
  /\ routePc[o] = "idle"
  /\ routePc' = [routePc EXCEPT ![o] = "checking"]
  /\ signalRow' = signalRow \cup {o}
  /\ UNCHANGED <<up, accountRow, wire, chan, stage, brokerVars, streamVars, memVars, dbVars, bounds>>

\* Mutant: the refusal is logged but the order is placed all the same.
RouteBlockedPlaces(o) ==
  /\ LoopFree
  /\ routePc[o] = "checking"
  /\ routePc' = [routePc EXCEPT ![o] = "blocked"]
  /\ wire' = wire \cup {o}
  /\ UNCHANGED <<up, accountRow, chan, stage, signalRow, brokerVars, streamVars, memVars, dbVars, bounds>>

\* evaluate_risk or the buying power check refuses: route returns None.
RouteBlocked(o) ==
  /\ LoopFree
  /\ routePc[o] = "checking"
  /\ routePc' = [routePc EXCEPT ![o] = "blocked"]
  /\ UNCHANGED <<up, accountRow, wire, chan, stage, signalRow, brokerVars, streamVars, memVars, dbVars, bounds>>

\* Both checks pass: place_order sends its POST.
RoutePlace(o) ==
  /\ LoopFree
  /\ routePc[o] = "checking"
  /\ routePc' = [routePc EXCEPT ![o] = "placing"]
  /\ wire' = wire \cup {o}
  /\ UNCHANGED <<up, accountRow, chan, stage, signalRow, brokerVars, streamVars, memVars, dbVars, bounds>>

\* Mutant: a market order is logged as filled when its receipt arrives.
RouteReturnsFilled(o) ==
  /\ LoopFree
  /\ routePc[o] = "placing"
  /\ bst[o] # "none"
  /\ routePc' = [routePc EXCEPT ![o] = "done"]
  /\ orderRow' = [orderRow EXCEPT ![o] = "filled"]
  /\ UNCHANGED <<up, accountRow, wire, chan, stage, signalRow, brokerVars, streamVars, memVars, fillRow, posted, position, bounds>>

\* The response arrives and log_order commits the row with the receipt's
\* status: SUBMITTED, or the status the response reports.
RouteReturns(o) ==
  /\ LoopFree
  /\ routePc[o] = "placing"
  /\ bst[o] # "none"
  /\ routePc' = [routePc EXCEPT ![o] = "done"]
  /\ \E st \in {"submitted", MapStatus(bst[o])} : orderRow' = [orderRow EXCEPT ![o] = st]
  /\ UNCHANGED <<up, accountRow, wire, chan, stage, signalRow, brokerVars, streamVars, memVars, fillRow, posted, position, bounds>>

\* place_order raises (an error status, no order id, a network error that
\* says nothing of whether the broker took the order) or log_order fails.
RouteFails(o) ==
  /\ LoopFree
  /\ routePc[o] = "placing"
  /\ routePc' = [routePc EXCEPT ![o] = "failed"]
  /\ UNCHANGED <<up, accountRow, wire, chan, stage, signalRow, brokerVars, streamVars, memVars, dbVars, bounds>>

-----------------------------------------------------------------------------
(* The broker *)

\* The stream of each account that is open carries the new state of orders S.
Emit(S) ==
  chan' = [o \in Orders |->
             IF o \in S /\ conn[AcctOf[o]] = "open"
             THEN Append(chan[o], [st |-> MapStatus(bst'[o]), fill |-> bfill'[o], snap |-> FALSE])
             ELSE chan[o]]

Accept(S) ==
  /\ bst' = [o \in Orders |-> IF o \in S THEN "working" ELSE bst[o]]
  /\ bfill' = bfill
  /\ Emit(S)

\* A routed order on the wire reaches the broker, even if its sender is gone.
BrokerAccept(o) ==
  /\ o \in wire
  /\ bst[o] = "none"
  /\ wire' = wire \ {o}
  /\ Accept({o})
  /\ UNCHANGED <<up, accountRow, stage, routeVars, legQty, streamVars, memVars, dbVars, bounds>>

\* An order placed outside the platform appears in the account.
BrokerAcceptExternal(o) ==
  /\ bst[o] = "none"
  /\ Accept({o})
  /\ UNCHANGED <<up, accountRow, wire, stage, routeVars, legQty, streamVars, memVars, dbVars, bounds>>

\* The OCO group of entry o reaches the broker: its legs start to work.
BrokerAcceptBracket(o) ==
  /\ o \in wire
  /\ bst[o] # "none"
  /\ wire' = wire \ {o}
  /\ legQty' = [legQty EXCEPT ![o] = @ + fillRow[o].qty]
  /\ Accept({l \in Legs : ParentOf[l] = o})
  /\ UNCHANGED <<up, accountRow, stage, routeVars, streamVars, memVars, dbVars, bounds>>

\* A request on the wire is lost or refused.
WireLost(o) ==
  /\ o \in wire
  /\ wire' = wire \ {o}
  /\ UNCHANGED <<up, accountRow, chan, stage, routeVars, brokerVars, streamVars, memVars, dbVars, bounds>>

\* One more unit executes.  An executing leg takes its working siblings
\* down: the broker's side of an OCO group.
BrokerFill(o) ==
  LET Siblings == {l \in Legs : o \in Legs /\ l # o /\ ParentOf[l] = ParentOf[o] /\ bst[l] = "working"}
  IN  /\ bst[o] = "working"
      /\ bfill[o] < Cap(o)
      /\ bfill' = [bfill EXCEPT ![o] = @ + 1]
      /\ bst' = [p \in Orders |-> IF p = o THEN IF bfill[o] + 1 = Cap(o) THEN "filled" ELSE "working"
                                  ELSE IF p \in Siblings THEN "cancelled" ELSE bst[p]]
      /\ Emit({o} \cup Siblings)
      /\ UNCHANGED <<up, accountRow, wire, stage, routeVars, legQty, streamVars, memVars, dbVars, bounds>>

\* The order ends before it is filled: cancelled or expired with what it has
\* executed, or rejected with nothing executed.
BrokerEnds(o, st) ==
  /\ bst[o] = "working"
  /\ st = "rejected" => bfill[o] = 0
  /\ bst' = [bst EXCEPT ![o] = st]
  /\ bfill' = bfill
  /\ Emit({o})
  /\ UNCHANGED <<up, accountRow, wire, stage, routeVars, legQty, streamVars, memVars, dbVars, bounds>>

-----------------------------------------------------------------------------
(* OrderTracker._stream_account_orders: connection and snapshot phase *)

\* The loop starts a round: snapshot phase, inactivity watcher, HTTP request.
BeginConnect(a) ==
  /\ LoopFree
  /\ conn[a] = "down"
  /\ conn' = [conn EXCEPT ![a] = "opening"]
  /\ phase' = [phase EXCEPT ![a] = "snapshot"]
  /\ UNCHANGED <<up, accountRow, wire, chan, stage, eos, routeVars, brokerVars, memVars, dbVars, bounds>>

\* The stream opens: the broker replays the account's orders, then marks the
\* end of the snapshot.
OpenStream(a) ==
  /\ LoopFree
  /\ conn[a] = "opening"
  /\ conn' = [conn EXCEPT ![a] = "open"]
  /\ eos' = [eos EXCEPT ![a] = TRUE]
  /\ chan' = [o \in Orders |->
                IF AcctOf[o] = a /\ bst[o] # "none"
                THEN <<[st |-> MapStatus(bst[o]), fill |-> bfill[o], snap |-> TRUE]>>
                ELSE chan[o]]
  /\ UNCHANGED <<up, accountRow, wire, stage, phase, routeVars, brokerVars, memVars, dbVars, bounds>>

\* _inactivity_watcher: no event for three seconds.  It runs from before the
\* request is sent, so it may fire before or amid the snapshot.
InactivityTimeout(a) ==
  /\ LoopFree
  /\ conn[a] \in {"opening", "open"}
  /\ phase[a] = "snapshot"
  /\ phase' = [phase EXCEPT ![a] = "live"]
  /\ UNCHANGED <<up, accountRow, wire, chan, stage, conn, eos, routeVars, brokerVars, memVars, dbVars, bounds>>

\* The EndOfSnapshot marker follows the last replayed event.
ReceiveEOS(a) ==
  /\ LoopFree
  /\ Reading(a)
  /\ eos[a]
  /\ \A o \in OrdersOf(a) : chan[o] # <<>> => ~Head(chan[o]).snap
  /\ eos' = [eos EXCEPT ![a] = FALSE]
  /\ phase' = [phase EXCEPT ![a] = "live"]
  /\ UNCHANGED <<up, accountRow, wire, chan, stage, conn, routeVars, brokerVars, memVars, dbVars, bounds>>

\* What the end of a connection does: events not yet read are gone.
Disconnect(a) ==
  /\ conn' = [conn EXCEPT ![a] = "down"]
  /\ eos' = [eos EXCEPT ![a] = FALSE]
  /\ chan' = [o \in Orders |-> IF AcctOf[o] = a THEN <<>> ELSE chan[o]]
  /\ drops < MaxDrops
  /\ drops' = drops + 1

\* The request fails, or the stream ends or breaks while it is read.
DropStream(a) ==
  /\ LoopFree
  /\ conn[a] = "opening" \/ Reading(a)
  /\ Disconnect(a)
  /\ UNCHANGED <<up, accountRow, wire, stage, phase, routeVars, brokerVars, memVars, dbVars, crashes>>

-----------------------------------------------------------------------------
(* OrderTracker: one update of the stream *)

\* The next event of o can be read: replayed events come before the
\* EndOfSnapshot marker, the others after it.
Readable(o) ==
  /\ LoopFree
  /\ Reading(AcctOf[o])
  /\ chan[o] # <<>>
  /\ Head(chan[o]).snap \/ ~eos[AcctOf[o]]

IsSnap(o) == phase[AcctOf[o]] = "snapshot" \/ (Head(chan[o]).snap /\ SnapshotFlag)

Consume(o) == chan' = [chan EXCEPT ![o] = Tail(@)]

\* _patch_execution_order: no row, no effect.
PatchRow(o, st) ==
  orderRow' = IF orderRow[o] = "none" THEN orderRow ELSE [orderRow EXCEPT ![o] = st]

\* A fill of a symbol the platform does not know, or of an order that has
\* its row (_already_processed).
SkipFill(o) ==
  /\ Readable(o)
  /\ IsFill(Head(chan[o]))
  /\ o \notin Known \/ fillRow[o] # NoFill
  /\ Consume(o)
  /\ UNCHANGED <<up, accountRow, wire, stage, routeVars, brokerVars, streamVars, memVars, dbVars, bounds>>

\* Mutant: a replayed fill is not recognised.
RecordFillAgain(o) ==
  /\ Readable(o)
  /\ IsFill(Head(chan[o]))
  /\ o \in Known
  /\ fillRow' = [fillRow EXCEPT ![o] = [kind |-> IF IsSnap(o) THEN "snapshot" ELSE "live",
                                        qty |-> Head(chan[o]).fill]]
  /\ stage' = [stage EXCEPT ![o] = "patch"]
  /\ Consume(o)
  /\ UNCHANGED <<up, accountRow, wire, routeVars, brokerVars, streamVars, memVars, orderRow, posted, position, bounds>>

\* Mutant: the quantity ordered is taken for the quantity executed.
RecordFillOrdered(o) ==
  /\ Readable(o)
  /\ IsFill(Head(chan[o]))
  /\ o \in Known
  /\ fillRow[o] = NoFill
  /\ fillRow' = [fillRow EXCEPT ![o] = [kind |-> IF IsSnap(o) THEN "snapshot" ELSE "live",
                                        qty |-> QtyOf[o]]]
  /\ stage' = [stage EXCEPT ![o] = "patch"]
  /\ Consume(o)
  /\ UNCHANGED <<up, accountRow, wire, routeVars, brokerVars, streamVars, memVars, orderRow, posted, position, bounds>>

\* Mutant: fills of the replay are not recorded.
RecordFillLiveOnly(o) ==
  /\ Readable(o)
  /\ IsFill(Head(chan[o]))
  /\ o \in Known
  /\ fillRow[o] = NoFill
  /\ ~IsSnap(o)
  /\ fillRow' = [fillRow EXCEPT ![o] = [kind |-> IF IsSnap(o) THEN "snapshot" ELSE "live",
                                        qty |-> Head(chan[o]).fill]]
  /\ stage' = [stage EXCEPT ![o] = "patch"]
  /\ Consume(o)
  /\ UNCHANGED <<up, accountRow, wire, routeVars, brokerVars, streamVars, memVars, orderRow, posted, position, bounds>>

\* log_fill commits the only execution_fills row of the order.
RecordFill(o) ==
  /\ Readable(o)
  /\ IsFill(Head(chan[o]))
  /\ o \in Known
  /\ fillRow[o] = NoFill
  /\ fillRow' = [fillRow EXCEPT ![o] = [kind |-> IF IsSnap(o) THEN "snapshot" ELSE "live",
                                        qty |-> Head(chan[o]).fill]]
  /\ stage' = [stage EXCEPT ![o] = "patch"]
  /\ Consume(o)
  /\ UNCHANGED <<up, accountRow, wire, routeVars, brokerVars, streamVars, memVars, orderRow, posted, position, bounds>>

\* A confirmation, cancellation or rejection, replayed or live.
PatchStatus(o) ==
  /\ Readable(o)
  /\ ~IsFill(Head(chan[o]))
  /\ PatchRow(o, EventRow(Head(chan[o])))
  /\ Consume(o)
  /\ UNCHANGED <<up, accountRow, wire, stage, routeVars, brokerVars, streamVars, memVars, fillRow, posted, position, bounds>>

\* Mutant: fills of orders the platform did not log stop at the audit row.
PatchFillOurs(o) ==
  /\ up
  /\ stage[o] = "patch"
  /\ PatchRow(o, "filled")
  /\ stage' = [stage EXCEPT ![o] = IF fillRow[o].kind = "live" /\ orderRow[o] # "none" THEN "position" ELSE "none"]
  /\ UNCHANGED <<up, accountRow, wire, chan, routeVars, brokerVars, streamVars, memVars, fillRow, posted, position, bounds>>

\* _record_fill, _record_fill_snapshot: the order row follows the fill row.
\* A replayed fill goes no further.
PatchFill(o) ==
  /\ up
  /\ stage[o] = "patch"
  /\ PatchRow(o, "filled")
  /\ stage' = [stage EXCEPT ![o] = IF fillRow[o].kind = "live" THEN "position" ELSE "none"]
  /\ UNCHANGED <<up, accountRow, wire, chan, routeVars, brokerVars, streamVars, memVars, fillRow, posted, position, bounds>>

\* Mutant: fills of orders no strategy is known for reach the tracker.
ApplyFillAlways(o) ==
  trk' = IF AcctOf[o] \in accountRow THEN [trk EXCEPT ![o] = cum'[o]] ELSE trk

\* PositionTracker.apply_fill, for an order whose strategy the orders table
\* knows.
ApplyFill(o) ==
  trk' = IF AcctOf[o] \in accountRow /\ orderRow[o] # "none" THEN [trk EXCEPT ![o] = cum'[o]] ELSE trk

\* Mutant: the broker's cumulative quantity is posted for the recorded one.
PostPositionCumulative(o) ==
  /\ up
  /\ stage[o] = "position"
  /\ cum' = [cum EXCEPT ![o] = @ + fillRow[o].qty]
  /\ ApplyFill(o)
  /\ posted' = posted \cup {o}
  /\ position' = [position EXCEPT ![KeyOf[o]] = @ + Signed(o, bfill[o])]
  /\ stage' = [stage EXCEPT ![o] = IF o \in Entries /\ orderRow[o] # "none" THEN "bearer" ELSE "none"]
  /\ UNCHANGED <<up, accountRow, wire, chan, routeVars, brokerVars, streamVars, orderRow, fillRow, bounds>>

\* _tracker_cumulative_update and _update_position: the tracker in memory,
\* then the positions row.  Nothing is posted for an account without a row.
\* An entry the orders table knows goes on to its bracket.
PostPosition(o) ==
  /\ up
  /\ stage[o] = "position"
  /\ cum' = [cum EXCEPT ![o] = @ + fillRow[o].qty]
  /\ ApplyFill(o)
  /\ IF AcctOf[o] \in accountRow
     THEN /\ posted' = posted \cup {o}
          /\ position' = [position EXCEPT ![KeyOf[o]] = @ + Signed(o, fillRow[o].qty)]
     ELSE UNCHANGED <<posted, position>>
  /\ stage' = [stage EXCEPT ![o] = IF o \in Entries /\ orderRow[o] # "none" THEN "bearer" ELSE "none"]
  /\ UNCHANGED <<up, accountRow, wire, chan, routeVars, brokerVars, streamVars, orderRow, fillRow, bounds>>

\* A commit after the first fails: the exception leaves the stream loop,
\* which reconnects.  The tracker may have moved before the commit.
CommitFails(o) ==
  /\ up
  /\ stage[o] \in {"patch", "position"}
  /\ \/ stage[o] = "patch" /\ UNCHANGED memVars
     \/ /\ stage[o] = "position"
        /\ cum' = [cum EXCEPT ![o] = @ + fillRow[o].qty]
        /\ ApplyFill(o) \/ UNCHANGED trk
  /\ stage' = [stage EXCEPT ![o] = "none"]
  /\ Disconnect(AcctOf[o])
  /\ UNCHANGED <<up, accountRow, wire, phase, routeVars, brokerVars, dbVars, crashes>>

\* _place_oco_bracket has its bearer token and posts the group.
BracketSend(o) ==
  /\ LoopFree
  /\ stage[o] = "bearer"
  /\ wire' = wire \cup {o}
  /\ stage' = [stage EXCEPT ![o] = "post"]
  /\ UNCHANGED <<up, accountRow, chan, routeVars, brokerVars, streamVars, memVars, dbVars, bounds>>

\* No bearer token: the exception is not caught before the stream loop.
BearerFails(o) ==
  /\ LoopFree
  /\ stage[o] = "bearer"
  /\ stage' = [stage EXCEPT ![o] = "none"]
  /\ Disconnect(AcctOf[o])
  /\ UNCHANGED <<up, accountRow, wire, phase, routeVars, brokerVars, memVars, dbVars, crashes>>

\* The response of the group, an error status, or the 30 second timeout: the
\* stream task goes on reading either way.
BracketReturns(o) ==
  /\ LoopFree
  /\ stage[o] = "post"
  /\ stage' = [stage EXCEPT ![o] = "none"]
  /\ UNCHANGED <<up, accountRow, wire, chan, routeVars, brokerVars, streamVars, memVars, dbVars, bounds>>

-----------------------------------------------------------------------------
(* The process *)

Crash ==
  /\ up
  /\ crashes < MaxCrashes
  /\ up' = FALSE
  /\ crashes' = crashes + 1
  /\ routePc' = [o \in Routed |-> IF routePc[o] \in {"checking", "placing"} THEN "lost" ELSE routePc[o]]
  /\ conn' = [a \in Accounts |-> "down"]
  /\ phase' = [a \in Accounts |-> "snapshot"]
  /\ eos' = [a \in Accounts |-> FALSE]
  /\ chan' = [o \in Orders |-> <<>>]
  /\ stage' = [o \in Orders |-> "none"]
  /\ cum' = [o \in Orders |-> 0]
  /\ trk' = [o \in Orders |-> 0]
  /\ UNCHANGED <<accountRow, wire, signalRow, brokerVars, dbVars, drops>>

\* The operator starts the platform again; PositionTracker starts empty.
Restart ==
  /\ ~up
  /\ up' = TRUE
  /\ UNCHANGED <<accountRow, wire, chan, stage, routeVars, brokerVars, streamVars, memVars, dbVars, bounds>>

RouteStep(o) == RouteStart(o) \/ RouteBlocked(o) \/ RoutePlace(o) \/ RouteReturns(o) \/ RouteFails(o)

BrokerStep(o) ==
  \/ o \in Routed /\ BrokerAccept(o)
  \/ o \in External /\ BrokerAcceptExternal(o)
  \/ o \in Entries /\ BrokerAcceptBracket(o)
  \/ WireLost(o)
  \/ BrokerFill(o)
  \/ \E st \in {"cancelled", "rejected"} : BrokerEnds(o, st)

ConnectionStep(a) ==
  BeginConnect(a) \/ OpenStream(a) \/ InactivityTimeout(a) \/ ReceiveEOS(a) \/ DropStream(a)

\* What the stream task does with the events and fills of o when nothing fails.
HandlerStep(o) ==
  SkipFill(o) \/ RecordFill(o) \/ PatchStatus(o) \/ PatchFill(o) \/ PostPosition(o)
    \/ BracketSend(o) \/ BracketReturns(o)

Next ==
  \/ \E o \in Routed : RouteStep(o)
  \/ \E o \in Orders : BrokerStep(o) \/ HandlerStep(o) \/ CommitFails(o) \/ BearerFails(o)
  \/ \E a \in Accounts : ConnectionStep(a)
  \/ Crash
  \/ Restart

Spec == Init /\ [][Next]_vars

\* The stream loop always reconnects and reads on, handlers run to their
\* end, requests are answered or time out, and the operator restarts.
Fairness ==
  /\ \A a \in Accounts : WF_vars(BeginConnect(a)) /\ WF_vars(OpenStream(a)) /\ WF_vars(ReceiveEOS(a))
  /\ \A o \in Orders : WF_vars(HandlerStep(o))
  /\ WF_vars(Restart)

FairSpec == Spec /\ Fairness

-----------------------------------------------------------------------------
(* Properties *)

ProcessTypes ==
  /\ up \in BOOLEAN
  /\ accountRow \subseteq Accounts
  /\ wire \subseteq Orders
  /\ crashes \in Nat
  /\ drops \in Nat

RouteTypes ==
  /\ routePc \in [Routed -> {"idle", "checking", "blocked", "placing", "done", "failed", "lost"}]
  /\ signalRow \subseteq Routed

BrokerTypes ==
  /\ bst \in [Orders -> BrokerStatus]
  /\ bfill \in [Orders -> Nat]
  /\ legQty \in [Entries -> Nat]

StreamTypes ==
  /\ conn \in [Accounts -> {"down", "opening", "open"}]
  /\ phase \in [Accounts -> {"snapshot", "live"}]
  /\ eos \in [Accounts -> BOOLEAN]
  /\ chan \in [Orders -> Seq(Event)]
  /\ stage \in [Orders -> {"none", "patch", "position", "bearer", "post"}]

RowTypes ==
  /\ orderRow \in [Orders -> RowStatus]
  /\ fillRow \in [Orders -> [kind : FillKind, qty : Nat]]
  /\ posted \subseteq Orders
  /\ position \in [Keys -> Int]

MemoryTypes ==
  /\ cum \in [Orders -> Nat]
  /\ trk \in [Orders -> Nat]

\* Type invariant.
TypeOK == ProcessTypes /\ RouteTypes /\ BrokerTypes /\ StreamTypes /\ RowTypes /\ MemoryTypes

\* The audit of fills never claims more than the broker executed, holds a
\* quantity whenever it holds a row, and only live fills of known symbols on
\* accounts with a row reach the positions table (_is_our_symbol, log_fill,
\* _update_position), across replays, reconnections and restarts.
LedgerWithinBroker ==
  \A o \in Orders :
    /\ fillRow[o].qty <= bfill[o]
    /\ fillRow[o].kind # "none" => fillRow[o].qty > 0 /\ o \in Known
    /\ o \in posted => fillRow[o].kind = "live" /\ AcctOf[o] \in accountRow

\* PositionTracker never disagrees with the fill audit: what it holds for an
\* order is nothing (not delivered to this process, or raced ahead of
\* log_order) or the quantity of the live row, and only for a logged order
\* (_tracker_cumulative_update, apply_fill).
TrackerWithinLedger ==
  \A o \in Orders :
    trk[o] # 0 => /\ trk[o] = fillRow[o].qty
                  /\ fillRow[o].kind = "live"
                  /\ orderRow[o] # "none"
                  /\ o \in Routed

\* A live fill whose posting was lost (a fill recorded from a snapshot is never
\* to be posted): recorded live, never applied to positions,
\* and no handler left to do it.
Lost(o) ==
  /\ fillRow[o].kind = "live"
  /\ AcctOf[o] \in accountRow
  /\ o \notin posted
  /\ stage[o] = "none"

\* The posting of a live fill is lost only to an interruption between two
\* commits, and each interruption costs at most one (the handler keeps the event loop
\* between its commits, so no two fills are half applied at a time).
LossesBounded == Cardinality({o \in Orders : Lost(o)}) <= crashes + drops

\* Each positions row is exactly the signed sum of the fills posted to it,
\* every live fill counted once (_apply_realtime_db_fill).
PositionsMatchLiveFills ==
  \A k \in Keys :
    position[k] = SumFunctionOnSet([o \in Orders |-> Signed(o, fillRow[o].qty)],
                                   {o \in posted : KeyOf[o] = k})

\* The fill of an order was recorded when only a part of it had executed.
RecordedInPart(o) == 0 < fillRow[o].qty /\ fillRow[o].qty < QtyOf[o]

\* An order row shows filled only if the broker's order was filled, or its
\* fill was recorded with a part of the order executed (any executed quantity
\* makes an event FILLED, _enrich_fill_from_raw); it shows cancelled or
\* rejected only if the order ended so, and exists only if the broker has
\* the order, whatever was replayed, retried or raced
\* (_patch_execution_order, log_order).
RowFollowsBroker ==
  \A o \in Orders :
    /\ orderRow[o] = "filled" => bst[o] = "filled" \/ RecordedInPart(o)
    /\ orderRow[o] \in {"cancelled", "rejected"} => bst[o] = orderRow[o]
    /\ orderRow[o] # "none" => bst[o] # "none"

\* An OCO group never covers more than the entry executed, and its legs
\* never execute more than that: an exit cannot turn the position over
\* (_place_oco_bracket sizes the group by the recorded fill, once).
BracketWithinEntry ==
  \A e \in Entries :
    /\ legQty[e] <= bfill[e]
    /\ \A l \in Legs : ParentOf[l] = e => bfill[l] <= legQty[e]

\* Every order at the broker that route sent has its signal in the audit,
\* and its order row unless route failed or died while placing it; a blocked
\* signal reaches no broker (route logs the signal before it checks, and the
\* order after it placed it).  It leaves no order row either, against the
\* comment "Log blocked actions as orders with a synthetic status" in route.
AuditTrail ==
  \A o \in Routed :
    /\ bst[o] # "none" => o \in signalRow
    /\ bst[o] # "none" => orderRow[o] # "none" \/ routePc[o] \in {"placing", "failed", "lost"}
    /\ routePc[o] \in {"idle", "checking", "blocked"} => bst[o] = "none" /\ orderRow[o] = "none"

\* Once its fill is recorded an order that shows filled stays filled, though
\* the broker may still report the rest of it cancelled
\* (_enrich_fill_from_raw before _classify_update).
FilledIsFinal ==
  [][\A o \in Orders :
       fillRow[o] # NoFill /\ orderRow[o] = "filled" => orderRow'[o] = "filled"]_vars

\* Everything the broker did has been delivered and handled, no process died
\* and no stream failed so far, and no fill arrived in a replay.
AtRest ==
  /\ up
  /\ crashes = 0 /\ drops = 0
  /\ \A a \in Accounts : conn[a] = "open" /\ ~eos[a]
  /\ \A o \in Orders : chan[o] = <<>> /\ stage[o] = "none" /\ fillRow[o].kind # "snapshot"

\* What OrderTracker's docstring claims (order_tracker.py:222): open quantity
\* is mirrored to positions when an accounts row exists.  The code records
\* one fill per order, so what executes after the first fill is not posted.
MirrorsOpenQuantity ==
  AtRest => \A k \in Keys :
              position[k] = SumFunctionOnSet([o \in Orders |-> Signed(o, bfill[o])],
                                             {o \in Known : KeyOf[o] = k /\ AcctOf[o] \in accountRow})

\* The fill ledger this tracker implements.
Ledger == INSTANCE FillLedger WITH executed <- bfill

\* The tracker implements the ledger: one row per order, one posting per
\* live row (log_fill, _already_processed, _apply_realtime_db_fill).
ImplementsLedger == Ledger!LedgerSpec

\* Whatever the interruptions, an execution of a known symbol is recorded in
\* the fill audit in the end: live, or from the replay of a later connection
\* (_stream_account_orders reconnects for ever).
FillEventuallyRecorded ==
  \A o \in Orders : o \in Known /\ bfill[o] > 0 ~> fillRow[o] # NoFill
=============================================================================
