----------------------------- MODULE EquitySwing -----------------------------
(***************************************************************************)
(* Strategy 004 on the platform: what EquitySwingStrategy (strategies/     *)
(* swing_pullback.py) remembers of its positions and protective stops, how *)
(* TradingPlatform drives it once a day per symbol (_poll_daily_bar,       *)
(* _handle_bar), the end of day flatten that works on the same account     *)
(* (_eod_flatten_task, IntradayPositionManager.enforce_eod_close), the     *)
(* positions restored at a start, and the broker that holds the orders.    *)
(*                                                                         *)
(* on_bar runs without an await, so a symbol's task changes the memory of  *)
(* the strategy in one step; every request to the broker is an await.      *)
(* Prices are abstract: whether a bar enters or exits is any outcome the   *)
(* guards on state allow (ENABLE_SHORTS is off).  Orders fill whole.       *)
(***************************************************************************)
EXTENDS Integers, Sequences, FiniteSetsExt

CONSTANTS Symbols,      \* symbols strategy 004 trades
          Flattened,    \* those strategy_002 lists too
          Sizes,        \* share counts an entry may have
          MaxPositions, \* MAX_POSITIONS
          ExitBars,     \* bars before on_bar looks at exits (50 in the code)
          EntryBars,    \* bars before it looks at entries (200)
          MaxDays,      \* bound: trading days
          MaxCrashes,   \* bound: process deaths
          MaxFailures   \* bound: requests or handlers that fail

ASSUME SymbolsAssumption == IsFiniteSet(Symbols) /\ Flattened \subseteq Symbols
ASSUME SizesAssumption == Sizes \subseteq Nat \ {0}
ASSUME LimitsAssumption ==
  /\ MaxPositions \in Nat
  /\ ExitBars \in Nat /\ EntryBars \in Nat /\ ExitBars <= EntryBars
  /\ MaxDays \in Nat /\ MaxCrashes \in Nat /\ MaxFailures \in Nat

VARIABLES
  up,       \* the platform process runs
  day,      \* the trading day
  pc,       \* per symbol: where its daily task is
  done,     \* per symbol: the last day whose bar is handled
  hist,     \* per symbol: bars in memory since the start
  pos,      \* strategy: signed quantity it believes it holds
  entered,  \* strategy: symbols with an entry price
  stopId,   \* strategy: the protective stop it tracks, 0 if none
  amt,      \* signed quantity of the signal being routed
  req,      \* the order the request under way is about
  orders,   \* broker: per symbol, the orders it received
  hold,     \* broker: signed position
  plan,     \* flatten: positions read and still to be closed
  flatDay,  \* flatten: the last day whose 15:50 is past
  legs,     \* history: positions opened or restored per symbol
  crashes, failures

memory == <<hist, pos, entered, stopId>>
broker == <<orders, hold>>
flatten == <<plan, flatDay>>
bounds == <<crashes, failures>>
vars == <<up, day, pc, done, amt, req, legs, memory, broker, flatten, bounds>>

Kinds == {"entry", "exit", "stop", "flatten"}
OrderStatus == {"working", "filled", "dead"}
Order == [kind : Kinds, qty : Int, st : OrderStatus]
NewOrder(kind, q) == [kind |-> kind, qty |-> q, st |-> "working"]

Open == {s \in Symbols : pos[s] # 0}

\* The signal and the request a task had in hand are gone.
Drop(s) ==
  /\ amt' = [amt EXCEPT ![s] = 0]
  /\ req' = [req EXCEPT ![s] = 0]

\* What the end of a handled bar does: the task sleeps until the next day.
Finish(s) ==
  /\ pc' = [pc EXCEPT ![s] = "wait"]
  /\ done' = [done EXCEPT ![s] = day]
  /\ Drop(s)

Fail == failures < MaxFailures /\ failures' = failures + 1

Init ==
  /\ up = TRUE
  /\ day = 1
  /\ pc = [s \in Symbols |-> "wait"]
  /\ done = [s \in Symbols |-> 0]
  /\ hist = [s \in Symbols |-> 0]
  /\ pos = [s \in Symbols |-> 0]
  /\ entered = {}
  /\ stopId = [s \in Symbols |-> 0]
  /\ amt = [s \in Symbols |-> 0]
  /\ req = [s \in Symbols |-> 0]
  /\ orders = [s \in Symbols |-> <<>>]
  /\ hold = [s \in Symbols |-> 0]
  /\ plan = {}
  /\ flatDay = 0
  /\ legs = [s \in Symbols |-> 0]
  /\ crashes = 0
  /\ failures = 0

-----------------------------------------------------------------------------
(* The daily task of a symbol *)

\* 16:05: the bar is fetched; prefetch_session_data_async awaits the VIX.
\* The day's flatten, at 15:50, is over or was missed.
TakeBar(s) ==
  /\ up
  /\ pc[s] = "wait" /\ done[s] < day /\ plan = {}
  /\ pc' = [pc EXCEPT ![s] = "bar"]
  /\ flatDay' = day
  /\ UNCHANGED <<up, day, done, amt, req, legs, memory, broker, plan, bounds>>

\* on_bar without a signal.
HoldBar(s) ==
  /\ up
  /\ pc[s] = "bar"
  /\ hist' = [hist EXCEPT ![s] = @ + 1]
  /\ pc' = [pc EXCEPT ![s] = "post"]
  /\ UNCHANGED <<up, day, done, pos, entered, stopId, amt, req, legs, broker, flatten, bounds>>

\* Mutant: only legs with a stop at the broker count as open.
EnterBarProtected(s) ==
  /\ up
  /\ pc[s] = "bar"
  /\ pos[s] = 0
  /\ hist[s] + 1 >= EntryBars
  /\ Cardinality({t \in Open : stopId[t] # 0}) < MaxPositions
  /\ hist' = [hist EXCEPT ![s] = @ + 1]
  /\ \E q \in Sizes : pos' = [pos EXCEPT ![s] = q] /\ amt' = [amt EXCEPT ![s] = q]
  /\ entered' = entered \cup {s}
  /\ legs' = [legs EXCEPT ![s] = @ + 1]
  /\ pc' = [pc EXCEPT ![s] = "entry"]
  /\ UNCHANGED <<up, day, done, stopId, req, broker, flatten, bounds>>

\* on_bar enters: the strategy counts the leg before anything is sent.
EnterBar(s) ==
  /\ up
  /\ pc[s] = "bar"
  /\ pos[s] = 0
  /\ hist[s] + 1 >= EntryBars
  /\ Cardinality(Open) < MaxPositions
  /\ hist' = [hist EXCEPT ![s] = @ + 1]
  /\ \E q \in Sizes : pos' = [pos EXCEPT ![s] = q] /\ amt' = [amt EXCEPT ![s] = q]
  /\ entered' = entered \cup {s}
  /\ legs' = [legs EXCEPT ![s] = @ + 1]
  /\ pc' = [pc EXCEPT ![s] = "entry"]
  /\ UNCHANGED <<up, day, done, stopId, req, broker, flatten, bounds>>

\* Mutant: an exit sells one share whatever the leg holds.
ExitBarOneShare(s) ==
  /\ up
  /\ pc[s] = "bar"
  /\ pos[s] # 0
  /\ hist[s] + 1 >= ExitBars
  /\ hist' = [hist EXCEPT ![s] = @ + 1]
  /\ pos' = [pos EXCEPT ![s] = 0]
  /\ entered' = entered \ {s}
  /\ amt' = [amt EXCEPT ![s] = -1]
  /\ pc' = [pc EXCEPT ![s] = IF pos[s] > 0 THEN "exit" ELSE "post"]
  /\ UNCHANGED <<up, day, done, stopId, req, legs, broker, flatten, bounds>>

\* on_bar exits: the leg is forgotten before anything is sent.  A restored
\* short yields buy_to_cover, an action _dict_to_signals does not route.
ExitBar(s) ==
  /\ up
  /\ pc[s] = "bar"
  /\ pos[s] # 0
  /\ hist[s] + 1 >= ExitBars
  /\ hist' = [hist EXCEPT ![s] = @ + 1]
  /\ pos' = [pos EXCEPT ![s] = 0]
  /\ entered' = entered \ {s}
  /\ amt' = [amt EXCEPT ![s] = -pos[s]]
  /\ pc' = [pc EXCEPT ![s] = IF pos[s] > 0 THEN "exit" ELSE "post"]
  /\ UNCHANGED <<up, day, done, stopId, req, legs, broker, flatten, bounds>>

\* The strategy's loss limit or the buying power check refuses an entry; an
\* exit passes both.  The strategy is not told.
RouteBlocked(s) ==
  /\ up
  /\ pc[s] = "entry"
  /\ pc' = [pc EXCEPT ![s] = "post"]
  /\ UNCHANGED <<up, day, done, amt, req, legs, memory, broker, flatten, bounds>>

\* place_order: the market order reaches the broker.
RoutePlace(s) ==
  /\ up
  /\ pc[s] \in {"entry", "exit"}
  /\ orders' = [orders EXCEPT ![s] = Append(@, NewOrder(pc[s], amt[s]))]
  /\ pc' = [pc EXCEPT ![s] = "placing"]
  /\ UNCHANGED <<up, day, done, amt, req, legs, memory, hold, flatten, bounds>>

RouteAnswered(s) ==
  /\ up
  /\ pc[s] = "placing"
  /\ pc' = [pc EXCEPT ![s] = "post"]
  /\ UNCHANGED <<up, day, done, amt, req, legs, memory, broker, flatten, bounds>>

\* Mutant: a failed order ends the handling of the bar.
RouteErrorSkipsPost(s) ==
  /\ up
  /\ pc[s] \in {"entry", "exit", "placing"}
  /\ Finish(s)
  /\ Fail
  /\ UNCHANGED <<up, day, legs, memory, broker, flatten, crashes>>

\* A BrokerError, before or after the broker took the order: _handle_bar
\* prints it and goes on to post_bar_async.
RouteError(s) ==
  /\ up
  /\ pc[s] \in {"entry", "exit", "placing"}
  /\ pc' = [pc EXCEPT ![s] = "post"]
  /\ Fail
  /\ UNCHANGED <<up, day, done, amt, req, legs, memory, broker, flatten, crashes>>

\* Mutant: an exit that raises gives the strategy its position back.
RouteRaisesRestores(s) ==
  /\ up
  /\ pc[s] \in {"entry", "exit", "placing"}
  /\ pc' = [pc EXCEPT ![s] = "wait"]
  /\ Drop(s)
  /\ pos' = [pos EXCEPT ![s] = IF amt[s] < 0 THEN -amt[s] ELSE @]
  /\ Fail
  /\ UNCHANGED <<up, day, done, legs, hist, entered, stopId, broker, flatten, crashes>>

\* Any other exception (database, timeout) leaves _handle_bar:
\* _poll_daily_bar takes the same day's bar again after a minute.
RouteRaises(s) ==
  /\ up
  /\ pc[s] \in {"entry", "exit", "placing"}
  /\ pc' = [pc EXCEPT ![s] = "wait"]
  /\ Drop(s)
  /\ Fail
  /\ UNCHANGED <<up, day, done, legs, memory, broker, flatten, crashes>>

-----------------------------------------------------------------------------
(* post_bar_async *)

\* Mutant: nothing is done for a flat symbol.
NothingToPostFlat(s) ==
  /\ up
  /\ pc[s] = "post"
  /\ pos[s] # 0 => stopId[s] # 0 \/ s \notin entered
  /\ Finish(s)
  /\ UNCHANGED <<up, day, legs, memory, broker, flatten, bounds>>

\* Flat without a stop, protected already, or without an entry price (a
\* restored position).
NothingToPost(s) ==
  /\ up
  /\ pc[s] = "post"
  /\ IF pos[s] = 0 THEN stopId[s] = 0 ELSE stopId[s] # 0 \/ s \notin entered
  /\ Finish(s)
  /\ UNCHANGED <<up, day, legs, memory, broker, flatten, bounds>>

\* _cancel_gtc_stop_for_symbol forgets the id, then asks for the cancel.
CancelStop(s) ==
  /\ up
  /\ pc[s] = "post"
  /\ pos[s] = 0 /\ stopId[s] # 0
  /\ req' = [req EXCEPT ![s] = stopId[s]]
  /\ stopId' = [stopId EXCEPT ![s] = 0]
  /\ pc' = [pc EXCEPT ![s] = "cancel"]
  /\ UNCHANGED <<up, day, done, amt, legs, hist, pos, entered, broker, flatten, bounds>>

\* The broker cancels the stop if it still works.
Cancelled(s) ==
  orders' = [orders EXCEPT ![s] = [i \in DOMAIN @ |->
               IF i = req[s] /\ @[i].st = "working" THEN [@[i] EXCEPT !.st = "dead"] ELSE @[i]]]

CancelAnswered(s) ==
  /\ up
  /\ pc[s] = "cancel"
  /\ Cancelled(s)
  /\ Finish(s)
  /\ UNCHANGED <<up, day, legs, memory, hold, flatten, bounds>>

\* The request or its answer is lost, or the broker refuses: it is printed.
CancelFails(s) ==
  /\ up
  /\ pc[s] = "cancel"
  /\ Cancelled(s) \/ UNCHANGED orders
  /\ Finish(s)
  /\ Fail
  /\ UNCHANGED <<up, day, legs, memory, hold, flatten, crashes>>

\* Mutant: a leg gets a stop on every bar.
SendStopDaily(s) ==
  /\ up
  /\ pc[s] = "post"
  /\ pos[s] # 0 /\ s \in entered
  /\ orders' = [orders EXCEPT ![s] = Append(@, NewOrder("stop", -pos[s]))]
  /\ req' = [req EXCEPT ![s] = Len(orders[s]) + 1]
  /\ pc' = [pc EXCEPT ![s] = "stop"]
  /\ UNCHANGED <<up, day, done, amt, legs, memory, hold, flatten, bounds>>

\* A GTC stop for the whole leg reaches the broker.
SendStop(s) ==
  /\ up
  /\ pc[s] = "post"
  /\ pos[s] # 0 /\ stopId[s] = 0 /\ s \in entered
  /\ orders' = [orders EXCEPT ![s] = Append(@, NewOrder("stop", -pos[s]))]
  /\ req' = [req EXCEPT ![s] = Len(orders[s]) + 1]
  /\ pc' = [pc EXCEPT ![s] = "stop"]
  /\ UNCHANGED <<up, day, done, amt, legs, memory, hold, flatten, bounds>>

\* Mutant: the id of the stop is not kept.
StopAnsweredForgets(s) ==
  /\ up
  /\ pc[s] = "stop"
  /\ Finish(s)
  /\ UNCHANGED <<up, day, legs, memory, broker, flatten, bounds>>

\* The receipt arrives: the strategy tracks the stop.
StopAnswered(s) ==
  /\ up
  /\ pc[s] = "stop"
  /\ stopId' = [stopId EXCEPT ![s] = req[s]]
  /\ Finish(s)
  /\ UNCHANGED <<up, day, legs, hist, pos, entered, broker, flatten, bounds>>

\* place_order fails before or after the broker took the stop: printed, the
\* id is not kept, and the next bar tries again.
StopFails(s) ==
  /\ up
  /\ \/ pc[s] = "stop"
     \/ pc[s] = "post" /\ pos[s] # 0 /\ stopId[s] = 0 /\ s \in entered
  /\ Finish(s)
  /\ Fail
  /\ UNCHANGED <<up, day, legs, memory, broker, flatten, crashes>>

-----------------------------------------------------------------------------
(* The end of day flatten, 15:50 *)

\* get_positions: what the account holds in the symbols to flatten.
FlattenStart ==
  /\ up
  /\ flatDay < day
  /\ plan' = {<<s, hold[s]>> : s \in {t \in Flattened : hold[t] # 0}}
  /\ flatDay' = day
  /\ UNCHANGED <<up, day, pc, done, amt, req, legs, memory, broker, bounds>>

\* One market order after the other, for the quantity that was read.
FlattenPlace(s, q) ==
  /\ up
  /\ <<s, q>> \in plan
  /\ plan' = plan \ {<<s, q>>}
  /\ orders' = [orders EXCEPT ![s] = Append(@, NewOrder("flatten", -q))]
  /\ UNCHANGED <<up, day, pc, done, amt, req, legs, memory, hold, flatDay, bounds>>

\* A request fails: the rest waits for the next day's flatten.
FlattenFails ==
  /\ up
  /\ plan # {}
  /\ plan' = {}
  /\ Fail
  /\ UNCHANGED <<up, day, pc, done, amt, req, legs, memory, broker, flatDay, crashes>>

-----------------------------------------------------------------------------
(* The broker, the days, the process *)

\* A working order executes.
BrokerFill(s, i) ==
  /\ orders[s][i].st = "working"
  /\ orders' = [orders EXCEPT ![s][i].st = "filled"]
  /\ hold' = [hold EXCEPT ![s] = @ + orders[s][i].qty]
  /\ UNCHANGED <<up, day, pc, done, amt, req, legs, memory, flatten, bounds>>

\* A working order is rejected or, a day order, expires.
BrokerKill(s, i) ==
  /\ orders[s][i].st = "working"
  /\ orders' = [orders EXCEPT ![s][i].st = "dead"]
  /\ UNCHANGED <<up, day, pc, done, amt, req, legs, memory, hold, flatten, bounds>>

\* The next trading day: no task is at work; a bar may have been missed.
NextDay ==
  /\ day < MaxDays
  /\ plan = {}
  /\ \A s \in Symbols : pc[s] = "wait"
  /\ day' = day + 1
  /\ UNCHANGED <<up, pc, done, amt, req, legs, memory, broker, flatten, bounds>>

Crash ==
  /\ up
  /\ crashes < MaxCrashes
  /\ crashes' = crashes + 1
  /\ up' = FALSE
  /\ pc' = [s \in Symbols |-> "wait"]
  /\ hist' = [s \in Symbols |-> 0]
  /\ pos' = [s \in Symbols |-> 0]
  /\ entered' = {}
  /\ stopId' = [s \in Symbols |-> 0]
  /\ amt' = [s \in Symbols |-> 0]
  /\ req' = [s \in Symbols |-> 0]
  /\ plan' = {}
  /\ UNCHANGED <<day, done, legs, broker, flatDay, failures>>

\* update_position: the side of the broker's position, one share.
Restore(s) == IF hold[s] > 0 THEN 1 ELSE IF hold[s] < 0 THEN -1 ELSE 0

\* start(): _reconstruct_positions_from_snapshot, unless get_positions fails.
\* A start after 15:50 leaves the flatten to the next day; one after 16:05
\* takes the day's bar again.
Restart ==
  /\ ~up
  /\ up' = TRUE
  /\ \/ /\ pos' = [s \in Symbols |-> Restore(s)]
        /\ legs' = [s \in Symbols |-> legs[s] + (IF hold[s] # 0 THEN 1 ELSE 0)]
        /\ UNCHANGED failures
     \/ Fail /\ UNCHANGED <<pos, legs>>
  /\ done' = [s \in Symbols |-> day - 1]
  /\ flatDay' \in {flatDay, day}
  /\ UNCHANGED <<day, pc, amt, req, hist, entered, stopId, broker, plan, crashes>>

OnBar(s) == HoldBar(s) \/ EnterBar(s) \/ ExitBar(s)
Route(s) == RouteBlocked(s) \/ RoutePlace(s) \/ RouteAnswered(s) \/ RouteError(s) \/ RouteRaises(s)
PostBar(s) ==
  \/ NothingToPost(s)
  \/ CancelStop(s) \/ CancelAnswered(s) \/ CancelFails(s)
  \/ SendStop(s) \/ StopAnswered(s) \/ StopFails(s)

DailyTask(s) == TakeBar(s) \/ OnBar(s) \/ Route(s) \/ PostBar(s)

Next ==
  \/ \E s \in Symbols : DailyTask(s)
  \/ \E s \in Symbols : \E i \in DOMAIN orders[s] : BrokerFill(s, i) \/ BrokerKill(s, i)
  \/ \E p \in plan : FlattenPlace(p[1], p[2])
  \/ FlattenStart
  \/ FlattenFails
  \/ NextDay
  \/ Crash
  \/ Restart

Spec == Init /\ [][Next]_vars

\* The tasks of the event loop go on: bars are fetched, requests answered or
\* timed out, a planned flatten sent; the operator restarts the platform.
FairSpec ==
  /\ Spec
  /\ \A s \in Symbols : WF_vars(DailyTask(s))
  /\ WF_vars(\E p \in plan : FlattenPlace(p[1], p[2]))
  /\ WF_vars(Restart)

-----------------------------------------------------------------------------
(* Properties *)

\* Type invariant.
TypeOK ==
  /\ up \in BOOLEAN
  /\ day \in 1 .. MaxDays \cup {1}
  /\ pc \in [Symbols -> {"wait", "bar", "entry", "exit", "placing", "post", "cancel", "stop"}]
  /\ done \in [Symbols -> Nat]
  /\ hist \in [Symbols -> Nat]
  /\ pos \in [Symbols -> Int]
  /\ entered \subseteq Symbols
  /\ stopId \in [Symbols -> Nat] /\ \A s \in Symbols : stopId[s] <= Len(orders[s])
  /\ amt \in [Symbols -> Int]
  /\ req \in [Symbols -> Nat]
  /\ orders \in [Symbols -> Seq(Order)]
  /\ hold \in [Symbols -> Int]
  /\ plan \subseteq Symbols \X Int
  /\ flatDay \in Nat
  /\ legs \in [Symbols -> Nat]
  /\ crashes \in Nat
  /\ failures \in Nat

OrdersOf(s, kind) == {i \in DOMAIN orders[s] : orders[s][i].kind = kind}
Filled(s, kind) == {i \in OrdersOf(s, kind) : orders[s][i].st = "filled"}

\* The legs this process opened never exceed MAX_POSITIONS, though the tasks
\* of all symbols decide on the same bars and routing awaits (on_bar counts a
\* leg before it is routed).
LegsWithinMax == Cardinality(entered) <= MaxPositions

\* However the routing of an exit fails and the bar is retried, a leg is sold
\* by the strategy at most once (on_bar goes flat before it routes;
\* _poll_daily_bar retries the bar).
OneExitPerLeg ==
  \A s \in Symbols :
    Cardinality(OrdersOf(s, "exit")) + Cardinality({s} \cap Open) <= legs[s]

\* A leg gets one protective stop; a second one only after a failure
\* (post_bar_async: "once per open symbol").
OneStopPerLeg ==
  \A s \in Symbols : Cardinality(OrdersOf(s, "stop")) <= legs[s] + failures

\* A stop that works at the broker and that no one tracks any more.
Orphans(s) ==
  {i \in OrdersOf(s, "stop") : /\ orders[s][i].st = "working"
                               /\ stopId[s] # i
                               /\ ~(pc[s] \in {"cancel", "stop"} /\ req[s] = i)}

\* Only a death or a failed request leaves a stop behind, one each
\* (_cancel_gtc_stop_for_symbol, post_bar_async).
OrphanStopsBounded ==
  \A s \in Symbols : Cardinality(Orphans(s)) <= crashes + failures

\* While nothing fails, the stop the strategy tracks covers its leg exactly:
\* a stop of an earlier leg is never taken for it (post_bar_async).
StopCoversLeg ==
  failures = 0 => \A s \in Symbols :
                    pos[s] # 0 /\ stopId[s] # 0 => orders[s][stopId[s]].qty = -pos[s]

\* When every order of the strategy's legs has executed, and no stop or
\* flatten did, the strategy's memory and the account agree: a leg is sold
\* with the quantity it was bought with (on_bar, _dict_to_signals).
BeliefMatchesBroker ==
  \A s \in Symbols :
    /\ crashes = 0
    /\ Cardinality(Filled(s, "entry")) = legs[s]
    /\ Cardinality(Filled(s, "exit")) + Cardinality({s} \cap Open) = legs[s]
    /\ Filled(s, "stop") = {} /\ Filled(s, "flatten") = {}
    => hold[s] = pos[s]

\* A flat symbol does not keep its stop: the task that failed half-way
\* through a bar takes it up again (post_bar_async runs after a BrokerError,
\* and a bar is retried after any other).
FlatStopReleased ==
  \A s \in Symbols : pos[s] = 0 /\ stopId[s] # 0 ~> pos[s] # 0 \/ stopId[s] = 0

\* What intraday_manager.py:22 says: "Swing (strategy_004) is excluded" from
\* the end of day flatten.  The symbols come from strategy_002's list, which
\* shares four with strategy 004.
SwingExcludedFromFlatten ==
  \A s \in Symbols : pos[s] > 0 => \A i \in OrdersOf(s, "flatten") : orders[s][i].qty > 0
=============================================================================
