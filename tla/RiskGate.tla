------------------------------ MODULE RiskGate ------------------------------
(***************************************************************************)
(* The checks OrderRouter.route makes before it places an order, when the  *)
(* tasks of several symbols of one strategy route at the same time:        *)
(* evaluate_risk (the count of positions, read before an await and         *)
(* compared after it; the strategy's daily cash flow against its limit),   *)
(* _buying_power_allows_order (the account and a quote, read over two more *)
(* awaits), place_order and log_order.                                     *)
(*                                                                         *)
(* A fill reaches the database and the tracker some time after it happens: *)
(* live, in both if the order has its row; from the snapshot of a new      *)
(* connection, in the database only, and marked so that the cash flow      *)
(* leaves it out.  A restart empties the tracker; a new day empties the    *)
(* cash flow.                                                              *)
(*                                                                         *)
(* One share per order.  Positions are long: the broker does not accept a  *)
(* SELL of shares the account does not hold.  Drawdown, daily loss and     *)
(* weight are left out: no mark price or daily P&L ever reaches the        *)
(* tracker, so that their checks let everything pass.                      *)
(***************************************************************************)
EXTENDS Integers, Sequences, FiniteSets, Functions

CONSTANTS Symbols,
          MaxPositions, \* RiskPolicy.max_positions
          Limit,        \* the strategy's loss limit, as a positive amount
          Power,        \* buying power at the start
          Prices,
          MaxOrders,    \* bound: orders sent
          MaxFailures,  \* bound: requests that fail and restarts of the process
          MaxDays       \* bound: days that begin

ASSUME LimitsAssumption == MaxPositions \in Nat /\ Limit \in Nat \ {0} /\ Power \in Nat
ASSUME SymbolsAssumption == IsFiniteSet(Symbols)
ASSUME PricesAssumption == Prices \subseteq Nat \ {0}
ASSUME BoundsAssumption == MaxOrders \in Nat /\ MaxFailures \in Nat /\ MaxDays \in Nat

VARIABLES
  call,    \* per symbol: where its route() is
  wants,   \* the symbols the strategy believes it holds
  count,   \* per call: position_count it read
  pnl,     \* per call: the cash flow it read
  power,   \* per call: the buying power it read
  price,   \* per call: the price it reckons with
  orders,  \* broker: per symbol, the orders accepted
  crowd,   \* history, per call: another entry was in flight at its start
  loss,    \* history, per call: the realized P&L when it read the cash flow
  carried, \* history, per call: what the shares sold had cost, as far as the
           \* cash flow it read does not show it
  unseen,  \* history, per call: cost accepted since it read the account
  failures, days

reads == <<count, pnl, power, price>>
history == <<crowd, loss, carried, unseen>>
vars == <<call, wants, reads, orders, history, failures, days>>

\* An executed order is filled until its fill is recorded: booked (live, and
\* the running tracker has it), untracked (live, but the tracker has it not),
\* or replayed (from a snapshot).  today: it executed on the current day.
Order == [side : {"buy", "sell"}, price : Nat,
          st : {"working", "filled", "booked", "untracked", "replayed", "dead"},
          row : BOOLEAN, today : BOOLEAN, crowd : BOOLEAN, unseen : Nat]

All == UNION {{<<s, i>> : i \in DOMAIN orders[s]} : s \in Symbols}
Get(o) == orders[o[1]][o[2]]
Of(side, sts) == {o \in All : Get(o).side = side /\ Get(o).st \in sts}
Value(S) == SumFunctionOnSet([o \in S |-> Get(o).price], S)
Executed == {"filled", "booked", "untracked", "replayed"}
Known == {"booked", "untracked"}
Buys == Of("buy", {"working"} \cup Executed \cup {"dead"})

\* Buys minus sells of a symbol in the given states: shares held or tracked.
Net(s, sts) ==
  Cardinality({o \in Of("buy", sts) : o[1] = s}) - Cardinality({o \in Of("sell", sts) : o[1] = s})
\* Shares a SELL may be accepted for: held and not promised to another.
Held(s) == Net(s, Executed) - Cardinality({o \in Of("sell", {"working"}) : o[1] = s})
Tracked == {s \in Symbols : Net(s, {"booked"}) # 0}

\* _sync_strategy_daily_pnl: what sells brought minus what buys cost, of
\* today's fills that were recorded live and join the row of their order.
Joined(side) == {o \in Of(side, Known) : Get(o).row /\ Get(o).today}
Flow == Value(Joined("sell")) - Value(Joined("buy"))

\* The account: buys are reserved when accepted, sells pay when they execute.
BuyingPower ==
  Power - Value(Of("buy", {"working"} \cup Executed)) + Value(Of("sell", Executed))

\* What the sells of the cash flow brought over the price of the share they
\* sold, whenever it was bought; the shares of a symbol are sold in the order
\* in which they were bought.
UpTo(o, side) == {p \in Of(side, Executed) : p[1] = o[1] /\ p[2] <= o[2]}
Bought(o) == CHOOSE b \in Of("buy", Executed) :
  b[1] = o[1] /\ Cardinality(UpTo(b, "buy")) = Cardinality(UpTo(o, "sell"))
Gain == [o \in Joined("sell") |-> Get(o).price - Get(Bought(o)).price]
Realized == SumFunctionOnSet(Gain, Joined("sell"))

\* What those shares had cost, where the cash flow does not have the purchase.
Brought == [o \in Joined("sell") |-> IF Bought(o) \in Joined("buy") THEN 0 ELSE Get(Bought(o)).price]
Carried == SumFunctionOnSet(Brought, Joined("sell"))

InCall(s) == call[s] # "idle"
\* Orders sent, and calls that may send one.
Sent == Cardinality(All) + Cardinality({s \in Symbols : InCall(s)})
Entering(s) ==
  \/ InCall(s) /\ s \in wants
  \/ \E i \in DOMAIN orders[s] : orders[s][i].side = "buy" /\ orders[s][i].st \in {"working", "filled"}

Fail == failures < MaxFailures /\ failures' = failures + 1
Goto(s, phase) == call' = [call EXCEPT ![s] = phase]
Drop(read, s) == [read EXCEPT ![s] = 0]

Init ==
  /\ call = [s \in Symbols |-> "idle"]
  /\ wants = {}
  /\ count = [s \in Symbols |-> 0]
  /\ pnl = [s \in Symbols |-> 0]
  /\ power = [s \in Symbols |-> 0]
  /\ price = [s \in Symbols |-> 0]
  /\ orders = [s \in Symbols |-> <<>>]
  /\ crowd = [s \in Symbols |-> FALSE]
  /\ loss = [s \in Symbols |-> 0]
  /\ unseen = [s \in Symbols |-> 0]
  /\ carried = [s \in Symbols |-> 0]
  /\ failures = 0 /\ days = 0

-----------------------------------------------------------------------------
(* route *)

\* What a call has read is dropped when it is no longer used, all of it when
\* the call ends.
Return(s) ==
  /\ Goto(s, "idle")
  /\ count' = Drop(count, s) /\ pnl' = Drop(pnl, s)
  /\ power' = Drop(power, s) /\ price' = Drop(price, s)
  /\ crowd' = [crowd EXCEPT ![s] = FALSE]
  /\ loss' = Drop(loss, s) /\ carried' = Drop(carried, s) /\ unseen' = Drop(unseen, s)

\* ENTER: evaluate_risk reads the tracker's metrics, then awaits the cash flow.
RouteEntry(s) ==
  /\ ~InCall(s) /\ s \notin wants /\ Sent < MaxOrders
  /\ Goto(s, "flow")
  /\ wants' = wants \cup {s}
  /\ count' = [count EXCEPT ![s] = Cardinality(Tracked)]
  /\ crowd' = [crowd EXCEPT ![s] = \E t \in Symbols : Entering(t)]
  /\ UNCHANGED <<pnl, power, price, orders, loss, carried, unseen, failures, days>>

\* EXIT: no limit applies and SELL needs no buying power.
RouteExit(s) ==
  /\ ~InCall(s) /\ s \in wants /\ Sent < MaxOrders
  /\ Goto(s, "place")
  /\ wants' = wants \ {s}
  /\ \E p \in Prices : price' = [price EXCEPT ![s] = p]
  /\ UNCHANGED <<count, pnl, power, orders, history, failures, days>>

\* Mutant: the sign of buys and sells is swapped.
ReadFlowSwapped(s) ==
  /\ call[s] = "flow"
  /\ Goto(s, "flowRead")
  /\ pnl' = [pnl EXCEPT ![s] = -Flow]
  /\ loss' = [loss EXCEPT ![s] = Realized]
  /\ carried' = [carried EXCEPT ![s] = Carried]
  /\ UNCHANGED <<wants, count, power, price, orders, crowd, unseen, failures, days>>

\* The query, in a thread of its own.
ReadFlow(s) ==
  /\ call[s] = "flow"
  /\ Goto(s, "flowRead")
  /\ pnl' = [pnl EXCEPT ![s] = Flow]
  /\ loss' = [loss EXCEPT ![s] = Realized]
  /\ carried' = [carried EXCEPT ![s] = Carried]
  /\ UNCHANGED <<wants, count, power, price, orders, crowd, unseen, failures, days>>

\* strategy_daily_loss_limit: no entries until tomorrow.
LimitBlocks(s) ==
  /\ call[s] = "flowRead"
  /\ pnl[s] <= -Limit
  /\ Goto(s, "limited")
  /\ UNCHANGED <<wants, reads, orders, history, failures, days>>

\* max_positions, or the end of a call the loss limit refused.
MaxBlocks(s) ==
  /\ \/ call[s] = "flowRead" /\ pnl[s] > -Limit /\ count[s] >= MaxPositions
     \/ call[s] = "limited"
  /\ Return(s)
  /\ UNCHANGED <<wants, orders, failures, days>>

\* Mutant: one position too many.
AdmitOneMore(s) ==
  /\ call[s] = "flowRead"
  /\ pnl[s] > -Limit /\ count[s] <= MaxPositions
  /\ Goto(s, "account")
  /\ count' = Drop(count, s) /\ pnl' = Drop(pnl, s)
  /\ UNCHANGED <<wants, power, price, orders, history, failures, days>>

\* Mutant: the loss may reach the limit.
AdmitAtLimit(s) ==
  /\ call[s] = "flowRead"
  /\ pnl[s] >= -Limit /\ count[s] < MaxPositions
  /\ Goto(s, "account")
  /\ count' = Drop(count, s) /\ pnl' = Drop(pnl, s)
  /\ UNCHANGED <<wants, power, price, orders, history, failures, days>>

Admit(s) ==
  /\ call[s] = "flowRead"
  /\ pnl[s] > -Limit /\ count[s] < MaxPositions
  /\ Goto(s, "account")
  /\ count' = Drop(count, s) /\ pnl' = Drop(pnl, s)
  /\ UNCHANGED <<wants, power, price, orders, history, failures, days>>

\* get_account
ReadAccount(s) ==
  /\ call[s] = "account"
  /\ Goto(s, "quote")
  /\ power' = [power EXCEPT ![s] = BuyingPower]
  /\ unseen' = [unseen EXCEPT ![s] = 0]
  /\ loss' = Drop(loss, s) /\ carried' = Drop(carried, s)
  /\ UNCHANGED <<wants, count, pnl, price, orders, crowd, failures, days>>

\* Mutant: an order may cost twice the buying power (margin taken as cash).
PowerAllowsTwice(s) ==
  /\ call[s] = "quote"
  /\ \E p \in Prices :
       /\ p <= 2 * power[s]
       /\ price' = [price EXCEPT ![s] = p]
  /\ Goto(s, "place")
  /\ power' = Drop(power, s)
  /\ UNCHANGED <<wants, count, pnl, orders, history, failures, days>>

\* The quote makes the order fit into 95% of the buying power.
PowerAllows(s) ==
  /\ call[s] = "quote"
  /\ \E p \in Prices :
       /\ 100 * p <= 95 * power[s]
       /\ price' = [price EXCEPT ![s] = p]
  /\ Goto(s, "place")
  /\ power' = Drop(power, s)
  /\ UNCHANGED <<wants, count, pnl, orders, history, failures, days>>

PowerBlocks(s) ==
  /\ call[s] = "quote"
  /\ \E p \in Prices : 100 * p > 95 * power[s]
  /\ Return(s)
  /\ UNCHANGED <<wants, orders, failures, days>>

\* No quote, or none with a price: the check is skipped.
QuoteFails(s) ==
  /\ call[s] = "quote"
  /\ Fail
  /\ \E p \in Prices :
       /\ price' = [price EXCEPT ![s] = p]
       /\ unseen' = [unseen EXCEPT ![s] = @ + p]
  /\ Goto(s, "place")
  /\ power' = Drop(power, s)
  /\ UNCHANGED <<wants, count, pnl, orders, crowd, loss, carried, days>>

\* place_order: the broker takes the order, or rejects a SELL of shares it
\* does not hold; calls that have read the account do not see it.
Place(s) ==
  LET buys == s \in wants
      order == [side |-> IF buys THEN "buy" ELSE "sell", price |-> price[s],
                st |-> IF buys \/ Held(s) > 0 THEN "working" ELSE "dead",
                row |-> FALSE, today |-> FALSE, crowd |-> crowd[s], unseen |-> unseen[s]]
  IN /\ call[s] = "place"
     /\ Goto(s, "log")
     /\ orders' = [orders EXCEPT ![s] = Append(@, order)]
     /\ price' = Drop(price, s)
     /\ crowd' = [crowd EXCEPT ![s] = FALSE]
     /\ unseen' = [t \in Symbols |->
          IF t = s THEN 0
          ELSE IF buys /\ call[t] \in {"quote", "place"} /\ t \in wants
          THEN unseen[t] + price[s] ELSE unseen[t]]
     /\ UNCHANGED <<wants, count, pnl, power, loss, carried, failures, days>>

\* log_order
Log(s) ==
  /\ call[s] = "log"
  /\ orders' = [orders EXCEPT ![s][Len(orders[s])].row = TRUE]
  /\ Return(s)
  /\ UNCHANGED <<wants, failures, days>>

\* A request, the query or log_order raises: nothing is undone.
CallFails(s) ==
  /\ call[s] \in {"flow", "account", "place", "log"}
  /\ Fail
  /\ Return(s)
  /\ UNCHANGED <<wants, orders, days>>

-----------------------------------------------------------------------------
(* The broker, the order stream, the day and the process *)

Mark(s, i, st) ==
  /\ orders' = [orders EXCEPT ![s][i].st = st]
  /\ UNCHANGED <<call, wants, reads, history, failures, days>>

\* An execution.
BrokerFill(s, i) ==
  /\ orders[s][i].st = "working"
  /\ orders' = [orders EXCEPT ![s][i] = [@ EXCEPT !.st = "filled", !.today = TRUE]]
  /\ UNCHANGED <<call, wants, reads, history, failures, days>>

BrokerKill(s, i) == orders[s][i].st = "working" /\ Mark(s, i, "dead")

\* Mutant: a fill is booked although its order has no row yet.
BookWithoutRow(s, i) == orders[s][i].st = "filled" /\ Mark(s, i, "booked")

\* OrderTracker books the fill in the database and the tracker (one step
\* here; OrderLifecycle has the steps between).  Fills are recorded in any
\* order, which allows more than a stream that keeps theirs.
Book(s, i) == orders[s][i].st = "filled" /\ orders[s][i].row /\ Mark(s, i, "booked")

\* The fill comes before the order's row: it is recorded, and will join the
\* row, but the tracker does not post it.
BookEarly(s, i) == orders[s][i].st = "filled" /\ ~orders[s][i].row /\ Mark(s, i, "untracked")

\* The fill comes before the end of the snapshot of a new connection: it is
\* recorded as history, neither posted nor counted.
RecordReplayed(s, i) == orders[s][i].st = "filled" /\ Mark(s, i, "replayed")

\* A day begins.
NewDay ==
  /\ days < MaxDays
  /\ days' = days + 1
  /\ orders' = [s \in Symbols |-> [i \in DOMAIN orders[s] |-> [orders[s][i] EXCEPT !.today = FALSE]]]
  /\ UNCHANGED <<call, wants, reads, history, failures>>

Forgotten(order) == [order EXCEPT !.st = IF @ = "booked" THEN "untracked" ELSE @]

\* The process dies and starts again: calls end where they are, the tracker is
\* empty, and the strategy is told the broker's positions, unless it cannot get
\* them (_reconstruct_positions_from_snapshot).
Restart ==
  /\ Fail
  /\ orders' = [s \in Symbols |-> [i \in DOMAIN orders[s] |-> Forgotten(orders[s][i])]]
  /\ wants' \in {{s \in Symbols : Net(s, Executed) > 0}, {}}
  /\ call' = [s \in Symbols |-> "idle"]
  /\ count' = [s \in Symbols |-> 0] /\ pnl' = [s \in Symbols |-> 0]
  /\ power' = [s \in Symbols |-> 0] /\ price' = [s \in Symbols |-> 0]
  /\ crowd' = [s \in Symbols |-> FALSE] /\ loss' = [s \in Symbols |-> 0]
  /\ carried' = [s \in Symbols |-> 0] /\ unseen' = [s \in Symbols |-> 0]
  /\ UNCHANGED days

Route(s) ==
  \/ RouteEntry(s) \/ RouteExit(s)
  \/ ReadFlow(s) \/ LimitBlocks(s) \/ MaxBlocks(s) \/ Admit(s)
  \/ ReadAccount(s) \/ PowerAllows(s) \/ PowerBlocks(s) \/ QuoteFails(s)
  \/ Place(s) \/ Log(s) \/ CallFails(s)

Next ==
  \/ \E s \in Symbols : Route(s)
  \/ \E s \in Symbols : \E i \in DOMAIN orders[s] :
       BrokerFill(s, i) \/ BrokerKill(s, i) \/ Book(s, i) \/ BookEarly(s, i) \/ RecordReplayed(s, i)
  \/ NewDay \/ Restart

Spec == Init /\ [][Next]_vars

-----------------------------------------------------------------------------
(* Properties *)

\* Type invariant, with what the tracker and the cash flow are made of: only
\* orders that have their row are booked.
TypeOK ==
  /\ call \in [Symbols -> {"idle", "flow", "flowRead", "limited", "account", "quote", "place", "log"}]
  /\ wants \subseteq Symbols
  /\ count \in [Symbols -> Nat]
  /\ pnl \in [Symbols -> Int] /\ power \in [Symbols -> Int]
  /\ price \in [Symbols -> Nat]
  /\ orders \in [Symbols -> Seq(Order)]
  /\ \A o \in All : Get(o).st = "booked" => Get(o).row
  /\ crowd \in [Symbols -> BOOLEAN]
  /\ loss \in [Symbols -> Int]
  /\ carried \in [Symbols -> Nat]
  /\ unseen \in [Symbols -> Nat]
  /\ failures \in Nat /\ days \in Nat

Crowded == \E o \in Buys : Get(o).crowd

\* The symbols with an executed order the running tracker will never post: its
\* fill came before its row, from a snapshot, or to a process that died since.
Missed == {s \in Symbols : \E i \in DOMAIN orders[s] : orders[s][i].st \in {"untracked", "replayed"}}

\* As long as no entry is routed while another is in flight (nothing is
\* reserved between the count, read before an await, and the booking of the
\* fill), the account exceeds the maximum of positions by no more than the
\* symbols of which the tracker missed a fill (evaluate_risk).
PositionsWithinMax ==
  ~Crowded => Cardinality({s \in Symbols : Net(s, Executed) > 0}) <= MaxPositions + Cardinality(Missed)

\* The account is overdrawn by no more than the orders did not see: the cost
\* accepted after they read the buying power, and their own if they had no
\* quote (_buying_power_allows_order).
OverdraftWithinUnseen ==
  BuyingPower >= -SumFunctionOnSet([o \in All |-> Get(o).unseen], All)

\* Entries that do not overlap spend, in the fills the flow counts, no more
\* than the limit and one order: without one of the buys the flow is above it.
\* The limit bounds what is invested, not only what is lost
\* (_sync_strategy_daily_pnl counts a buy as an outflow).
OutlayWithinLimit ==
  ~Crowded /\ Joined("buy") # {} => \E o \in Joined("buy") : Flow + Get(o).price > -Limit

\* Long positions: an entry passes a realized loss that reaches the limit only
\* as far as the cash flow has the sale and not the purchase (of an earlier
\* day, of a snapshot, without a row or still to be recorded), so that the
\* sale looks like a gain (evaluate_risk, _sync_strategy_daily_pnl).
LossStopsEntries == \A s \in Symbols : call[s] = "account" => loss[s] + carried[s] > -Limit

\* What router.py:29 calls the limits: "Approved per-strategy realized P&L
\* caps".  A buy that is still open counts against them.
LimitMeansRealizedLoss ==
  \A s \in Symbols : call[s] = "limited" => loss[s] <= -Limit
=============================================================================
