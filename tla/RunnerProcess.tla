--------------------------- MODULE RunnerProcess ---------------------------
(***************************************************************************)
(* A process of execution/runner.py, the way start_trading.ps1 starts      *)
(* strategy 002: the streams of its symbols (MultiSymbolScanner, or        *)
(* MarketDataPipeline for a single one), the queue between them and        *)
(* StrategyRunner, the strategy's on_bar, the router, and the two tasks    *)
(* whose first exception ends the process.                                 *)
(*                                                                         *)
(* The strategy changes its memory before its signal is routed and hears   *)
(* of no fill.  A start knows nothing of the positions of the last life:   *)
(* the runner never asks for them.  The streams are not opened again when  *)
(* they end; the process then waits for a bar that cannot come, until the  *)
(* operator closes it.                                                     *)
(*                                                                         *)
(* The platform is another process on the same account.  Its flatten takes *)
(* the positions in the strategy's symbols for its own to close, and       *)
(* neither process hears of the other's orders.                            *)
(*                                                                         *)
(* Prices are left open: any bar in its time may give any signal the       *)
(* strategy's memory allows.  A position is one lot.                       *)
(***************************************************************************)
EXTENDS Integers, Sequences, FiniteSets, Functions

CONSTANTS Tickers,    \* symbols of --symbol
          Universe,   \* the strategy's own symbols
          MaxHeld,    \* _max_positions
          Smoke,      \* --max-bars, when it is given
          MaxGiven,   \* bound: bars the streams give
          MaxStarts,  \* bound: starts of the process
          MaxSweeps   \* bound: flattens of the platform

ASSUME TickersAssumption == IsFiniteSet(Tickers)
ASSUME RunnerBoundsAssumption ==
  MaxHeld \in Nat /\ Smoke \in Nat /\ MaxGiven \in Nat /\ MaxStarts \in Nat
  /\ MaxSweeps \in Nat

VARIABLES
  limit,     \* max_bars of this life, 0 when --max-bars is not given
  up,        \* the process runs
  stream,    \* per symbol: its consumer reads, or has left its loop
  counted,   \* bars the consumers have counted (total, or the pipeline's n)
  queue,     \* the asyncio.Queue of the fan-in: unbounded
  handled,   \* bars StrategyRunner.run has finished (n)
  order,     \* the signal it routes
  holds,     \* positions: the strategy's memory
  own,       \* broker: lots the strategy's orders bought, less those they sold
  closed,    \* broker: lots the platform's flatten sold, less those it bought back
  toClose,   \* enforce_eod_close: what it read and has still to send an order for
  missed,    \* history: buys the strategy counts that never executed
  unsold,    \* history: sells that never executed
  sweeps,
  given,     \* bars so far
  starts

memory002 == <<holds>>
sweepVars == <<closed, toClose, sweeps>>
history002 == <<own, missed, unsold, sweepVars>>
runnerVars == <<limit, up, stream, counted, queue, handled, order, memory002, history002,
                given, starts>>

Times == {"window", "late", "close"}   \* 9:35-14:00; to 15:55; from 15:55
Bars == [sym : Tickers, time : Times]
NoOrder == [side |-> "none"]
Orders002 == [side : {"buy", "sell"}, sym : Tickers]

\* What the account holds of the strategy's lots (others' lots are left out).
Account == [s \in Tickers |-> own[s] - closed[s]]
NoLots == [s \in Tickers |-> 0]

RunnerInit ==
  /\ limit = 0
  /\ up = FALSE
  /\ stream = [s \in Tickers |-> "left"]
  /\ counted = 0
  /\ queue = <<>>
  /\ handled = 0
  /\ order = NoOrder
  /\ holds = [s \in Tickers |-> FALSE]
  /\ own = NoLots /\ closed = NoLots /\ toClose = NoLots
  /\ missed = [s \in Tickers |-> 0]
  /\ unsold = [s \in Tickers |-> 0]
  /\ given = 0
  /\ starts = 0 /\ sweeps = 0

-----------------------------------------------------------------------------
(* The process *)

\* One symbol takes the pipeline, several the scanner: both read their streams once.
StartRunner ==
  /\ ~up
  /\ starts < MaxStarts
  /\ starts' = starts + 1
  /\ limit' \in {0, Smoke}
  /\ up' = TRUE
  /\ stream' = [s \in Tickers |-> "reads"]
  /\ counted' = 0
  /\ queue' = <<>>
  /\ handled' = 0
  /\ order' = NoOrder
  /\ holds' = [s \in Tickers |-> FALSE]
  /\ UNCHANGED <<history002, given>>

\* What ends a process: its memory and its queue are gone.
Gone ==
  /\ up' = FALSE
  /\ stream' = [s \in Tickers |-> "left"]
  /\ queue' = <<>>
  /\ order' = NoOrder
  /\ holds' = [s \in Tickers |-> FALSE]
  /\ UNCHANGED <<limit, counted, handled, given, starts>>

FeedEnded == \A s \in Tickers : stream[s] = "left"
RunnerEnded == limit > 0 /\ handled >= limit

\* asyncio.wait returns: with a number of bars both tasks end.
Finish ==
  /\ up
  /\ FeedEnded
  /\ RunnerEnded
  /\ Gone
  /\ UNCHANGED history002

\* An exception of a stream ends the feed's task and, through FIRST_EXCEPTION, the
\* other one; a death or the operator do the same.
Fails ==
  /\ up
  /\ Gone
  /\ UNCHANGED history002

-----------------------------------------------------------------------------
(* MultiSymbolScanner.run, MarketDataPipeline.run *)

Done == limit > 0 /\ counted >= limit

\* The one queue of the process, which refuses nothing and gives in order.
Published(b) == queue' = Append(queue, b)

\* A bar of another tenant is passed over and changes nothing.  Between the queue's
\* put and the count nothing else runs: neither suspends.
Arrives(s, time) ==
  /\ up
  /\ stream[s] = "reads"
  /\ ~Done
  /\ given < MaxGiven
  /\ given' = given + 1
  /\ Published([sym |-> s, time |-> time])
  /\ counted' = IF limit > 0 THEN counted + 1 ELSE counted
  /\ stream' = [stream EXCEPT ![s] = IF limit > 0 /\ counted + 1 >= limit THEN "left" ELSE @]
  /\ UNCHANGED <<limit, up, handled, order, memory002, history002, starts>>

\* After the last bar a consumer leaves at its next one; and when its stream ends.
Leaves(s) ==
  /\ up
  /\ stream[s] = "reads"
  /\ stream' = [stream EXCEPT ![s] = "left"]
  /\ UNCHANGED <<limit, up, counted, queue, handled, order, memory002, history002, given, starts>>

-----------------------------------------------------------------------------
(* StrategyRunner.run and EquityMomentumStrategy.on_bar *)

\* The runner takes a bar when the signals of the one before are routed.
Takes(b) ==
  /\ up
  /\ order = NoOrder
  /\ ~RunnerEnded
  /\ queue # <<>>
  /\ b = Head(queue)
  /\ queue' = Tail(queue)

Held == {s \in Tickers : holds[s]}

\* The wrapper of on_bar passes over the bars of symbols that are not the strategy's.
Watched(b) == b.sym \in Universe

\* No signal: no bar from 15:55 on leaves a position it knows.
Quiet ==
  \E b \in Bars :
    /\ Takes(b)
    /\ ~(holds[b.sym] /\ b.time = "close")
    /\ handled' = handled + 1
    /\ UNCHANGED <<limit, up, stream, counted, order, memory002, history002, given, starts>>

\* Mutant: one more than there is room for.
BuysOneMore ==
  \E b \in Bars :
    /\ Takes(b)
    /\ Watched(b)
    /\ ~holds[b.sym]
    /\ b.time = "window"
    /\ Cardinality(Held) <= MaxHeld
    /\ holds' = [holds EXCEPT ![b.sym] = TRUE]
    /\ order' = [side |-> "buy", sym |-> b.sym]
    /\ UNCHANGED <<limit, up, stream, counted, handled, history002, given, starts>>

\* The breakout of a symbol without a position, in the window, with room for it.
Buys ==
  \E b \in Bars :
    /\ Takes(b)
    /\ Watched(b)
    /\ ~holds[b.sym]
    /\ b.time = "window"
    /\ Cardinality(Held) < MaxHeld
    /\ holds' = [holds EXCEPT ![b.sym] = TRUE]
    /\ order' = [side |-> "buy", sym |-> b.sym]
    /\ UNCHANGED <<limit, up, stream, counted, handled, history002, given, starts>>

\* Mutant: the position is kept in memory when its exit is sent.
SellsKeeps ==
  \E b \in Bars :
    /\ Takes(b)
    /\ holds[b.sym]
    /\ order' = [side |-> "sell", sym |-> b.sym]
    /\ UNCHANGED <<limit, up, stream, counted, handled, memory002, history002, given, starts>>

\* An exit: the close at 15:55, the stop, the average, the target or the trail.  The
\* whole position leaves the memory at once.
Sells ==
  \E b \in Bars :
    /\ Takes(b)
    /\ holds[b.sym]
    /\ holds' = [holds EXCEPT ![b.sym] = FALSE]
    /\ order' = [side |-> "sell", sym |-> b.sym]
    /\ UNCHANGED <<limit, up, stream, counted, handled, history002, given, starts>>

-----------------------------------------------------------------------------
(* OrderRouter.route *)

Lots(o) == IF o.side = "buy" THEN 1 ELSE -1
Traded(o) == own' = [own EXCEPT ![o.sym] = @ + Lots(o)]

Routed ==
  /\ order # NoOrder
  /\ order' = NoOrder
  /\ handled' = handled + 1
  /\ UNCHANGED <<limit, up, stream, counted, queue, memory002, sweepVars, given, starts>>

\* The broker takes the order and executes it.
Executes ==
  /\ Routed
  /\ Traded(order)
  /\ UNCHANGED <<missed, unsold>>

\* The risk checks or the buying power refuse an entry, route returns None; or the
\* broker takes an order and lets it die.
NotExecuted ==
  /\ Routed
  /\ IF order.side = "buy"
       THEN missed' = [missed EXCEPT ![order.sym] = @ + 1] /\ UNCHANGED unsold
       ELSE unsold' = [unsold EXCEPT ![order.sym] = @ + 1] /\ UNCHANGED missed
  /\ UNCHANGED own

\* A request raises: nothing catches it, the process ends.  The broker may have the
\* order all the same.
RouteRaises002 ==
  /\ order # NoOrder
  /\ Gone
  /\ Traded(order) \/ UNCHANGED own
  /\ UNCHANGED <<missed, unsold, sweepVars>>

-----------------------------------------------------------------------------
(* The platform: _eod_flatten_task, enforce_eod_close *)

runnerState == <<limit, up, stream, counted, queue, handled, order, memory002, own, missed,
                 unsold, given, starts>>

\* get_positions: what the account holds in the symbols of the strategy.  The day and
\* its times are TradingCalendar's; here a flatten may begin between any two steps.
FlattenReads ==
  /\ toClose = NoLots
  /\ sweeps < MaxSweeps
  /\ sweeps' = sweeps + 1
  /\ toClose' = [s \in Tickers |-> IF s \in Universe THEN Account[s] ELSE 0]
  /\ UNCHANGED <<runnerState, closed>>

\* One market order for what was read, however the position has changed since; it may
\* die at the broker.  If the request raises, no order for the rest is sent.
FlattenSends(s) ==
  /\ toClose[s] # 0
  /\ toClose' \in {[toClose EXCEPT ![s] = 0], NoLots}
  /\ closed' \in {[closed EXCEPT ![s] = @ + toClose[s]], closed}
  /\ UNCHANGED <<runnerState, sweeps>>

RunnerNext ==
  \/ StartRunner
  \/ Finish
  \/ Fails
  \/ \E s \in Tickers : Leaves(s)
  \/ \E s \in Tickers, time \in Times : Arrives(s, time)
  \/ Quiet
  \/ Buys
  \/ Sells
  \/ Executes
  \/ NotExecuted
  \/ RouteRaises002
  \/ FlattenReads
  \/ \E s \in Tickers : FlattenSends(s)

RunnerSpec == RunnerInit /\ [][RunnerNext]_runnerVars

-----------------------------------------------------------------------------
(* Properties *)

\* Every variable has its type.
RunnerTypeOK ==
  /\ limit \in Nat
  /\ up \in BOOLEAN
  /\ stream \in [Tickers -> {"reads", "left"}]
  /\ counted \in Nat
  /\ queue \in Seq(Bars)
  /\ handled \in Nat
  /\ order \in Orders002 \cup {NoOrder}
  /\ holds \in [Tickers -> BOOLEAN]
  /\ own \in [Tickers -> Int] /\ closed \in [Tickers -> Int] /\ toClose \in [Tickers -> Int]
  /\ missed \in [Tickers -> Nat]
  /\ unsold \in [Tickers -> Nat]
  /\ given \in Nat
  /\ starts \in Nat /\ sweeps \in Nat

\* The account is short of a symbol by no more than the buys that the strategy counts
\* and that were refused or died (route's None is not looked at), and what the platform's
\* flatten sold of it before the strategy's own exit (INTRADAY_STRATEGIES).
ShortWithinMissed ==
  \A s \in Tickers : Account[s] < 0 => -Account[s] <= missed[s] + closed[s]

\* What the strategy's orders left in the account is within the limit of positions once
\* for every life of the process, and what it failed to sell: each life forgets the
\* positions of the last.
HeldWithinLives ==
  SumFunctionOnSet([s \in Tickers |-> own[s] - unsold[s]], Tickers) <= MaxHeld * starts

\* A smoke run hands over no more bars than it was asked for, however many streams
\* count, and handles none beyond them.
CountsTogether == limit > 0 => counted <= limit /\ handled <= counted

=============================================================================
