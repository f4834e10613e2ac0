--------------------------- MODULE DailyBacktest ---------------------------
(***************************************************************************)
(* The simulations of daily strategies: run_strategy_002 and               *)
(* run_strategy_004 in strategy_multi_sim.py, run_backtest_002 in          *)
(* scripts/backtest_002_localcsv.py.  A day takes the orders of earlier    *)
(* nights at the open, one symbol after the other, then the stops and the  *)
(* other exits, then the signals.                                          *)
(*                                                                         *)
(* A symbol may have no row on a day.  Which rows give a signal or cross   *)
(* the average is left open; a VIX that is too high or missing gives no    *)
(* signal, and the look at the same day's value before the entry finds     *)
(* nothing else.  run_strategy_004 has a target and no cross, 002 a cross  *)
(* and no target; both drop an entry whose symbol has no row the next day. *)
(* run_backtest_002 keeps orders for the symbol's next row, and its exits, *)
(* the stop apart, are orders too.                                         *)
(***************************************************************************)
EXTENDS Integers, FiniteSets, Functions

CONSTANTS NumSymbols,   \* the symbols, in the order of their names
          Prices,       \* of rows, multiples of 25
          Capital,      \* total_capital
          PerSlot,      \* per_slot
          MaxPos,       \* max_pos
          StopPercent,  \* 92; 96
          MaxSessions,  \* 20; 10
          NumDates      \* bound: rows of the calendar

ASSUME PricesAssumption ==
  Prices \subseteq Nat \ {0} /\ (\A p \in Prices : p % 25 = 0) /\ NumSymbols \in Nat
ASSUME SizesAssumption ==
  /\ Capital \in Nat /\ PerSlot \in Nat /\ MaxPos \in Nat
  /\ StopPercent \in 1..99 /\ MaxSessions \in Nat /\ NumDates \in Nat

VARIABLES
  sim,        \* which simulation: 002, 004, local
  di,         \* index of the day
  row,        \* its rows
  at_close,   \* the entries of the day are done
  pending,    \* entries ordered and not yet looked at
  leaving,    \* exits ordered, of the local simulation
  cash,
  held,       \* positions: shares, p0, entry_idx
  exits       \* history: the day's exits

backtestVars == <<sim, di, row, at_close, pending, leaving, cash, held, exits>>

Names002 == 1..NumSymbols
NoRow == [kind |-> "none"]
NoPos == [shares |-> 0]
Rows == {r \in [open : Prices, high : Prices, low : Prices, close : Prices] :
           r.low <= r.open /\ r.low <= r.close /\ r.open <= r.high /\ r.close <= r.high}
Position == [shares : Nat \ {0}, p0 : Prices, entry_idx : Nat]

\* Before the first date.
BacktestInit ==
  /\ sim \in {"002", "004", "local"}
  /\ di = -1
  /\ row = [s \in Names002 |-> NoRow]
  /\ at_close = TRUE
  /\ pending = {}
  /\ leaving = {}
  /\ cash = Capital
  /\ held = [s \in Names002 |-> NoPos]
  /\ exits = {}

Open == {s \in Names002 : held[s] # NoPos}
HasRow(s) == row[s] # NoRow

\* The sale of the positions in the domain of price.
Proceeds(price) ==
  SumFunctionOnSet([s \in DOMAIN price |-> held[s].shares * price[s]], DOMAIN price)

-----------------------------------------------------------------------------
(* The open *)

Due(orders) == {s \in orders : HasRow(s)}

ExitsAtOpen ==
  /\ ~at_close
  /\ Due(leaving) # {}
  /\ cash' = cash + Proceeds([s \in Due(leaving) |-> row[s].open])
  /\ held' = [s \in Names002 |-> IF s \in Due(leaving) THEN NoPos ELSE held[s]]
  /\ exits' = {[row |-> row[s], price |-> row[s].open, p0 |-> held[s].p0] : s \in Due(leaving)}
  /\ leaving' = leaving \ Due(leaving)
  /\ UNCHANGED <<sim, di, row, at_close, pending>>

\* Entries whose turn it is: all of last night's, or those of symbols with a row.
Ordered == IF sim = "local" THEN Due(pending) ELSE pending

Least(S) == CHOOSE s \in S : \A t \in S : s <= t
SmallerOf(a, b) == IF a <= b THEN a ELSE b

\* The market value at the open of what is held; nothing for a symbol without a row.
Used ==
  SumFunctionOnSet([s \in Names002 |-> IF HasRow(s) THEN held[s].shares * row[s].open ELSE 0],
                   Open)

Slot == IF sim = "local" THEN PerSlot ELSE SmallerOf(PerSlot, Capital - Used)
SharesFor(s) == IF Slot <= 0 THEN 0 ELSE Slot \div row[s].open

\* Mutant: the cash is not looked at.
AffordsAny(s) == SharesFor(s) > 0

\* The slot is measured by the capital, or fixed, not by the cash that is left.
Affords(s) == SharesFor(s) > 0 /\ SharesFor(s) * row[s].open <= cash

Enters(s) ==
  /\ Cardinality(Open) < MaxPos
  /\ s \notin Open
  /\ HasRow(s)
  /\ Affords(s)

\* In the order of the names; the local simulation in the order of the signals.
EntryAtOpen ==
  /\ ~at_close
  /\ Due(leaving) = {}
  /\ \E s \in Ordered :
       /\ sim # "local" => s = Least(Ordered)
       /\ pending' = pending \ {s}
       /\ IF Enters(s)
            THEN /\ cash' = cash - SharesFor(s) * row[s].open
                 /\ held' = [held EXCEPT ![s] =
                               [shares |-> SharesFor(s), p0 |-> row[s].open, entry_idx |-> di]]
            ELSE UNCHANGED <<cash, held>>
  /\ UNCHANGED <<sim, di, row, at_close, leaving, exits>>

-----------------------------------------------------------------------------
(* Exits and signals *)

Stop(s) == (held[s].p0 * StopPercent) \div 100
Target(s) == (held[s].p0 * 108) \div 100
Sessions002(s) == di - held[s].entry_idx + 1

Stopped == {s \in Open : HasRow(s) /\ row[s].low <= Stop(s)}

\* Mutant: the target is the entry price.
ReachedEarly == {s \in Open \ Stopped : sim = "004" /\ HasRow(s) /\ row[s].high >= held[s].p0}

Reached == {s \in Open \ Stopped : sim = "004" /\ HasRow(s) /\ row[s].high >= Target(s)}
TimedOut == {s \in Open \ (Stopped \cup Reached) :
               sim # "local" /\ HasRow(s) /\ Sessions002(s) >= MaxSessions}

\* Only run_strategy_002 looks at the average here; it must have rows.
MayCross == {s \in Open \ (Stopped \cup TimedOut) : sim = "002" /\ HasRow(s)}

\* A stop and a target are filled at their price, wherever the day opened.
Price(s) == IF s \in Stopped THEN Stop(s) ELSE IF s \in Reached THEN Target(s) ELSE row[s].close

CloseOfDay ==
  /\ ~at_close
  /\ Due(leaving) = {}
  /\ Ordered = {}
  /\ \E crossed \in SUBSET MayCross :
       LET out == Stopped \cup Reached \cup TimedOut \cup crossed
       IN  /\ cash' = cash + Proceeds([s \in out |-> Price(s)])
           /\ held' = [s \in Names002 |-> IF s \in out THEN NoPos ELSE held[s]]
           /\ exits' = exits \cup {[row |-> row[s], price |-> Price(s), p0 |-> held[s].p0] : s \in out}
  /\ at_close' = TRUE
  /\ UNCHANGED <<sim, di, row, pending, leaving>>

\* A signal needs a row and no position.
MaySignal == {s \in Names002 \ Open : HasRow(s)}

MayLeave == IF sim = "local" THEN {s \in Open : HasRow(s)} ELSE {}

\* The evening's signals, and the next date.
NextDate ==
  /\ at_close
  /\ di + 1 < NumDates
  /\ di' = di + 1
  /\ row' \in [Names002 -> Rows \cup {NoRow}]
  /\ at_close' = FALSE
  /\ \E entries \in SUBSET MaySignal, outs \in SUBSET MayLeave :
       pending' = pending \cup entries /\ leaving' = leaving \cup outs
  /\ exits' = {}
  /\ UNCHANGED <<sim, cash, held>>

BacktestNext == ExitsAtOpen \/ EntryAtOpen \/ CloseOfDay \/ NextDate

BacktestSpec == BacktestInit /\ [][BacktestNext]_backtestVars

-----------------------------------------------------------------------------
(* Properties *)

\* Every variable has its type.
BacktestTypeOK ==
  /\ sim \in {"002", "004", "local"}
  /\ di \in Nat \cup {-1}
  /\ row \in [Names002 -> Rows \cup {NoRow}]
  /\ at_close \in BOOLEAN
  /\ pending \in SUBSET Names002 /\ leaving \in SUBSET Names002
  /\ cash \in Int
  /\ held \in [Names002 -> Position \cup {NoPos}]

\* The simulation never spends more than it has, although it sizes an entry by the
\* capital it began with, less what it holds, at prices that may be missing.
CashCoversEntries == cash >= 0 /\ Cardinality(Open) <= MaxPos

\* An exit at a price the day did not trade at is a stop on a day that opened below it,
\* or a target on a day that opened above: every other exit is inside the day's range.
GapFillsOnly ==
  \A e \in exits :
    \/ e.row.low <= e.price /\ e.price <= e.row.high
    \/ e.price < e.p0 /\ e.row.high < e.price
    \/ e.price > e.p0 /\ e.row.low > e.price

=============================================================================
