--------------------------- MODULE FuturesSession ---------------------------
(***************************************************************************)
(* Strategy 006, futures_intraday.py: one FuturesIntradayStrategy object   *)
(* under the stream tasks of its two contracts.  The session's date, sums, *)
(* true ranges, previous close and bands are one set for both; only the    *)
(* count of bars and the side of the position are kept per contract.       *)
(*                                                                         *)
(* on_bar awaits nothing: a bar is one step.  The task of a contract waits *)
(* for its order before it takes the next bar; the other one goes on.      *)
(* Whether the order executes does not come back to the strategy.          *)
(*                                                                         *)
(* A stream gives the bars of a contract in their order, the forming one   *)
(* many times, and may lag behind the other by days.  Prices are left      *)
(* open: any bar after the warm-up may be near the VWAP, inside the bands  *)
(* or across one.  The RSI needs 15 closes and the warm-up has 30.         *)
(***************************************************************************)
EXTENDS Integers, Sequences, FiniteSets

CONSTANTS Contracts,  \* symbols, by _norm_sym
          WarmUp,     \* bars of a contract before it is judged, 30
          AtrBars,    \* true ranges the ATR needs, 14
          Days,       \* bound: the last date
          MaxLives    \* bound: starts of the platform

ASSUME ContractsAssumption == IsFiniteSet(Contracts)
ASSUME FuturesBoundsAssumption ==
  WarmUp \in Nat \ {0} /\ AtrBars \in Nat /\ Days \in Nat /\ MaxLives \in Nat

VARIABLES
  today,        \* the date in New York
  lives,        \* starts so far
  running,      \* the platform runs
  given006,     \* per contract: the date of the newest bar its stream gave
  routing,      \* per contract: its task awaits route
  session_date,
  bar_count,    \* _bar_count, up to WarmUp
  tr_buffer,    \* its length, up to AtrBars
  prev_close,   \* whose bar it is of, and of which date
  bands,        \* prev_upper and prev_lower: likewise
  positions,    \* _positions
  entered       \* history: per contract, its entries

strategy006 == <<session_date, bar_count, tr_buffer, prev_close, bands, positions>>
futuresVars == <<today, lives, running, given006, routing, strategy006, entered>>

NoDay == 0
Unknown == [day |-> NoDay]
Reading006 == [day : Nat \ {NoDay}, of : Contracts]
Sides006 == {"none", "long", "short"}
Entry006 == [day : Nat, life : Nat, close : Reading006, bands : Reading006, warm : BOOLEAN]

Forgotten ==
  /\ session_date' = NoDay
  /\ bar_count' = [s \in Contracts |-> 0]
  /\ tr_buffer' = 0
  /\ prev_close' = Unknown
  /\ bands' = Unknown

FuturesInit ==
  /\ today = 1
  /\ lives = 0
  /\ running = FALSE
  /\ given006 = [s \in Contracts |-> 1]
  /\ routing = [s \in Contracts |-> FALSE]
  /\ session_date = NoDay
  /\ bar_count = [s \in Contracts |-> 0]
  /\ tr_buffer = 0
  /\ prev_close = Unknown
  /\ bands = Unknown
  /\ positions = [s \in Contracts |-> "none"]
  /\ entered = [s \in Contracts |-> <<>>]

-----------------------------------------------------------------------------
(* The platform *)

Midnight ==
  /\ today < Days
  /\ today' = today + 1
  /\ UNCHANGED <<lives, running, given006, routing, strategy006, entered>>

\* update_position restores the side of what the account holds, whoever traded it.
StartLife ==
  /\ ~running
  /\ lives < MaxLives
  /\ lives' = lives + 1
  /\ running' = TRUE
  /\ positions' \in [Contracts -> Sides006]
  /\ UNCHANGED <<today, given006, routing, session_date, bar_count, tr_buffer, prev_close,
                 bands, entered>>

EndLife ==
  /\ running
  /\ running' = FALSE
  /\ routing' = [s \in Contracts |-> FALSE]
  /\ positions' = [s \in Contracts |-> "none"]
  /\ Forgotten
  /\ UNCHANGED <<today, lives, given006, entered>>

\* route returns, or raises: a BrokerError is printed, anything else opens the
\* stream again.  The strategy is the same afterwards.
OrderRouted(s) ==
  /\ routing[s]
  /\ routing' = [routing EXCEPT ![s] = FALSE]
  /\ UNCHANGED <<today, lives, running, given006, strategy006, entered>>

-----------------------------------------------------------------------------
(* on_bar *)

\* Mutant: a new session keeps the bands and the close of the last one.
KeptKeeps(d, value) == value

\* What _reset_session leaves of a reading: nothing, at the first bar of another date,
\* earlier or later.
Kept(d, value) == IF session_date = d THEN value ELSE Unknown

Counted(s, d) == IF session_date = d THEN bar_count ELSE [c \in Contracts |-> 0]

UpToLimit(n, limit) == IF n < limit THEN n ELSE limit

\* The bar of date d that the stream of s gives now.
Bar(s, d) ==
  /\ running
  /\ ~routing[s]
  /\ given006[s] <= d /\ d <= today
  /\ given006' = [given006 EXCEPT ![s] = d]
  /\ session_date' = d
  /\ bar_count' = [Counted(s, d) EXCEPT ![s] = UpToLimit(@ + 1, WarmUp)]
  /\ prev_close' = [day |-> d, of |-> s]
  /\ UNCHANGED <<today, lives, running>>

TrueRanges(d) == IF session_date = d THEN tr_buffer ELSE 0
WarmedUp(s) == bar_count'[s] >= WarmUp

\* In the warm-up, or near the VWAP: the bar is only remembered as the last one.
BarRemembered(s, d) ==
  /\ Bar(s, d)
  /\ tr_buffer' = TrueRanges(d)
  /\ bands' = Kept(d, bands)
  /\ UNCHANGED <<routing, positions, entered>>

\* Away from the VWAP; until there are true ranges for an ATR there are no bands.
BarMeasured(s, d) ==
  /\ Bar(s, d)
  /\ WarmedUp(s)
  /\ tr_buffer' = UpToLimit(TrueRanges(d) + 1, AtrBars)
  /\ bands' = IF tr_buffer' < AtrBars THEN Kept(d, bands) ELSE [day |-> d, of |-> s]
  /\ UNCHANGED <<routing, positions, entered>>

\* Across a band, from a previous close on the other side of the previous band.
BarEnters(s, d, side) ==
  /\ Bar(s, d)
  /\ WarmedUp(s)
  /\ tr_buffer' = UpToLimit(TrueRanges(d) + 1, AtrBars)
  /\ tr_buffer' >= AtrBars
  /\ Kept(d, prev_close) # Unknown
  /\ Kept(d, bands) # Unknown
  /\ positions[s] = "none"
  /\ positions' = [positions EXCEPT ![s] = side]
  /\ bands' = [day |-> d, of |-> s]
  /\ routing' = [routing EXCEPT ![s] = TRUE]
  /\ entered' = [entered EXCEPT ![s] = Append(@,
       [day |-> d, life |-> lives, close |-> Kept(d, prev_close), bands |-> Kept(d, bands),
        warm |-> bar_count'[s] >= WarmUp])]

FuturesNext ==
  \/ Midnight
  \/ StartLife
  \/ EndLife
  \/ \E s \in Contracts :
       \/ OrderRouted(s)
       \/ \E d \in 1..Days : BarRemembered(s, d)
       \/ \E d \in 1..Days : BarMeasured(s, d)
       \/ \E d \in 1..Days, side \in {"long", "short"} : BarEnters(s, d, side)

FuturesSpec == FuturesInit /\ [][FuturesNext]_futuresVars

-----------------------------------------------------------------------------
(* Properties *)

\* Every variable has its type.
FuturesTypeOK ==
  /\ today \in Nat \ {NoDay}
  /\ lives \in Nat
  /\ running \in BOOLEAN
  /\ given006 \in [Contracts -> Nat \ {NoDay}]
  /\ routing \in [Contracts -> BOOLEAN]
  /\ session_date \in Nat
  /\ bar_count \in [Contracts -> Nat]
  /\ tr_buffer \in Nat
  /\ prev_close \in Reading006 \cup {Unknown}
  /\ bands \in Reading006 \cup {Unknown}
  /\ positions \in [Contracts -> Sides006]
  /\ entered \in [Contracts -> Seq(Entry006)]

\* An entry is judged by a close and by bands of its own session and after its own
\* contract's warm-up, although the bars of the other contract, late by a session or
\* early, reset the session in between.
BandsOfSession ==
  \A s \in Contracts : \A i \in DOMAIN entered[s] :
    LET e == entered[s][i]
    IN  e.close.day = e.day /\ e.bands.day = e.day /\ e.warm

\* A contract is entered once in a life of the platform: the strategy does not hear
\* that the bracket closed the position, and never looks for another.
OneEntryPerLife ==
  \A s \in Contracts : \A i, j \in DOMAIN entered[s] :
    i < j => entered[s][i].life < entered[s][j].life

\* docs/strategies/strategy_006_v0.2.0.md:107: an entry of a contract is judged by the
\* bars of that contract, "per instrument, independent".
JudgedByOwnContract ==
  \A s \in Contracts : \A i \in DOMAIN entered[s] :
    entered[s][i].close.of = s /\ entered[s][i].bands.of = s

=============================================================================
