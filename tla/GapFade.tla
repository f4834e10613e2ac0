------------------------------ MODULE GapFade ------------------------------
(***************************************************************************)
(* Strategy 007 under the platform's streaming tasks: GapFadeStrategy, one *)
(* object shared by the tasks of its symbols, and _stream_symbol and       *)
(* _handle_bar, which give it bars.                                        *)
(*                                                                         *)
(* A session has three times: the bar of 9:30, bars before 11:00, bars     *)
(* from 11:00 on.  The stream gives the bars of a symbol in their order,   *)
(* gives the forming bar again and again, repeats the last one on every    *)
(* connection, and may be behind the clock by whole sessions.  The VIX is  *)
(* the newest daily one when the request is answered, whatever bar asked.  *)
(* Prices are left open: any bar of 9:30 may or may not show the gap.      *)
(*                                                                         *)
(* _dict_to_signals turns neither sell_short nor buy_to_cover into a       *)
(* signal (runner.py:127), so that nothing the strategy decides is routed  *)
(* and _handle_bar ends with on_bar.                                       *)
(***************************************************************************)
EXTENDS Integers, Sequences, FiniteSets

CONSTANTS Stocks,     \* symbols of the strategy
          MaxShorts,  \* MAX_POSITIONS
          LastDay,    \* bound: sessions
          MaxDeaths   \* bound: process deaths

ASSUME StocksAssumption == IsFiniteSet(Stocks)
ASSUME GapBoundsAssumption == MaxShorts \in Nat /\ LastDay \in Nat \ {0} /\ MaxDeaths \in Nat

VARIABLES
  clock,      \* the market: session and time of the newest bar
  alive,      \* the platform runs
  task,       \* per symbol: what its task does
  bar,        \* per symbol: the bar in hand while the VIX is awaited
  shown,      \* per symbol: the newest bar the stream has given
  lastClose,  \* _last_close: the session it is of, None before the first bar
  prevClose,  \* _prev_close: the session it is of
  session,    \* _last_session_date
  evaluated,  \* _opening_evaluated
  short,      \* _position is "short"
  vix,        \* _vix_today: the session it is of, whether it allows entries
  vixDate,    \* _vix_fetched_date
  entries,    \* history: per symbol, the entries
  deaths

memory == <<lastClose, prevClose, session, evaluated, short, vix, vixDate>>
gapVars == <<clock, alive, task, bar, shown, memory, entries, deaths>>

None == 0
Opening == 1
Morning == 2
Stopping == 3

Stamp == [day : Nat \ {None}, time : Opening..Stopping]
\* The session of the bar, of the VIX and of the previous close, and when it was decided.
Entry == [day : Nat, vix : Nat, prev : Nat, at : Nat]
TaskStates == {"asleep", "stream", "vix"}

\* a is not later than b.
UpTo(a, b) == a.day < b.day \/ (a.day = b.day /\ a.time <= b.time)

\* A new GapFadeStrategy.
Blank ==
  /\ lastClose = [s \in Stocks |-> None]
  /\ prevClose = [s \in Stocks |-> None]
  /\ session = [s \in Stocks |-> None]
  /\ evaluated = [s \in Stocks |-> FALSE]
  /\ short = [s \in Stocks |-> FALSE]
  /\ vix = [of |-> None, allows |-> FALSE]
  /\ vixDate = None

GapInit ==
  /\ clock = [day |-> 1, time |-> Opening]
  /\ alive = FALSE
  /\ task = [s \in Stocks |-> "asleep"]
  /\ bar = [s \in Stocks |-> clock]
  /\ shown = [s \in Stocks |-> clock]
  /\ Blank
  /\ entries = [s \in Stocks |-> <<>>]
  /\ deaths = 0

-----------------------------------------------------------------------------
(* The market and the connection *)

MarketMoves ==
  /\ \/ clock.time < Stopping /\ clock' = [clock EXCEPT !.time = @ + 1]
     \/ /\ clock.time = Stopping
        /\ clock.day < LastDay
        /\ clock' = [day |-> clock.day + 1, time |-> Opening]
  /\ UNCHANGED <<alive, task, bar, shown, memory, entries, deaths>>

\* The platform starts: update_position marks what the account is short in.
\* The account may hold shorts that were sold by hand.
Start ==
  /\ ~alive
  /\ alive' = TRUE
  /\ \E sold \in SUBSET Stocks : short' = [s \in Stocks |-> s \in sold]
  /\ UNCHANGED <<clock, task, bar, shown, lastClose, prevClose, session, evaluated, vix,
                 vixDate, entries, deaths>>

\* The stream opens, at once or after the pause of the loop.
Connect(s) ==
  /\ alive
  /\ task[s] = "asleep"
  /\ task' = [task EXCEPT ![s] = "stream"]
  /\ UNCHANGED <<clock, alive, bar, shown, memory, entries, deaths>>

\* The connection ends or fails: the task sleeps and opens it again.
Disconnect(s) ==
  /\ task[s] = "stream"
  /\ task' = [task EXCEPT ![s] = "asleep"]
  /\ UNCHANGED <<clock, alive, bar, shown, memory, entries, deaths>>

-----------------------------------------------------------------------------
(* on_bar *)

NewSession(s, b) == b.day # session[s]

\* STEP 1 and STEP 2: the first bar of another session makes the last close the
\* previous one and forgets the position; every bar is the last close.
Sessions(s, b) ==
  /\ session' = [session EXCEPT ![s] = b.day]
  /\ prevClose' = [prevClose EXCEPT ![s] =
                     IF NewSession(s, b) /\ lastClose[s] # None THEN lastClose[s] ELSE @]
  /\ lastClose' = [lastClose EXCEPT ![s] = b.day]

StillShort(s, b) == short[s] /\ ~NewSession(s, b)

\* Mutant: a second bar of 9:30 is looked at again.
FirstOpeningBarAny(s, b) == b.time = Opening

\* The first bar of 9:30 of this session.
FirstOpeningBar(s, b) == b.time = Opening /\ (NewSession(s, b) \/ ~evaluated[s])

OpenShorts(s, b) == {o \in Stocks \ {s} : short[o]} \cup (IF StillShort(s, b) THEN {s} ELSE {})

\* All but the price: a previous close, a VIX in its range, room for a position.
MayEnter(s, b, level) ==
  /\ FirstOpeningBar(s, b)
  /\ prevClose'[s] # None
  /\ level.allows
  /\ Cardinality(OpenShorts(s, b)) < MaxShorts

\* The time stop: from 11:00 on a short is covered.
TimeStop(s, b) == StillShort(s, b) /\ b.time = Stopping

OnBar(s, b, level) ==
  /\ Sessions(s, b)
  /\ evaluated' = [evaluated EXCEPT ![s] =
                     FirstOpeningBar(s, b) \/ (@ /\ ~NewSession(s, b))]
  /\ \/ /\ short' = [short EXCEPT ![s] = StillShort(s, b) /\ ~TimeStop(s, b)]
        /\ UNCHANGED entries
     \/ /\ MayEnter(s, b, level)
        /\ short' = [short EXCEPT ![s] = TRUE]
        /\ entries' = [entries EXCEPT ![s] =
                         Append(@, [day |-> b.day, vix |-> level.of, prev |-> prevClose'[s],
                                    at |-> clock.day])]

-----------------------------------------------------------------------------
(* _handle_bar *)

\* The stream gives a bar that is not older than the one before.
Gives(s, b) ==
  /\ task[s] = "stream"
  /\ UpTo(shown[s], b)
  /\ UpTo(b, clock)
  /\ shown' = [shown EXCEPT ![s] = b]

\* Mutant: the session is marked before the request and not after its answer.
AskVixMarked(s, b) ==
  /\ Gives(s, b)
  /\ vixDate # b.day
  /\ vixDate' = b.day
  /\ task' = [task EXCEPT ![s] = "vix"]
  /\ bar' = [bar EXCEPT ![s] = b]
  /\ UNCHANGED <<clock, alive, lastClose, prevClose, session, evaluated, short, vix, entries, deaths>>

\* The session's VIX is not there: the bar waits for it.  Several tasks may wait.
AskVix(s, b) ==
  /\ Gives(s, b)
  /\ vixDate # b.day
  /\ task' = [task EXCEPT ![s] = "vix"]
  /\ bar' = [bar EXCEPT ![s] = b]
  /\ UNCHANGED <<clock, alive, memory, entries, deaths>>

\* Without a request there is no await between the look and on_bar.
BarHandled(s, b) ==
  /\ Gives(s, b)
  /\ vixDate = b.day
  /\ OnBar(s, b, vix)
  /\ UNCHANGED <<clock, alive, task, bar, vix, vixDate, deaths>>

\* The answer gives the newest daily bar of the VIX, that of the running session (the
\* request names no date), and is kept under the date of the bar that asked.  A failure
\* counts as an answer: no entry for the session unless another request succeeds.
VixAnswered(s, allows) ==
  /\ task[s] = "vix"
  /\ task' = [task EXCEPT ![s] = "stream"]
  /\ vix' = [of |-> clock.day, allows |-> allows]
  /\ vixDate' = bar[s].day
  /\ OnBar(s, bar[s], vix')
  /\ UNCHANGED <<clock, alive, bar, shown, deaths>>

Die ==
  /\ alive
  /\ deaths < MaxDeaths
  /\ deaths' = deaths + 1
  /\ alive' = FALSE
  /\ task' = [s \in Stocks |-> "asleep"]
  /\ lastClose' = [s \in Stocks |-> None]
  /\ prevClose' = [s \in Stocks |-> None]
  /\ session' = [s \in Stocks |-> None]
  /\ evaluated' = [s \in Stocks |-> FALSE]
  /\ short' = [s \in Stocks |-> FALSE]
  /\ vix' = [of |-> None, allows |-> FALSE]
  /\ vixDate' = None
  /\ UNCHANGED <<clock, bar, shown, entries>>

Stamps == [day : 1..LastDay, time : Opening..Stopping]

GapNext ==
  \/ MarketMoves
  \/ Start
  \/ Die
  \/ \E s \in Stocks :
       \/ Connect(s)
       \/ Disconnect(s)
       \/ \E b \in Stamps : AskVix(s, b)
       \/ \E b \in Stamps : BarHandled(s, b)
       \/ \E allows \in BOOLEAN : VixAnswered(s, allows)

GapSpec == GapInit /\ [][GapNext]_gapVars

-----------------------------------------------------------------------------
(* Properties *)

\* Every variable has its type.
GapTypeOK ==
  /\ clock \in Stamp
  /\ alive \in BOOLEAN
  /\ task \in [Stocks -> TaskStates]
  /\ bar \in [Stocks -> Stamp]
  /\ shown \in [Stocks -> Stamp]
  /\ lastClose \in [Stocks -> Nat]
  /\ prevClose \in [Stocks -> Nat]
  /\ session \in [Stocks -> Nat]
  /\ evaluated \in [Stocks -> BOOLEAN]
  /\ short \in [Stocks -> BOOLEAN]
  /\ vix \in [of : Nat, allows : BOOLEAN]
  /\ vixDate \in Nat
  /\ entries \in [Stocks -> Seq(Entry)]
  /\ deaths \in Nat

\* The strategy trades a symbol at most once in a session, although the bar of 9:30 is
\* given many times, connections end and the process may be restarted in between
\* (docs/strategies/strategy_007_v0.2.0.md: one trade per symbol per day).
OneEntryPerSession ==
  \A s \in Stocks : \A i, j \in DOMAIN entries[s] :
    i < j => entries[s][i].day < entries[s][j].day

\* An entry is never judged by a VIX older than its bar, whichever task fetched it, and
\* by a newer one only if the bar was handled after its session; the previous close is
\* of an earlier session (prefetch_session_data_async fetches once for each date of a
\* bar, and gets the newest daily bar whatever that date is).
JudgedByFreshVix ==
  \A s \in Stocks : \A i \in DOMAIN entries[s] :
    LET e == entries[s][i]
    IN  /\ e.vix >= e.day
        /\ e.vix > e.day => e.at > e.day
        /\ e.prev < e.day

\* A position the strategy believes in was entered in the running session, or no bar
\* has come since the start: the first bar forgets what update_position restored, and
\* a session what the one before left open.
BelievesOwnEntry ==
  \A s \in Stocks :
    short[s] /\ session[s] # None =>
      /\ entries[s] # <<>>
      /\ entries[s][Len(entries[s])].day = session[s]

=============================================================================
