-------------------------- MODULE FuturesBacktest --------------------------
(***************************************************************************)
(* run_strategy_006 in strategy_multi_sim.py: sim_one over the bars of one *)
(* contract between 9:30 and 15:55.  Bars are taken in order; whether a    *)
(* bar is the last of its session is known from the next one.              *)
(*                                                                         *)
(* Prices are left open: a bar may reach the stop or the target of a       *)
(* position and may give a signal, which is judged by the bands of the bar *)
(* before, if that is of another session too.                              *)
(***************************************************************************)
EXTENDS Integers

CONSTANTS MaxSessions006,  \* bound: sessions in the file
          MaxBars006       \* bound: bars of a session

ASSUME SimBoundsAssumption == MaxSessions006 \in Nat \ {0} /\ MaxBars006 \in Nat \ {0, 1}

VARIABLES
  sess,         \* session of the bar,
  nth,          \* its number in the session,
  is_last,      \* and whether it is the last
  pos,          \* 1, 0, -1
  since,        \* bar of the entry: its session, and whether it was the last
  round_trips,
  entries006    \* history: entries

simVars == <<sess, nth, is_last, pos, since, round_trips, entries006>>

\* The first bar is only looked at as the one before the second.
SimInit ==
  /\ sess = 1 /\ nth = 1
  /\ is_last \in BOOLEAN
  /\ pos = 0
  /\ since = [sess |-> 1, last |-> FALSE]
  /\ round_trips = 0
  /\ entries006 = 0

\* The next bar: of the same session, or the first of the next one.
NextBar ==
  /\ sess' = IF is_last THEN sess + 1 ELSE sess
  /\ nth' = IF is_last THEN 1 ELSE nth + 1
  /\ sess' <= MaxSessions006
  /\ is_last' \in BOOLEAN
  /\ nth' = MaxBars006 => is_last'

\* Mutant: a position is not closed at the end of a session.
MustExitNever == FALSE

\* Neither stop nor target, but the last bar.
MustExit == is_last'

\* The bar closes a position, at its stop, its target or its last close.
Exited(exits) == pos # 0 /\ (exits \/ MustExit)

\* A session of one bar has no ATR.
HasAtr == ~(nth' = 1 /\ is_last')

\* Exits, then the signal, which may turn the position round on one bar.
SimBar ==
  \E exits \in BOOLEAN, signal \in {-1, 0, 1} :
    LET flat == pos = 0 \/ Exited(exits)
    IN  /\ NextBar
        /\ signal # 0 => HasAtr
        /\ round_trips' = round_trips + (IF Exited(exits) THEN 1 ELSE 0)
        /\ IF flat /\ signal # 0
             THEN /\ pos' = signal
                  /\ since' = [sess |-> sess', last |-> is_last']
                  /\ entries006' = entries006 + 1
             ELSE /\ pos' = IF flat THEN 0 ELSE pos
                  /\ UNCHANGED <<since, entries006>>

SimSpec == SimInit /\ [][SimBar]_simVars

-----------------------------------------------------------------------------
(* Properties *)

\* Every variable has its type.
SimTypeOK ==
  /\ sess \in Nat /\ nth \in Nat
  /\ is_last \in BOOLEAN
  /\ pos \in {-1, 0, 1}
  /\ since \in [sess : Nat, last : BOOLEAN]
  /\ round_trips \in Nat /\ entries006 \in Nat

\* A position is held over night only if it was entered on the last bar of the session
\* before, after that bar's exits: never for two nights.
OvernightOnlyFromLastBar ==
  pos # 0 => \/ since.sess = sess
             \/ since.sess = sess - 1 /\ since.last

\* Every entry is closed in a round trip or is still open.
TripsMatchEntries == entries006 = round_trips + (IF pos = 0 THEN 0 ELSE 1)

=============================================================================
