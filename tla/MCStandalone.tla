---------------------------- MODULE MCStandalone ----------------------------
(***************************************************************************)
(* The components that share no state with the order path or with each     *)
(* other, in one run: a behaviour is one of one of them, part, while the   *)
(* others stay where they began.  The state spaces add up.                 *)
(***************************************************************************)
EXTENDS GapFade, RunnerProcess, FuturesSession, TradingCalendar, RateWindow, DailyBacktest,
        FuturesBacktest

VARIABLE part

MCShifts == {-60, 0, 60}

\* Choices of one part are fixed in the behaviours of the others.
MCInit ==
  /\ part \in 1..7
  /\ GapInit /\ RunnerInit /\ FuturesInit /\ CalendarInit /\ RateInit /\ BacktestInit /\ SimInit
  /\ part # 4 => shift = 0
  /\ part # 6 => sim = "004"
  /\ part # 7 => ~is_last

Others ==
  /\ UNCHANGED part
  /\ part # 1 => UNCHANGED gapVars
  /\ part # 2 => UNCHANGED runnerVars
  /\ part # 3 => UNCHANGED futuresVars
  /\ part # 4 => UNCHANGED calendarVars
  /\ part # 5 => UNCHANGED rateVars
  /\ part # 6 => UNCHANGED backtestVars
  /\ part # 7 => UNCHANGED simVars

MCNext ==
  \/ part = 1 /\ GapNext /\ Others
  \/ part = 2 /\ RunnerNext /\ Others
  \/ part = 3 /\ FuturesNext /\ Others
  \/ part = 4 /\ CalendarNext /\ Others
  \/ part = 5 /\ RateNext /\ Others
  \/ part = 6 /\ BacktestNext /\ Others
  \/ part = 7 /\ SimBar /\ Others

standaloneVars == <<gapVars, runnerVars, futuresVars, calendarVars, rateVars, backtestVars,
                    simVars, part>>

MCSpec == MCInit /\ [][MCNext]_standaloneVars

=============================================================================
