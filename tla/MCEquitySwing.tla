---------------------------- MODULE MCEquitySwing ----------------------------
(***************************************************************************)
(* Instances of EquitySwing for TLC.                                       *)
(***************************************************************************)
EXTENDS EquitySwing

CONSTANTS tsm,   \* a symbol strategy_002 lists too
          nvda   \* one it does not

=============================================================================
