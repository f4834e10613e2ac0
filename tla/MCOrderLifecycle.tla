-------------------------- MODULE MCOrderLifecycle --------------------------
(***************************************************************************)
(* Instances of OrderLifecycle for TLC.                                    *)
(***************************************************************************)
EXTENDS OrderLifecycle

CONSTANTS
  stk,        \* an equity order the platform routes
  ent,        \* a strategy_006 futures entry
  stp, tgt,   \* the legs of its OCO group
  man,        \* an order entered by hand in the options account
  eq, fut,    \* the accounts seed_accounts enters
  opt         \* the options account, which start() does not seed

MCAcctOf == [o \in Orders |-> IF o \in {ent, stp, tgt} THEN fut ELSE IF o = man THEN opt ELSE eq]
MCKeyOf  == MCAcctOf
MCParent == [o \in Legs |-> ent]
MCSide   == [o \in Orders |-> IF o \in {stp, tgt, man} THEN "sell" ELSE "buy"]
MCQtyOf  == [o \in Orders |-> IF o = man THEN 1 ELSE 2]

=============================================================================
