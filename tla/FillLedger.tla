----------------------------- MODULE FillLedger -----------------------------
(***************************************************************************)
(* What the order tracker promises about fills, without streams, crashes   *)
(* or statuses: the broker executes quantity on orders; each order gets at *)
(* most one row in the fill audit, never for more than was executed; a row *)
(* recorded live may be posted to the position ledger, once, with the      *)
(* quantity and the side of the row; a row recorded from a snapshot replay *)
(* is kept for audit only.  (execution/order_tracker.py, execution/        *)
(* logger.py: log_fill, _update_position.)                                 *)
(***************************************************************************)
EXTENDS Integers

CONSTANTS Orders,     \* broker order ids
          Keys,       \* (account, symbol) keys of the positions table
          KeyOf,      \* the key an order trades
          Side        \* "buy" or "sell"

VARIABLES executed,   \* quantity executed at the broker, per order
          fillRow,    \* the execution_fills row of an order
          posted,     \* orders whose row was posted to the positions table
          position    \* signed quantity per key

ledgerVars == <<executed, fillRow, posted, position>>

NoFill == [kind |-> "none", qty |-> 0]

Signed(o, q) == IF Side[o] = "buy" THEN q ELSE -q

LedgerInit ==
  /\ executed = [o \in Orders |-> 0]
  /\ fillRow = [o \in Orders |-> NoFill]
  /\ posted = {}
  /\ position = [k \in Keys |-> 0]

\* The broker executes one more unit of o.
Execute(o) ==
  /\ executed' = [executed EXCEPT ![o] = @ + 1]
  /\ UNCHANGED <<fillRow, posted, position>>

\* A fill of o is recorded: the first and only row of the order.
Record(o) ==
  /\ fillRow[o] = NoFill
  /\ \E kind \in {"live", "snapshot"} :
       \E q \in 1 .. executed[o] : fillRow' = [fillRow EXCEPT ![o] = [kind |-> kind, qty |-> q]]
  /\ UNCHANGED <<executed, posted, position>>

\* A live row is posted to the positions table, once.
Post(o) ==
  /\ fillRow[o].kind = "live"
  /\ o \notin posted
  /\ posted' = posted \cup {o}
  /\ position' = [position EXCEPT ![KeyOf[o]] = @ + Signed(o, fillRow[o].qty)]
  /\ UNCHANGED <<executed, fillRow>>

LedgerNext == \E o \in Orders : Execute(o) \/ Record(o) \/ Post(o)

LedgerSpec == LedgerInit /\ [][LedgerNext]_ledgerVars
=============================================================================
