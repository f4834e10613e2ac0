----------------------------- MODULE RateWindow -----------------------------
(***************************************************************************)
(* A request on its way through the API's middleware: TenantContext, which *)
(* api/main.py adds last and which is therefore the outer one, and the     *)
(* fixed window per tenant of FixedWindowTenantRateLimiter behind it.      *)
(*                                                                         *)
(* The limiter reads time.time(), a clock that may be stepped.  allow()    *)
(* suspends nowhere: a request is one step.  What the outer middleware     *)
(* refuses (401, 400, 403) and the paths that pass both change nothing and *)
(* are no actions.                                                         *)
(***************************************************************************)
EXTENDS Integers, Sequences, FiniteSets

CONSTANTS Names,       \* values of X-Tenant-ID after strip, not empty
          Permitted,   \* ALLOWED_TENANT_IDS
          Production,  \* environment is production
          Limit,       \* limit, 10000
          Window,      \* window_s, 60
          LastTick,    \* bound: time
          MaxSteps     \* bound: times the clock is stepped

ASSUME NamesAssumption == IsFiniteSet(Names) /\ Permitted \subseteq Names /\ Production \in BOOLEAN
ASSUME WindowAssumption ==
  Limit \in Nat \ {0} /\ Window \in Nat \ {0} /\ LastTick \in Nat /\ MaxSteps \in Nat

VARIABLES
  tick,     \* time that passes
  clock_s,  \* time.time()
  steps,    \* times the clock was stepped
  buckets,  \* _buckets: count and start of each tenant seen
  passed    \* history: per name, the requests let through

rateVars == <<tick, clock_s, steps, buckets, passed>>

Bucket == [count : Nat, start : Nat]
Passed == [at : Nat, steps : Nat]

RateInit ==
  /\ tick = 0
  /\ clock_s = 0
  /\ steps = 0
  /\ buckets = [n \in {} |-> 0]
  /\ passed = [n \in Names |-> <<>>]

Ticks ==
  /\ tick < LastTick
  /\ tick' = tick + 1
  /\ clock_s' = clock_s + 1
  /\ UNCHANGED <<steps, buckets, passed>>

\* Someone sets the clock, back or forward.
ClockStepped ==
  /\ steps < MaxSteps
  /\ steps' = steps + 1
  /\ clock_s' \in 0..(2 * LastTick)
  /\ UNCHANGED <<tick, buckets, passed>>

\* TenantContextMiddleware lets the request through.
InContext(n) == Production => n \in Permitted

Seen(n) == n \in DOMAIN buckets

\* Mutant: the window ends one second early.
ExpiredEarly(n) == Seen(n) /\ clock_s - buckets[n].start >= Window - 1

Expired(n) == Seen(n) /\ clock_s - buckets[n].start >= Window

\* The tenant's window, a new one if there is none or it is over.
Current(n) == IF Seen(n) /\ ~Expired(n) THEN buckets[n] ELSE [count |-> 0, start |-> clock_s]

Stored(n, bucket) == buckets' = [m \in DOMAIN buckets \cup {n} |-> IF m = n THEN bucket ELSE buckets[m]]

Allowed(n) ==
  /\ InContext(n)
  /\ Current(n).count + 1 <= Limit
  /\ Stored(n, [Current(n) EXCEPT !.count = @ + 1])
  /\ passed' = [passed EXCEPT ![n] = Append(@, [at |-> tick, steps |-> steps])]
  /\ UNCHANGED <<tick, clock_s, steps>>

\* 429: the window is stored as it is.
TooMany(n) ==
  /\ InContext(n)
  /\ Current(n).count + 1 > Limit
  /\ Stored(n, Current(n))
  /\ UNCHANGED <<tick, clock_s, steps, passed>>

RateNext ==
  \/ Ticks
  \/ ClockStepped
  \/ \E n \in Names : Allowed(n) \/ TooMany(n)

RateSpec == RateInit /\ [][RateNext]_rateVars

-----------------------------------------------------------------------------
(* Properties *)

\* Every variable has its type.
RateTypeOK ==
  /\ tick \in Nat /\ clock_s \in Nat /\ steps \in Nat
  /\ DOMAIN buckets \subseteq Names
  /\ buckets \in [DOMAIN buckets -> Bucket]
  /\ passed \in [Names -> Seq(Passed)]

\* In any stretch of time as long as the window a tenant gets less than twice the limit
\* through, whatever the others send, as no window but the last can begin in it; each
\* step of the clock may give the limit once more.
UnderTwiceTheLimit ==
  \A n \in Names : \A i, j \in DOMAIN passed[n] :
    i <= j /\ passed[n][j].at - passed[n][i].at < Window
      => j - i + 1 < Limit * (2 + passed[n][j].steps - passed[n][i].steps)

=============================================================================
