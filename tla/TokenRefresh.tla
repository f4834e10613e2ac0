---------------------------- MODULE TokenRefresh ----------------------------
(***************************************************************************)
(* The broker session of the platform: the OAuth tokens kept by            *)
(* BrokerCredentialsStore, the requests that take a bearer                 *)
(* (TradeStationAdapter._bearer_token, with its lock and its second look   *)
(* at the store), refresh_token with its three attempts, the platform's    *)
(* own refresh every ten minutes (_refresh_loop, which takes no lock), the *)
(* refresh at a start and the operator's login.                            *)
(*                                                                         *)
(* The store's session is opened once and only flushed: what it wrote is   *)
(* seen by the process and lost with it.  The clock counts units of ten    *)
(* minutes.  Tokens are numbered in the order the provider made them.      *)
(* Whether a refresh also replaces the refresh token "depends on broker    *)
(* settings" (docs/tradestation_auth_flow.md:69): both are modelled.       *)
(***************************************************************************)
EXTENDS Integers, Sequences

CONSTANTS Callers,      \* tasks that send requests to the broker
          Main, Loop,   \* start() and _refresh_loop
          None,
          Skew,         \* refresh when no more than this is left (10 minutes)
          Life,         \* what the provider grants (20 minutes)
          MaxAttempts,  \* attempts of refresh_token (3)
          MaxClock,     \* bound: units of time
          MaxCrashes,   \* bound: process deaths
          MaxFailures   \* bound: refresh requests that get no answer

Tasks == Callers \cup {Main, Loop}

ASSUME TasksAssumption ==
  /\ Main # Loop /\ Main \notin Callers /\ Loop \notin Callers /\ None \notin Tasks
ASSUME TimesAssumption == Skew \in Nat /\ Life \in Nat /\ Skew < Life
ASSUME BoundsAssumption ==
  /\ MaxAttempts \in Nat \ {0}
  /\ MaxClock \in Nat /\ MaxCrashes \in Nat /\ MaxFailures \in Nat

VARIABLES
  now,
  up,        \* the platform runs its tasks
  cred,      \* the credential row as the store's session sees it
  saved,     \* the row as committed
  holder,    \* who holds _refresh_lock
  queue,     \* those who wait for it, in order (asyncio.Lock)
  pc,        \* per task
  used,      \* per task: the token it works with
  try,       \* per task: the attempt of refresh_token
  ans,       \* per task: the provider's answer on its way
  wake,      \* when _refresh_loop wakes
  live,      \* provider: the refresh token it accepts
  mints,     \* provider: access tokens made
  rotates,   \* provider: a refresh replaces the refresh token
  overlap,   \* history: two tasks were refreshing at a time
  crashes, failures

process == <<up, cred, holder, queue, pc, used, try, ans, wake>>
provider == <<live, mints, rotates>>
bounds == <<crashes, failures>>
vars == <<now, process, saved, provider, overlap, bounds>>

Token == [access : Nat, refresh : Nat, exp : Nat]
Phases == {"idle", "lock", "ask", "answered", "send"}
Refreshing(t) == pc[t] \in {"ask", "answered"}

Blank == [access |-> 0, refresh |-> 0, exp |-> 0]

\* Ten minutes or less are left.
Due(token) == now + Skew >= token.exp

Fail == failures < MaxFailures /\ failures' = failures + 1

\* A task enters refresh_token with the token it read.
Ask(t) ==
  /\ pc' = [pc EXCEPT ![t] = "ask"]
  /\ used' = [used EXCEPT ![t] = cred]
  /\ try' = [try EXCEPT ![t] = 1]
  /\ overlap' = (overlap \/ \E o \in Tasks : Refreshing(o))

Init ==
  /\ now = 0
  /\ up = FALSE
  /\ saved = [access |-> 1, refresh |-> 1, exp |-> Life]
  /\ cred = saved
  /\ holder = None
  /\ queue = <<>>
  /\ pc = [t \in Tasks |-> "idle"]
  /\ used = [t \in Tasks |-> Blank]
  /\ try = [t \in Tasks |-> 0]
  /\ ans = [t \in Tasks |-> Blank]
  /\ wake = 0
  /\ live = 1
  /\ mints = 1
  /\ rotates \in BOOLEAN
  /\ overlap = FALSE
  /\ crashes = 0
  /\ failures = 0

-----------------------------------------------------------------------------
(* _bearer_token *)

\* The lock is free for a newcomer, or for the first of those who wait.
Turn(c) ==
  /\ holder = None
  /\ IF pc[c] = "idle" THEN queue = <<>> ELSE pc[c] = "lock" /\ c = Head(queue)

\* A task that waited leaves the queue.
Dequeue == queue' = IF queue = <<>> THEN queue ELSE Tail(queue)

\* Mutant: after the wait the stored token is returned without a second look.
UseTokenUnchecked(c) ==
  /\ up
  /\ \/ pc[c] = "idle" /\ ~Due(cred) /\ UNCHANGED queue
     \/ pc[c] = "lock" /\ Turn(c) /\ Dequeue
  /\ pc' = [pc EXCEPT ![c] = "send"]
  /\ used' = [used EXCEPT ![c] = cred]
  /\ UNCHANGED <<now, up, cred, saved, holder, try, ans, wake, provider, overlap, bounds>>

\* The stored token is good: at once, or on the second look, with the lock.
UseToken(c) ==
  /\ up
  /\ \/ pc[c] = "idle" /\ UNCHANGED queue
     \/ pc[c] = "lock" /\ Turn(c) /\ Dequeue
  /\ ~Due(cred)
  /\ pc' = [pc EXCEPT ![c] = "send"]
  /\ used' = [used EXCEPT ![c] = cred]
  /\ UNCHANGED <<now, up, cred, saved, holder, try, ans, wake, provider, overlap, bounds>>

\* Mutant: without the lock.
TakeLockNever(c) ==
  /\ up
  /\ pc[c] = "idle"
  /\ Due(cred)
  /\ Ask(c)
  /\ UNCHANGED <<now, up, cred, saved, holder, queue, ans, wake, provider, bounds>>

\* The token is due and, on the second look, still is.
TakeLock(c) ==
  /\ up
  /\ Turn(c)
  /\ Due(cred)
  /\ holder' = c
  /\ Dequeue
  /\ Ask(c)
  /\ UNCHANGED <<now, up, cred, saved, ans, wake, provider, bounds>>

\* The first look: what was read is dropped after the wait.
WaitLock(c) ==
  /\ up
  /\ pc[c] = "idle"
  /\ Due(cred)
  /\ ~Turn(c)
  /\ queue' = Append(queue, c)
  /\ pc' = [pc EXCEPT ![c] = "lock"]
  /\ UNCHANGED <<now, up, cred, saved, holder, used, try, ans, wake, provider, overlap, bounds>>

\* The request is answered, refused or times out.
RequestDone(c) ==
  /\ pc[c] = "send"
  /\ pc' = [pc EXCEPT ![c] = "idle"]
  /\ used' = [used EXCEPT ![c] = Blank]
  /\ UNCHANGED <<now, up, cred, saved, holder, queue, try, ans, wake, provider, overlap, bounds>>

-----------------------------------------------------------------------------
(* refresh_token *)

\* The provider accepts the refresh token.  An answer without a new refresh
\* token leaves the stored one in place: here it repeats it.
Accept(t) ==
  /\ pc[t] = "ask"
  /\ used[t].refresh = live
  /\ mints' = mints + 1
  /\ live' = IF rotates THEN live + 1 ELSE live
  /\ ans' = [ans EXCEPT ![t] = [access |-> mints', refresh |-> live', exp |-> 0]]
  /\ pc' = [pc EXCEPT ![t] = "answered"]
  /\ UNCHANGED <<now, up, cred, saved, holder, queue, used, try, wake, rotates, overlap, bounds>>

\* What follows refresh_token: a request is sent with the token, if there is
\* one, the loop sleeps, the platform starts.
Leave(t, phase, token) ==
  /\ pc' = [pc EXCEPT ![t] = phase]
  /\ used' = [used EXCEPT ![t] = token]
  /\ try' = [try EXCEPT ![t] = 0]
  /\ ans' = [ans EXCEPT ![t] = Blank]
  /\ holder' = IF holder = t THEN None ELSE holder
  /\ wake' = IF t \in {Main, Loop} THEN now + 1 ELSE wake

\* Mutant: the refresh token of an answer is not stored.
StoreAccessOnly(t) ==
  /\ pc[t] = "answered"
  /\ cred' = [ans[t] EXCEPT !.exp = now + Life, !.refresh = cred.refresh]
  /\ IF t \in Callers THEN Leave(t, "send", cred') ELSE Leave(t, "idle", Blank)
  /\ up' = TRUE
  /\ UNCHANGED <<now, saved, queue, provider, overlap, bounds>>

\* Mutant: what the loop's refresh returns is not stored.
StoreCallersOnly(t) ==
  /\ pc[t] = "answered"
  /\ cred' = IF t = Loop THEN cred ELSE [ans[t] EXCEPT !.exp = now + Life]
  /\ IF t \in Callers THEN Leave(t, "send", cred') ELSE Leave(t, "idle", Blank)
  /\ up' = TRUE
  /\ UNCHANGED <<now, saved, queue, provider, overlap, bounds>>

\* upsert_tokens: flushed, and returned to the caller.
Store(t) ==
  /\ pc[t] = "answered"
  /\ cred' = [ans[t] EXCEPT !.exp = now + Life]
  /\ IF t \in Callers THEN Leave(t, "send", cred') ELSE Leave(t, "idle", Blank)
  /\ up' = TRUE
  /\ UNCHANGED <<now, saved, queue, provider, overlap, bounds>>

\* Mutant: one attempt too many.
AttemptFailsOnceMore(t) ==
  /\ \/ pc[t] = "ask" /\ used[t].refresh # live /\ UNCHANGED failures
     \/ Refreshing(t) /\ Fail
  /\ try[t] <= MaxAttempts
  /\ try' = [try EXCEPT ![t] = @ + 1]
  /\ pc' = [pc EXCEPT ![t] = "ask"]
  /\ ans' = [ans EXCEPT ![t] = Blank]
  /\ UNCHANGED <<now, up, cred, saved, holder, queue, used, wake, provider, overlap, crashes>>

\* An attempt without an answer in time (the provider may have answered), or
\* refused: the same refresh token is sent again.
AttemptFails(t) ==
  /\ \/ pc[t] = "ask" /\ used[t].refresh # live /\ UNCHANGED failures
     \/ Refreshing(t) /\ Fail
  /\ try[t] < MaxAttempts
  /\ try' = [try EXCEPT ![t] = @ + 1]
  /\ pc' = [pc EXCEPT ![t] = "ask"]
  /\ ans' = [ans EXCEPT ![t] = Blank]
  /\ UNCHANGED <<now, up, cred, saved, holder, queue, used, wake, provider, overlap, crashes>>

\* Mutant: the lock is not released.
RefreshFailsLocked(t) ==
  /\ try[t] = MaxAttempts
  /\ \/ pc[t] = "ask" /\ used[t].refresh # live /\ UNCHANGED <<up, failures>>
     \/ Refreshing(t) /\ Fail /\ up' \in {up, TRUE}
  /\ pc' = [pc EXCEPT ![t] = "idle"]
  /\ UNCHANGED <<now, cred, saved, holder, queue, used, try, ans, wake, provider, overlap, crashes>>

\* The last attempt fails.  A request raises; the loop prints and sleeps; a
\* start goes on with the stored token after a timeout and exits otherwise.
RefreshFails(t) ==
  /\ try[t] = MaxAttempts
  /\ \/ pc[t] = "ask" /\ used[t].refresh # live /\ UNCHANGED <<up, failures>>
     \/ Refreshing(t) /\ Fail /\ up' \in {up, TRUE}
  /\ Leave(t, "idle", Blank)
  /\ UNCHANGED <<now, cred, saved, queue, provider, overlap, crashes>>

-----------------------------------------------------------------------------
(* The loop, the start, the operator, the clock *)

\* Every ten minutes, due or not, with or without a refresh under way.
LoopWakes ==
  /\ up
  /\ pc[Loop] = "idle"
  /\ now >= wake
  /\ Ask(Loop)
  /\ UNCHANGED <<now, up, cred, saved, holder, queue, ans, wake, provider, bounds>>

\* start(): the token is good for more than ten minutes.
StartValid ==
  /\ ~up /\ pc[Main] = "idle"
  /\ ~Due(cred)
  /\ up' = TRUE
  /\ wake' = now + 1
  /\ UNCHANGED <<now, cred, saved, holder, queue, pc, used, try, ans, provider, overlap, bounds>>

\* _proactive_oauth_refresh
StartRefreshes ==
  /\ ~up /\ pc[Main] = "idle"
  /\ Due(cred)
  /\ Ask(Main)
  /\ UNCHANGED <<now, up, cred, saved, holder, queue, ans, wake, provider, bounds>>

\* scripts/auth_tradestation.py, after "Auth failed": a new session, committed.
Login ==
  /\ ~up /\ pc[Main] = "idle"
  /\ saved.refresh # live
  /\ mints' = mints + 1
  /\ live' = live + 1
  /\ saved' = [access |-> mints', refresh |-> live', exp |-> now + Life]
  /\ cred' = saved'
  /\ UNCHANGED <<now, up, holder, queue, pc, used, try, ans, wake, rotates, overlap, bounds>>

\* The session of the store ends without a commit.
Crash ==
  /\ up \/ Refreshing(Main)
  /\ crashes < MaxCrashes
  /\ crashes' = crashes + 1
  /\ up' = FALSE
  /\ cred' = saved
  /\ holder' = None
  /\ queue' = <<>>
  /\ pc' = [t \in Tasks |-> "idle"]
  /\ used' = [t \in Tasks |-> Blank]
  /\ try' = [t \in Tasks |-> 0]
  /\ ans' = [t \in Tasks |-> Blank]
  /\ UNCHANGED <<now, saved, wake, provider, overlap, failures>>

\* A request is over long before ten minutes pass.
Tick ==
  /\ now < MaxClock
  /\ \A c \in Callers : pc[c] # "send"
  /\ now' = now + 1
  /\ UNCHANGED <<process, saved, provider, overlap, bounds>>

Refresh(t) == Accept(t) \/ Store(t) \/ AttemptFails(t) \/ RefreshFails(t)
Bearer(c) == UseToken(c) \/ TakeLock(c) \/ WaitLock(c) \/ RequestDone(c)

Next ==
  \/ \E c \in Callers : Bearer(c)
  \/ \E t \in Tasks : Refresh(t)
  \/ LoopWakes
  \/ StartValid
  \/ StartRefreshes
  \/ Login
  \/ Crash
  \/ Tick

Spec == Init /\ [][Next]_vars

\* A refresh ends (wait_for bounds each attempt), and a task that waits for
\* the lock runs when it is free.
FairSpec ==
  /\ Spec
  /\ \A t \in Tasks : WF_vars(Refresh(t))
  /\ \A c \in Callers : WF_vars(pc[c] \in {"lock", "send"} /\ Bearer(c))

-----------------------------------------------------------------------------
(* Properties *)

\* Type invariant.
TokenTypes ==
  /\ cred \in Token /\ saved \in Token
  /\ used \in [Tasks -> Token]
  /\ ans \in [Tasks -> Token]
TaskTypes ==
  /\ up \in BOOLEAN
  /\ holder \in Callers \cup {None}
  /\ queue \in Seq(Callers)
  /\ pc \in [Tasks -> Phases]
  /\ try \in [Tasks -> 0 .. MaxAttempts]
CountTypes ==
  /\ now \in Nat /\ wake \in Nat
  /\ live \in Nat /\ mints \in Nat
  /\ rotates \in BOOLEAN
  /\ overlap \in BOOLEAN
  /\ crashes \in Nat /\ failures \in Nat
TypeOK == TokenTypes /\ TaskTypes /\ CountTypes

\* A request never goes out with a token that has ten minutes or less to
\* live, however long its task waited for the lock (the second look of
\* _bearer_token).
BearerUsable == \A c \in Callers : pc[c] = "send" => ~Due(used[c])

\* Of the requests that find the token due together one refreshes: two of
\* them are never in refresh_token at a time (_refresh_lock).
OneCallerRefreshes ==
  \A c, d \in Callers : Refreshing(c) /\ Refreshing(d) => c = d

\* While requests are answered and the process lives, the provider's current
\* refresh token is in the store or on its way to it, even when the loop and
\* a request refresh at a time (refresh_token, upsert_tokens).
SessionKept ==
  crashes = 0 /\ failures = 0 =>
    \/ cred.refresh = live
    \/ \E t \in Tasks : pc[t] = "answered" /\ ans[t].refresh = live

\* A refresh token is refused only after an overlap, a lost answer or a death
\* (_refresh_loop takes no lock; refresh_token resends what it was given).
RefusedOnlyByOverlap ==
  crashes = 0 /\ failures = 0 /\ ~overlap =>
    \A t \in Tasks : pc[t] = "ask" => used[t].refresh = live

\* Refreshes that do not overlap leave the newest access token in the store,
\* so that no request uses one the provider may have revoked
\* (docs/broker_adapter_spec.md:59).
NewestAccess ==
  crashes = 0 /\ failures = 0 /\ ~overlap =>
    \/ cred.access = mints
    \/ \E t \in Tasks : pc[t] = "answered" /\ ans[t].access = mints

\* A request that waits for the lock gets it or finds the token refreshed
\* (async with _refresh_lock releases it on every way out).
WaitersServed == \A c \in Callers : pc[c] = "lock" ~> pc[c] # "lock"

\* What refresh_token's docstring says: "Persist new OAuth tokens".  When no
\* refresh is under way and none was lost, the committed row would open the
\* session after a death.  upsert_tokens flushes inside the transaction its
\* own SELECT began, and nothing commits.
RefreshPersisted ==
  crashes = 0 /\ failures = 0 /\ (\A t \in Tasks : ~Refreshing(t)) => saved.refresh = live
=============================================================================
