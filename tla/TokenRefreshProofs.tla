------------------------- MODULE TokenRefreshProofs -------------------------
(***************************************************************************)
(* Theorems about TokenRefresh, for any set of callers, any clock and any  *)
(* number of deaths and lost answers, whether or not the provider replaces *)
(* refresh tokens.                                                         *)
(***************************************************************************)
EXTENDS TokenRefresh, SequenceTheorems, TLAPS

\* Who refreshes for a request holds the lock.
LockHeld == \A c \in Callers : Refreshing(c) => holder = c

\* Before the platform is up only start() is at work.
QuietDown == ~up => \A t \in Tasks : t # Main => pc[t] = "idle"

\* No task works with, and no row holds, a refresh token newer than the
\* provider's, nor a task one newer than the store's.
UsedOld ==
  /\ cred.refresh <= live /\ saved.refresh <= live
  /\ \A t \in Tasks : Refreshing(t) => used[t].refresh <= cred.refresh

\* An answer on its way brings the current refresh token; if that is a new
\* one, the store does not have it yet.
AnswerLive ==
  \A t \in Tasks : pc[t] = "answered" =>
    /\ ans[t].refresh = live
    /\ rotates => cred.refresh < live

\* A refresh token that is replaced is accepted once.
OneAnswer ==
  rotates => \A t, o \in Tasks : pc[t] = "answered" /\ pc[o] = "answered" => t = o

\* Without an overlap at most one task refreshes.
Alone == ~overlap => \A t, o \in Tasks : Refreshing(t) /\ Refreshing(o) => t = o

\* Then, as long as nothing fails, store and provider keep in step.
InStep ==
  crashes = 0 /\ failures = 0 /\ ~overlap =>
    /\ \A t \in Tasks : pc[t] = "ask" => used[t].refresh = live /\ cred.refresh = live
    /\ \A t \in Tasks : pc[t] = "answered" => ans[t].access = mints
    /\ (\A t \in Tasks : pc[t] # "answered") => cred.access = mints /\ cred.refresh = live

\* The inductive invariant.
IInv == /\ TypeOK
        /\ LockHeld
        /\ QuietDown
        /\ UsedOld
        /\ AnswerLive
        /\ OneAnswer
        /\ Alone
        /\ InStep
        /\ BearerUsable
        /\ SessionKept

-----------------------------------------------------------------------------
\* The initial states satisfy the invariant.
LEMMA InitIInv == Init => IInv
  <1> SUFFICES ASSUME Init PROVE IInv
    OBVIOUS
  <1> USE TasksAssumption, TimesAssumption, BoundsAssumption
  <1>0. /\ Blank \in Token /\ Blank.refresh = 0
        /\ saved \in Token /\ saved.access = 1 /\ saved.refresh = 1 /\ saved.exp = Life
        /\ cred = saved
    BY DEF Init, Token, Blank
  <1>a. \A t \in Tasks : pc[t] = "idle"
    BY DEF Init
  <1>1. TypeOK
    <2>1. TokenTypes
      BY <1>0 DEF Init, TokenTypes
    <2>2. TaskTypes
      <3>1. pc \in [Tasks -> Phases]
        BY DEF Init, Phases
      <3>2. try \in [Tasks -> 0 .. MaxAttempts]
        BY DEF Init
      <3>3. queue \in Seq(Callers)
        BY EmptySeq DEF Init
      <3> QED BY <3>1, <3>2, <3>3 DEF Init, TaskTypes
    <2>3. CountTypes
      BY DEF Init, CountTypes
    <2> QED BY <2>1, <2>2, <2>3 DEF TypeOK
  <1>2. LockHeld /\ QuietDown /\ AnswerLive /\ OneAnswer /\ Alone
    BY <1>a DEF LockHeld, QuietDown, AnswerLive, OneAnswer, Alone, Refreshing, Tasks
  <1>3. UsedOld
    BY <1>0, <1>a DEF Init, UsedOld, Refreshing
  <1>4. InStep
    BY <1>0, <1>a DEF Init, InStep
  <1>5. BearerUsable /\ SessionKept
    BY <1>0, <1>a DEF Init, BearerUsable, SessionKept, Tasks
  <1> QED BY <1>1, <1>2, <1>3, <1>4, <1>5 DEF IInv

-----------------------------------------------------------------------------
\* The queue keeps its type when a task joins or leaves it.
LEMMA QueueType ==
  ASSUME queue \in Seq(Callers)
  PROVE  /\ Dequeue => queue' \in Seq(Callers)
         /\ \A c \in Callers : Append(queue, c) \in Seq(Callers)
  <1>1. Dequeue => queue' \in Seq(Callers)
    BY HeadTailProperties DEF Dequeue
  <1>2. \A c \in Callers : Append(queue, c) \in Seq(Callers)
    BY AppendProperties
  <1> QED BY <1>1, <1>2

\* The steps of Next, one by one.
LEMMA Steps ==
  ASSUME [Next]_vars
  PROVE  \/ \E c \in Callers : UseToken(c) \/ TakeLock(c) \/ WaitLock(c) \/ RequestDone(c)
         \/ \E t \in Tasks : Accept(t) \/ Store(t) \/ AttemptFails(t) \/ RefreshFails(t)
         \/ LoopWakes \/ StartValid \/ StartRefreshes \/ Login \/ Crash \/ Tick
         \/ UNCHANGED vars
  BY DEF Next, Bearer, Refresh

-----------------------------------------------------------------------------
\* What a task's entry into refresh_token, and its way out, change.
LEMMA AskEffect ==
  ASSUME TypeOK, NEW t \in Tasks, Ask(t)
  PROVE  /\ pc'[t] = "ask" /\ used'[t] = cred
         /\ \A o \in Tasks : o # t => pc'[o] = pc[o] /\ used'[o] = used[o]
         /\ overlap' = (overlap \/ \E o \in Tasks : Refreshing(o))
  BY DEF TypeOK, TokenTypes, TaskTypes, Ask

LEMMA LeaveEffect ==
  ASSUME TypeOK, NEW t \in Tasks, NEW phase \in Phases, NEW token, Leave(t, phase, token)
  PROVE  /\ pc'[t] = phase /\ used'[t] = token
         /\ \A o \in Tasks : o # t => pc'[o] = pc[o] /\ used'[o] = used[o] /\ ans'[o] = ans[o]
  BY DEF TypeOK, TokenTypes, TaskTypes, Leave

LEMMA AcceptEffect ==
  ASSUME TypeOK, NEW t \in Tasks, Accept(t)
  PROVE  /\ pc'[t] = "answered" /\ ans'[t].refresh = live' /\ ans'[t].access = mints'
         /\ \A o \in Tasks : o # t => pc'[o] = pc[o] /\ ans'[o] = ans[o]
         /\ pc[t] = "ask" /\ used[t].refresh = live /\ used' = used /\ cred' = cred /\ saved' = saved
         /\ mints' = mints + 1
         /\ rotates => live' = live + 1
         /\ ~rotates => live' = live
         /\ UNCHANGED <<now, up, rotates, overlap, crashes, failures>>
  BY DEF TypeOK, TokenTypes, TaskTypes, Accept, provider, bounds

LEMMA StoreEffect ==
  ASSUME TypeOK, NEW t \in Tasks, Store(t)
  PROVE  /\ pc[t] = "answered" /\ up' = TRUE
         /\ cred' \in Token
         /\ cred'.refresh = ans[t].refresh /\ cred'.access = ans[t].access /\ cred'.exp = now + Life
         /\ t \in Callers => pc'[t] = "send" /\ used'[t] = cred'
         /\ t \notin Callers => pc'[t] = "idle" /\ used'[t] = Blank
         /\ \A o \in Tasks : o # t => pc'[o] = pc[o] /\ used'[o] = used[o] /\ ans'[o] = ans[o]
         /\ UNCHANGED <<now, saved, live, mints, rotates, overlap, crashes, failures>>
  <1> USE TimesAssumption
  <1>1. /\ cred' = [ans[t] EXCEPT !.exp = now + Life] /\ pc[t] = "answered" /\ up' = TRUE
        /\ UNCHANGED <<now, saved, live, mints, rotates, overlap, crashes, failures>>
    BY DEF Store, provider, bounds
  <1>2. ans[t] \in Token /\ now + Life \in Nat
    BY DEF TypeOK, TokenTypes, CountTypes
  <1>3. cred' \in Token /\ cred'.refresh = ans[t].refresh /\ cred'.access = ans[t].access /\ cred'.exp = now + Life
    BY <1>1, <1>2 DEF Token
  <1>4. CASE t \in Callers
    <2>1. Leave(t, "send", cred')
      BY <1>4 DEF Store
    <2> QED BY <1>1, <1>3, <1>4, <2>1, LeaveEffect DEF Phases
  <1>5. CASE t \notin Callers
    <2>1. Leave(t, "idle", Blank)
      BY <1>5 DEF Store
    <2> QED BY <1>1, <1>3, <1>5, <2>1, LeaveEffect DEF Phases
  <1> QED BY <1>4, <1>5

\* A failed attempt is refused, the provider having replaced the token, or
\* counts as a failure.
LEMMA FailEffect ==
  ASSUME TypeOK, NEW t \in Tasks, AttemptFails(t) \/ RefreshFails(t)
  PROVE  /\ Refreshing(t)
         /\ \/ pc[t] = "ask" /\ used[t].refresh # live /\ failures' = failures
            \/ failures' = failures + 1
         /\ pc'[t] \in {"ask", "idle"}
         /\ pc'[t] = "ask" => used'[t] = used[t]
         /\ \A o \in Tasks : o # t => pc'[o] = pc[o] /\ used'[o] = used[o] /\ ans'[o] = ans[o]
         /\ UNCHANGED <<now, cred, saved, live, mints, rotates, overlap, crashes>>
  <1>1. CASE AttemptFails(t)
    BY <1>1 DEF TypeOK, TokenTypes, TaskTypes, AttemptFails, Fail, Refreshing, provider, bounds
  <1>2. CASE RefreshFails(t)
    <2>1. Leave(t, "idle", Blank)
      BY <1>2 DEF RefreshFails
    <2>2. pc'[t] = "idle"
          /\ \A o \in Tasks : o # t => pc'[o] = pc[o] /\ used'[o] = used[o] /\ ans'[o] = ans[o]
      BY <2>1, LeaveEffect DEF Phases
    <2>3. /\ Refreshing(t)
          /\ \/ pc[t] = "ask" /\ used[t].refresh # live /\ failures' = failures
             \/ failures' = failures + 1
          /\ UNCHANGED <<now, cred, saved, live, mints, rotates, overlap, crashes>>
      BY <1>2 DEF RefreshFails, Fail, Refreshing, provider, bounds
    <2> QED BY <2>2, <2>3
  <1> QED BY <1>1, <1>2

LEMMA LoginEffect ==
  ASSUME TypeOK, Login
  PROVE  /\ ~up /\ pc[Main] = "idle"
         /\ cred' = saved' /\ cred' \in Token
         /\ cred'.refresh = live' /\ cred'.access = mints' /\ live' = live + 1 /\ mints' = mints + 1
         /\ UNCHANGED <<now, up, pc, used, ans, rotates, overlap, crashes, failures>>
  BY TimesAssumption DEF TypeOK, CountTypes, Login, Token, bounds


\* The numbers in the tokens.
LEMMA Fields ==
  ASSUME TypeOK
  PROVE  /\ cred.refresh \in Nat /\ cred.access \in Nat /\ cred.exp \in Nat /\ saved.refresh \in Nat
         /\ \A t \in Tasks : used[t].refresh \in Nat /\ used[t].exp \in Nat /\ ans[t].refresh \in Nat
         /\ now \in Nat /\ live \in Nat /\ mints \in Nat /\ crashes \in Nat /\ failures \in Nat
         /\ up \in BOOLEAN /\ rotates \in BOOLEAN /\ overlap \in BOOLEAN
  BY DEF TypeOK, TokenTypes, TaskTypes, CountTypes, Token

-----------------------------------------------------------------------------
\* Every step keeps the types.
LEMMA TypeStep == IInv /\ [Next]_vars => TypeOK'
  <1> SUFFICES ASSUME IInv, [Next]_vars PROVE TypeOK'
    OBVIOUS
  <1> USE TasksAssumption, TimesAssumption, BoundsAssumption
  <1>1. ASSUME NEW c \in Callers, UseToken(c) PROVE TypeOK'
    <2>1. TokenTypes'
      BY <1>1 DEF IInv, TypeOK, TokenTypes, CountTypes, UseToken, Turn, Dequeue, Token, Blank, process, provider, bounds
    <2>2. TaskTypes'
      BY <1>1, QueueType DEF IInv, TypeOK, TaskTypes, UseToken, Turn, Phases, Tasks, process, provider, bounds
    <2>3. CountTypes'
      BY <1>1 DEF IInv, TypeOK, CountTypes, UseToken, Turn, Dequeue, process, provider, bounds
    <2> QED BY <2>1, <2>2, <2>3 DEF TypeOK
  <1>2. ASSUME NEW c \in Callers, TakeLock(c) PROVE TypeOK'
    <2>1. TokenTypes'
      BY <1>2 DEF IInv, TypeOK, TokenTypes, CountTypes, TakeLock, Ask, Turn, Dequeue, Token, Blank, process, provider, bounds
    <2>2. TaskTypes'
      BY <1>2, QueueType DEF IInv, TypeOK, TaskTypes, TakeLock, Ask, Turn, Phases, Tasks, process, provider, bounds
    <2>3. CountTypes'
      BY <1>2 DEF IInv, TypeOK, CountTypes, TakeLock, Ask, Turn, Dequeue, process, provider, bounds
    <2> QED BY <2>1, <2>2, <2>3 DEF TypeOK
  <1>3. ASSUME NEW c \in Callers, WaitLock(c) PROVE TypeOK'
    <2>1. TokenTypes'
      BY <1>3 DEF IInv, TypeOK, TokenTypes, CountTypes, WaitLock, Token, Blank, process, provider, bounds
    <2>2. TaskTypes'
      BY <1>3, QueueType DEF IInv, TypeOK, TaskTypes, WaitLock, Phases, Tasks, process, provider, bounds
    <2>3. CountTypes'
      BY <1>3 DEF IInv, TypeOK, CountTypes, WaitLock, process, provider, bounds
    <2> QED BY <2>1, <2>2, <2>3 DEF TypeOK
  <1>4. ASSUME NEW c \in Callers, RequestDone(c) PROVE TypeOK'
    <2>1. TokenTypes'
      BY <1>4 DEF IInv, TypeOK, TokenTypes, CountTypes, RequestDone, Token, Blank, process, provider, bounds
    <2>2. TaskTypes'
      BY <1>4, QueueType DEF IInv, TypeOK, TaskTypes, RequestDone, Phases, Tasks, process, provider, bounds
    <2>3. CountTypes'
      BY <1>4 DEF IInv, TypeOK, CountTypes, RequestDone, process, provider, bounds
    <2> QED BY <2>1, <2>2, <2>3 DEF TypeOK
  <1>5. ASSUME NEW t \in Tasks, Accept(t) PROVE TypeOK'
    <2>1. TokenTypes'
      BY <1>5 DEF IInv, TypeOK, TokenTypes, CountTypes, Accept, Token, Blank, process, provider, bounds
    <2>2. TaskTypes'
      BY <1>5, QueueType DEF IInv, TypeOK, TaskTypes, Accept, Phases, Tasks, process, provider, bounds
    <2>3. CountTypes'
      BY <1>5 DEF IInv, TypeOK, CountTypes, Accept, process, provider, bounds
    <2> QED BY <2>1, <2>2, <2>3 DEF TypeOK
  <1>6. ASSUME NEW t \in Tasks, Store(t) PROVE TypeOK'
    <2>1. TokenTypes'
      <3>1. PICK phase, token : Leave(t, phase, token) /\ token \in {cred', Blank} /\ phase \in Phases
        BY <1>6 DEF Store, Phases
      <3>2. cred' \in Token /\ saved' = saved
        BY <1>6, StoreEffect DEF IInv
      <3>3. Blank \in Token
        BY DEF Blank, Token
      <3>4. used' \in [Tasks -> Token] /\ ans' \in [Tasks -> Token]
        BY <3>1, <3>2, <3>3 DEF IInv, TypeOK, TokenTypes, Leave
      <3> QED BY <3>2, <3>4 DEF IInv, TypeOK, TokenTypes
    <2>2. TaskTypes'
      BY <1>6, QueueType, SMTT(20) DEF IInv, TypeOK, TaskTypes, Store, Leave, Phases, Tasks, process, provider, bounds
    <2>3. CountTypes'
      BY <1>6 DEF IInv, TypeOK, CountTypes, Store, Leave, process, provider, bounds
    <2> QED BY <2>1, <2>2, <2>3 DEF TypeOK
  <1>7. ASSUME NEW t \in Tasks, AttemptFails(t) PROVE TypeOK'
    <2>1. TokenTypes'
      BY <1>7 DEF IInv, TypeOK, TokenTypes, CountTypes, AttemptFails, Fail, Token, Blank, process, provider, bounds
    <2>2. TaskTypes'
      BY <1>7, QueueType DEF IInv, TypeOK, TaskTypes, AttemptFails, Fail, Phases, Tasks, process, provider, bounds
    <2>3. CountTypes'
      BY <1>7 DEF IInv, TypeOK, CountTypes, AttemptFails, Fail, process, provider, bounds
    <2> QED BY <2>1, <2>2, <2>3 DEF TypeOK
  <1>8. ASSUME NEW t \in Tasks, RefreshFails(t) PROVE TypeOK'
    <2>0. Leave(t, "idle", Blank) /\ queue' = queue
      BY <1>8 DEF RefreshFails
    <2>1. TokenTypes'
      BY <1>8 DEF IInv, TypeOK, TokenTypes, CountTypes, RefreshFails, Leave, Fail, Token, Blank, process, provider, bounds
    <2>2. TaskTypes'
      <3>1. up' \in BOOLEAN
        BY <1>8 DEF RefreshFails, IInv, TypeOK, TaskTypes
      <3> QED BY <2>0, <3>1 DEF IInv, TypeOK, TaskTypes, Leave, Phases
    <2>3. CountTypes'
      <3>1. failures' \in Nat
        BY <1>8, FailEffect DEF IInv, TypeOK, CountTypes
      <3>2. wake' \in Nat
        BY <2>0 DEF Leave, IInv, TypeOK, CountTypes
      <3> QED BY <1>8, <3>1, <3>2 DEF IInv, TypeOK, CountTypes, RefreshFails, provider
    <2> QED BY <2>1, <2>2, <2>3 DEF TypeOK
  <1>9. CASE LoopWakes
    <2>1. TokenTypes'
      BY <1>9 DEF IInv, TypeOK, TokenTypes, CountTypes, LoopWakes, Ask, Token, Blank, process, provider, bounds
    <2>2. TaskTypes'
      BY <1>9, QueueType DEF IInv, TypeOK, TaskTypes, LoopWakes, Ask, Phases, Tasks, process, provider, bounds
    <2>3. CountTypes'
      BY <1>9 DEF IInv, TypeOK, CountTypes, LoopWakes, Ask, process, provider, bounds
    <2> QED BY <2>1, <2>2, <2>3 DEF TypeOK
  <1>10. CASE StartValid
    <2>1. TokenTypes'
      BY <1>10 DEF IInv, TypeOK, TokenTypes, CountTypes, StartValid, Token, Blank, process, provider, bounds
    <2>2. TaskTypes'
      BY <1>10, QueueType DEF IInv, TypeOK, TaskTypes, StartValid, Phases, Tasks, process, provider, bounds
    <2>3. CountTypes'
      BY <1>10 DEF IInv, TypeOK, CountTypes, StartValid, process, provider, bounds
    <2> QED BY <2>1, <2>2, <2>3 DEF TypeOK
  <1>11. CASE StartRefreshes
    <2>1. TokenTypes'
      BY <1>11 DEF IInv, TypeOK, TokenTypes, CountTypes, StartRefreshes, Ask, Token, Blank, process, provider, bounds
    <2>2. TaskTypes'
      BY <1>11, QueueType DEF IInv, TypeOK, TaskTypes, StartRefreshes, Ask, Phases, Tasks, process, provider, bounds
    <2>3. CountTypes'
      BY <1>11 DEF IInv, TypeOK, CountTypes, StartRefreshes, Ask, process, provider, bounds
    <2> QED BY <2>1, <2>2, <2>3 DEF TypeOK
  <1>12. CASE Login
    <2>1. TokenTypes'
      BY <1>12 DEF IInv, TypeOK, TokenTypes, CountTypes, Login, Token, Blank, process, provider, bounds
    <2>2. TaskTypes'
      BY <1>12, QueueType DEF IInv, TypeOK, TaskTypes, Login, Phases, Tasks, process, provider, bounds
    <2>3. CountTypes'
      BY <1>12 DEF IInv, TypeOK, CountTypes, Login, process, provider, bounds
    <2> QED BY <2>1, <2>2, <2>3 DEF TypeOK
  <1>13. CASE Crash
    <2>1. TokenTypes'
      BY <1>13 DEF IInv, TypeOK, TokenTypes, CountTypes, Crash, Token, Blank, process, provider, bounds
    <2>2. TaskTypes'
      <3>1. /\ pc' = [o \in Tasks |-> "idle"] /\ try' = [o \in Tasks |-> 0]
            /\ up' = FALSE /\ holder' = None /\ queue' = <<>>
        BY <1>13 DEF Crash
      <3>2. pc' \in [Tasks -> Phases]
        BY <3>1 DEF Phases
      <3>3. try' \in [Tasks -> 0 .. MaxAttempts]
        BY <3>1
      <3>4. queue' \in Seq(Callers)
        BY <3>1, EmptySeq
      <3> QED BY <3>1, <3>2, <3>3, <3>4 DEF TaskTypes
    <2>3. CountTypes'
      BY <1>13 DEF IInv, TypeOK, CountTypes, Crash, process, provider, bounds
    <2> QED BY <2>1, <2>2, <2>3 DEF TypeOK
  <1>14. CASE Tick
    <2>1. TokenTypes'
      BY <1>14 DEF IInv, TypeOK, TokenTypes, CountTypes, Tick, Token, Blank, process, provider, bounds
    <2>2. TaskTypes'
      BY <1>14, QueueType DEF IInv, TypeOK, TaskTypes, Tick, Phases, Tasks, process, provider, bounds
    <2>3. CountTypes'
      BY <1>14 DEF IInv, TypeOK, CountTypes, Tick, process, provider, bounds
    <2> QED BY <2>1, <2>2, <2>3 DEF TypeOK
  <1>15. CASE UNCHANGED vars
    <2>1. TokenTypes'
      BY <1>15 DEF IInv, TypeOK, TokenTypes, CountTypes, vars, Token, Blank, process, provider, bounds
    <2>2. TaskTypes'
      BY <1>15, QueueType DEF IInv, TypeOK, TaskTypes, vars, Phases, Tasks, process, provider, bounds
    <2>3. CountTypes'
      BY <1>15 DEF IInv, TypeOK, CountTypes, vars, process, provider, bounds
    <2> QED BY <2>1, <2>2, <2>3 DEF TypeOK
  <1> QED BY Steps, <1>1, <1>2, <1>3, <1>4, <1>5, <1>6, <1>7, <1>8, <1>9, <1>10, <1>11, <1>12, <1>13, <1>14, <1>15
-----------------------------------------------------------------------------
\* The lock, and the quiet before the start.
LEMMA LockStep == IInv /\ [Next]_vars => LockHeld' /\ QuietDown'
  <1> SUFFICES ASSUME IInv, [Next]_vars PROVE LockHeld' /\ QuietDown'
    OBVIOUS
  <1> USE TasksAssumption, TimesAssumption, BoundsAssumption
  <1>1. ASSUME NEW c \in Callers, UseToken(c) PROVE LockHeld' /\ QuietDown'
    <2>1. LockHeld'
      BY <1>1, TypeStep DEF IInv, TypeOK, TokenTypes, TaskTypes, CountTypes, LockHeld, QuietDown, Refreshing, UseToken, Turn, Dequeue, Tasks, process, provider, bounds
    <2>2. QuietDown'
      BY <1>1, TypeStep DEF IInv, TypeOK, TokenTypes, TaskTypes, CountTypes, QuietDown, Refreshing, UseToken, Turn, Dequeue, Tasks, process, provider, bounds
    <2> QED BY <2>1, <2>2
  <1>2. ASSUME NEW c \in Callers, TakeLock(c) PROVE LockHeld' /\ QuietDown'
    <2>1. LockHeld'
      BY <1>2, TypeStep DEF IInv, TypeOK, TokenTypes, TaskTypes, CountTypes, LockHeld, QuietDown, Refreshing, TakeLock, Ask, Turn, Dequeue, Tasks, process, provider, bounds
    <2>2. QuietDown'
      BY <1>2, TypeStep DEF IInv, TypeOK, TokenTypes, TaskTypes, CountTypes, QuietDown, Refreshing, TakeLock, Ask, Turn, Dequeue, Tasks, process, provider, bounds
    <2> QED BY <2>1, <2>2
  <1>3. ASSUME NEW c \in Callers, WaitLock(c) PROVE LockHeld' /\ QuietDown'
    <2>1. LockHeld'
      BY <1>3, TypeStep DEF IInv, TypeOK, TokenTypes, TaskTypes, CountTypes, LockHeld, QuietDown, Refreshing, WaitLock, Tasks, process, provider, bounds
    <2>2. QuietDown'
      BY <1>3, TypeStep DEF IInv, TypeOK, TokenTypes, TaskTypes, CountTypes, QuietDown, Refreshing, WaitLock, Tasks, process, provider, bounds
    <2> QED BY <2>1, <2>2
  <1>4. ASSUME NEW c \in Callers, RequestDone(c) PROVE LockHeld' /\ QuietDown'
    <2>1. LockHeld'
      BY <1>4, TypeStep DEF IInv, TypeOK, TokenTypes, TaskTypes, CountTypes, LockHeld, QuietDown, Refreshing, RequestDone, Tasks, process, provider, bounds
    <2>2. QuietDown'
      BY <1>4, TypeStep DEF IInv, TypeOK, TokenTypes, TaskTypes, CountTypes, QuietDown, Refreshing, RequestDone, Tasks, process, provider, bounds
    <2> QED BY <2>1, <2>2
  <1>5. ASSUME NEW t \in Tasks, Accept(t) PROVE LockHeld' /\ QuietDown'
    <2>1. LockHeld'
      BY <1>5, TypeStep DEF IInv, TypeOK, TokenTypes, TaskTypes, CountTypes, LockHeld, QuietDown, Refreshing, Accept, Tasks, process, provider, bounds
    <2>2. QuietDown'
      BY <1>5, TypeStep DEF IInv, TypeOK, TokenTypes, TaskTypes, CountTypes, QuietDown, Refreshing, Accept, Tasks, process, provider, bounds
    <2> QED BY <2>1, <2>2
  <1>6. ASSUME NEW t \in Tasks, Store(t) PROVE LockHeld' /\ QuietDown'
    <2>1. LockHeld'
      BY <1>6, TypeStep DEF IInv, TypeOK, TokenTypes, TaskTypes, CountTypes, LockHeld, QuietDown, Refreshing, Store, Leave, Tasks, process, provider, bounds
    <2>2. QuietDown'
      BY <1>6, TypeStep DEF IInv, TypeOK, TokenTypes, TaskTypes, CountTypes, QuietDown, Refreshing, Store, Leave, Tasks, process, provider, bounds
    <2> QED BY <2>1, <2>2
  <1>7. ASSUME NEW t \in Tasks, AttemptFails(t) PROVE LockHeld' /\ QuietDown'
    <2>1. LockHeld'
      BY <1>7, TypeStep DEF IInv, TypeOK, TokenTypes, TaskTypes, CountTypes, LockHeld, QuietDown, Refreshing, AttemptFails, Fail, Tasks, process, provider, bounds
    <2>2. QuietDown'
      BY <1>7, TypeStep DEF IInv, TypeOK, TokenTypes, TaskTypes, CountTypes, QuietDown, Refreshing, AttemptFails, Fail, Tasks, process, provider, bounds
    <2> QED BY <2>1, <2>2
  <1>8. ASSUME NEW t \in Tasks, RefreshFails(t) PROVE LockHeld' /\ QuietDown'
    <2>1. LockHeld'
      BY <1>8, TypeStep DEF IInv, TypeOK, TokenTypes, TaskTypes, CountTypes, LockHeld, QuietDown, Refreshing, RefreshFails, Leave, Fail, Tasks, process, provider, bounds
    <2>2. QuietDown'
      BY <1>8, TypeStep DEF IInv, TypeOK, TokenTypes, TaskTypes, CountTypes, QuietDown, Refreshing, RefreshFails, Leave, Fail, Tasks, process, provider, bounds
    <2> QED BY <2>1, <2>2
  <1>9. CASE LoopWakes
    <2>1. LockHeld'
      BY <1>9, TypeStep DEF IInv, TypeOK, TokenTypes, TaskTypes, CountTypes, LockHeld, QuietDown, Refreshing, LoopWakes, Ask, Tasks, process, provider, bounds
    <2>2. QuietDown'
      BY <1>9, TypeStep DEF IInv, TypeOK, TokenTypes, TaskTypes, CountTypes, QuietDown, Refreshing, LoopWakes, Ask, Tasks, process, provider, bounds
    <2> QED BY <2>1, <2>2
  <1>10. CASE StartValid
    <2>1. LockHeld'
      BY <1>10, TypeStep DEF IInv, TypeOK, TokenTypes, TaskTypes, CountTypes, LockHeld, QuietDown, Refreshing, StartValid, Tasks, process, provider, bounds
    <2>2. QuietDown'
      BY <1>10, TypeStep DEF IInv, TypeOK, TokenTypes, TaskTypes, CountTypes, QuietDown, Refreshing, StartValid, Tasks, process, provider, bounds
    <2> QED BY <2>1, <2>2
  <1>11. CASE StartRefreshes
    <2>1. LockHeld'
      BY <1>11, TypeStep DEF IInv, TypeOK, TokenTypes, TaskTypes, CountTypes, LockHeld, QuietDown, Refreshing, StartRefreshes, Ask, Tasks, process, provider, bounds
    <2>2. QuietDown'
      BY <1>11, TypeStep DEF IInv, TypeOK, TokenTypes, TaskTypes, CountTypes, QuietDown, Refreshing, StartRefreshes, Ask, Tasks, process, provider, bounds
    <2> QED BY <2>1, <2>2
  <1>12. CASE Login
    <2>1. LockHeld'
      BY <1>12, TypeStep DEF IInv, TypeOK, TokenTypes, TaskTypes, CountTypes, LockHeld, QuietDown, Refreshing, Login, Tasks, process, provider, bounds
    <2>2. QuietDown'
      BY <1>12, TypeStep DEF IInv, TypeOK, TokenTypes, TaskTypes, CountTypes, QuietDown, Refreshing, Login, Tasks, process, provider, bounds
    <2> QED BY <2>1, <2>2
  <1>13. CASE Crash
    <2>1. LockHeld'
      BY <1>13, TypeStep DEF IInv, TypeOK, TokenTypes, TaskTypes, CountTypes, LockHeld, QuietDown, Refreshing, Crash, Tasks, process, provider, bounds
    <2>2. QuietDown'
      BY <1>13, TypeStep DEF IInv, TypeOK, TokenTypes, TaskTypes, CountTypes, QuietDown, Refreshing, Crash, Tasks, process, provider, bounds
    <2> QED BY <2>1, <2>2
  <1>14. CASE Tick
    <2>1. LockHeld'
      BY <1>14, TypeStep DEF IInv, TypeOK, TokenTypes, TaskTypes, CountTypes, LockHeld, QuietDown, Refreshing, Tick, Tasks, process, provider, bounds
    <2>2. QuietDown'
      BY <1>14, TypeStep DEF IInv, TypeOK, TokenTypes, TaskTypes, CountTypes, QuietDown, Refreshing, Tick, Tasks, process, provider, bounds
    <2> QED BY <2>1, <2>2
  <1>15. CASE UNCHANGED vars
    <2>1. LockHeld'
      BY <1>15, TypeStep DEF IInv, TypeOK, TokenTypes, TaskTypes, CountTypes, LockHeld, QuietDown, Refreshing, vars, Tasks, process, provider, bounds
    <2>2. QuietDown'
      BY <1>15, TypeStep DEF IInv, TypeOK, TokenTypes, TaskTypes, CountTypes, QuietDown, Refreshing, vars, Tasks, process, provider, bounds
    <2> QED BY <2>1, <2>2
  <1> QED BY Steps, <1>1, <1>2, <1>3, <1>4, <1>5, <1>6, <1>7, <1>8, <1>9, <1>10, <1>11, <1>12, <1>13, <1>14, <1>15
-----------------------------------------------------------------------------
\* The refresh tokens in the process and at the provider.
LEMMA RefreshTokenStep == IInv /\ [Next]_vars => UsedOld' /\ AnswerLive' /\ OneAnswer'
  <1> SUFFICES ASSUME IInv, [Next]_vars PROVE UsedOld' /\ AnswerLive' /\ OneAnswer'
    OBVIOUS
  <1> USE TasksAssumption, TimesAssumption, BoundsAssumption
  <1>1. ASSUME NEW c \in Callers, UseToken(c) PROVE UsedOld' /\ AnswerLive' /\ OneAnswer'
    <2>1. UsedOld'
      BY <1>1, TypeStep DEF IInv, TypeOK, TokenTypes, TaskTypes, CountTypes, UsedOld, AnswerLive, QuietDown, Refreshing, Token, Blank, UseToken, Turn, Dequeue, Tasks, process, provider, bounds
    <2>2. AnswerLive'
      BY <1>1, TypeStep DEF IInv, TypeOK, TokenTypes, TaskTypes, CountTypes, UsedOld, AnswerLive, OneAnswer, QuietDown, Refreshing, Token, Blank, UseToken, Turn, Dequeue, Tasks, process, provider, bounds
    <2>3. OneAnswer'
      BY <1>1, TypeStep DEF IInv, TypeOK, TokenTypes, TaskTypes, CountTypes, UsedOld, AnswerLive, OneAnswer, QuietDown, Refreshing, Token, Blank, UseToken, Turn, Dequeue, Tasks, process, provider, bounds
    <2> QED BY <2>1, <2>2, <2>3
  <1>2. ASSUME NEW c \in Callers, TakeLock(c) PROVE UsedOld' /\ AnswerLive' /\ OneAnswer'
    <2>0. /\ Ask(c) /\ c \in Tasks /\ pc[c] # "answered" /\ ~Refreshing(c)
          /\ UNCHANGED <<now, up, cred, saved, ans, live, mints, rotates, crashes, failures>>
      BY <1>2 DEF TakeLock, Turn, Refreshing, Tasks, provider, bounds
    <2>1. UsedOld'
      BY <2>0, AskEffect, Fields DEF IInv, UsedOld, AnswerLive, QuietDown, Refreshing, Tasks
    <2>2. AnswerLive'
      BY <2>0, AskEffect, Fields DEF IInv, UsedOld, AnswerLive, OneAnswer, QuietDown, Refreshing, Tasks
    <2>3. OneAnswer'
      BY <2>0, AskEffect, Fields DEF IInv, UsedOld, AnswerLive, OneAnswer, QuietDown, Refreshing, Tasks
    <2> QED BY <2>1, <2>2, <2>3
  <1>3. ASSUME NEW c \in Callers, WaitLock(c) PROVE UsedOld' /\ AnswerLive' /\ OneAnswer'
    <2>1. UsedOld'
      BY <1>3, TypeStep DEF IInv, TypeOK, TokenTypes, TaskTypes, CountTypes, UsedOld, AnswerLive, QuietDown, Refreshing, Token, Blank, WaitLock, Tasks, process, provider, bounds
    <2>2. AnswerLive'
      BY <1>3, TypeStep DEF IInv, TypeOK, TokenTypes, TaskTypes, CountTypes, UsedOld, AnswerLive, OneAnswer, QuietDown, Refreshing, Token, Blank, WaitLock, Tasks, process, provider, bounds
    <2>3. OneAnswer'
      BY <1>3, TypeStep DEF IInv, TypeOK, TokenTypes, TaskTypes, CountTypes, UsedOld, AnswerLive, OneAnswer, QuietDown, Refreshing, Token, Blank, WaitLock, Tasks, process, provider, bounds
    <2> QED BY <2>1, <2>2, <2>3
  <1>4. ASSUME NEW c \in Callers, RequestDone(c) PROVE UsedOld' /\ AnswerLive' /\ OneAnswer'
    <2>1. UsedOld'
      BY <1>4, TypeStep DEF IInv, TypeOK, TokenTypes, TaskTypes, CountTypes, UsedOld, AnswerLive, QuietDown, Refreshing, Token, Blank, RequestDone, Tasks, process, provider, bounds
    <2>2. AnswerLive'
      BY <1>4, TypeStep DEF IInv, TypeOK, TokenTypes, TaskTypes, CountTypes, UsedOld, AnswerLive, OneAnswer, QuietDown, Refreshing, Token, Blank, RequestDone, Tasks, process, provider, bounds
    <2>3. OneAnswer'
      BY <1>4, TypeStep DEF IInv, TypeOK, TokenTypes, TaskTypes, CountTypes, UsedOld, AnswerLive, OneAnswer, QuietDown, Refreshing, Token, Blank, RequestDone, Tasks, process, provider, bounds
    <2> QED BY <2>1, <2>2, <2>3
  <1>5. ASSUME NEW t \in Tasks, Accept(t) PROVE UsedOld' /\ AnswerLive' /\ OneAnswer'
    <2>1. UsedOld'
      BY <1>5, AcceptEffect, Fields DEF IInv, UsedOld, AnswerLive, QuietDown, Refreshing, Tasks
    <2>2. AnswerLive'
      BY <1>5, AcceptEffect, Fields DEF IInv, UsedOld, AnswerLive, OneAnswer, QuietDown, Refreshing, Tasks
    <2>3. OneAnswer'
      <3>1. SUFFICES ASSUME rotates', NEW a \in Tasks, NEW b \in Tasks, pc'[a] = "answered", pc'[b] = "answered"
                    PROVE  a = b
        BY DEF OneAnswer
      <3>2. rotates
        BY <1>5, <3>1, AcceptEffect DEF IInv
      <3>3. \A o \in Tasks : o # t => pc[o] # "answered"
        <4>1. used[t].refresh = live /\ Refreshing(t)
          BY <1>5, AcceptEffect DEF IInv, Refreshing
        <4>2. live <= cred.refresh
          BY <4>1 DEF IInv, UsedOld
        <4> QED BY <3>2, <4>2, Fields DEF IInv, AnswerLive
      <3> QED BY <1>5, <3>1, <3>3, AcceptEffect DEF IInv
    <2> QED BY <2>1, <2>2, <2>3
  <1>6. ASSUME NEW t \in Tasks, Store(t) PROVE UsedOld' /\ AnswerLive' /\ OneAnswer'
    <2>1. UsedOld'
      <3>1. cred'.refresh = live /\ saved' = saved /\ live' = live
        BY <1>6, StoreEffect DEF IInv, AnswerLive
      <3>2. ASSUME NEW o \in Tasks, Refreshing(o)' PROVE used'[o].refresh <= live
        <4>1. o # t /\ Refreshing(o) /\ used'[o] = used[o]
          BY <1>6, <3>2, StoreEffect DEF IInv, Refreshing
        <4> QED BY <4>1, Fields DEF IInv, UsedOld
      <3> QED BY <3>1, <3>2, Fields DEF IInv, UsedOld
    <2>2. AnswerLive'
      <3>1. SUFFICES ASSUME NEW o \in Tasks, pc'[o] = "answered"
                    PROVE  ans'[o].refresh = live' /\ (rotates' => cred'.refresh < live')
        BY DEF AnswerLive
      <3>2. /\ pc[t] = "answered" /\ o # t /\ pc[o] = "answered" /\ ans'[o] = ans[o]
            /\ live' = live /\ rotates' = rotates
        BY <1>6, <3>1, StoreEffect DEF IInv
      <3> QED BY <3>2 DEF IInv, AnswerLive, OneAnswer
    <2>3. OneAnswer'
      <3>1. SUFFICES ASSUME rotates', NEW a \in Tasks, NEW b \in Tasks, pc'[a] = "answered", pc'[b] = "answered"
                    PROVE  a = b
        BY DEF OneAnswer
      <3>2. rotates
        BY <1>6, <3>1, StoreEffect DEF IInv
      <3>3. a # t /\ b # t
        BY <1>6, <3>1, StoreEffect DEF IInv
      <3>4. pc[a] = "answered" /\ pc[b] = "answered"
        BY <1>6, <3>1, <3>3, StoreEffect DEF IInv
      <3> QED BY <3>2, <3>4 DEF IInv, OneAnswer
    <2> QED BY <2>1, <2>2, <2>3
  <1>7. ASSUME NEW t \in Tasks, AttemptFails(t) PROVE UsedOld' /\ AnswerLive' /\ OneAnswer'
    <2>1. UsedOld'
      BY <1>7, FailEffect, Fields DEF IInv, UsedOld, AnswerLive, QuietDown, Refreshing, Tasks
    <2>2. AnswerLive'
      BY <1>7, FailEffect, Fields DEF IInv, UsedOld, AnswerLive, OneAnswer, QuietDown, Refreshing, Tasks
    <2>3. OneAnswer'
      <3>1. SUFFICES ASSUME rotates', NEW a \in Tasks, NEW b \in Tasks, pc'[a] = "answered", pc'[b] = "answered"
                    PROVE  a = b
        BY DEF OneAnswer
      <3>2. rotates
        BY <1>7, <3>1, FailEffect DEF IInv
      <3>3. a # t /\ b # t
        BY <1>7, <3>1, FailEffect DEF IInv
      <3>4. pc[a] = "answered" /\ pc[b] = "answered"
        BY <1>7, <3>1, <3>3, FailEffect DEF IInv
      <3> QED BY <3>2, <3>4 DEF IInv, OneAnswer
    <2> QED BY <2>1, <2>2, <2>3
  <1>8. ASSUME NEW t \in Tasks, RefreshFails(t) PROVE UsedOld' /\ AnswerLive' /\ OneAnswer'
    <2>1. UsedOld'
      BY <1>8, FailEffect, Fields DEF IInv, UsedOld, AnswerLive, QuietDown, Refreshing, Tasks
    <2>2. AnswerLive'
      BY <1>8, FailEffect, Fields DEF IInv, UsedOld, AnswerLive, OneAnswer, QuietDown, Refreshing, Tasks
    <2>3. OneAnswer'
      <3>1. SUFFICES ASSUME rotates', NEW a \in Tasks, NEW b \in Tasks, pc'[a] = "answered", pc'[b] = "answered"
                    PROVE  a = b
        BY DEF OneAnswer
      <3>2. rotates
        BY <1>8, <3>1, FailEffect DEF IInv
      <3>3. a # t /\ b # t
        BY <1>8, <3>1, FailEffect DEF IInv
      <3>4. pc[a] = "answered" /\ pc[b] = "answered"
        BY <1>8, <3>1, <3>3, FailEffect DEF IInv
      <3> QED BY <3>2, <3>4 DEF IInv, OneAnswer
    <2> QED BY <2>1, <2>2, <2>3
  <1>9. CASE LoopWakes
    <2>0. /\ Ask(Loop) /\ Loop \in Tasks /\ pc[Loop] # "answered" /\ ~Refreshing(Loop)
          /\ UNCHANGED <<now, up, cred, saved, ans, live, mints, rotates, crashes, failures>>
      BY <1>9 DEF LoopWakes, Refreshing, Tasks, provider, bounds
    <2>1. UsedOld'
      BY <2>0, AskEffect, Fields DEF IInv, UsedOld, AnswerLive, QuietDown, Refreshing, Tasks
    <2>2. AnswerLive'
      BY <2>0, AskEffect, Fields DEF IInv, UsedOld, AnswerLive, OneAnswer, QuietDown, Refreshing, Tasks
    <2>3. OneAnswer'
      BY <2>0, AskEffect, Fields DEF IInv, UsedOld, AnswerLive, OneAnswer, QuietDown, Refreshing, Tasks
    <2> QED BY <2>1, <2>2, <2>3
  <1>10. CASE StartValid
    <2>1. UsedOld'
      BY <1>10, TypeStep DEF IInv, TypeOK, TokenTypes, TaskTypes, CountTypes, UsedOld, AnswerLive, QuietDown, Refreshing, Token, Blank, StartValid, Tasks, process, provider, bounds
    <2>2. AnswerLive'
      BY <1>10, TypeStep DEF IInv, TypeOK, TokenTypes, TaskTypes, CountTypes, UsedOld, AnswerLive, OneAnswer, QuietDown, Refreshing, Token, Blank, StartValid, Tasks, process, provider, bounds
    <2>3. OneAnswer'
      BY <1>10, TypeStep DEF IInv, TypeOK, TokenTypes, TaskTypes, CountTypes, UsedOld, AnswerLive, OneAnswer, QuietDown, Refreshing, Token, Blank, StartValid, Tasks, process, provider, bounds
    <2> QED BY <2>1, <2>2, <2>3
  <1>11. CASE StartRefreshes
    <2>0. /\ Ask(Main) /\ Main \in Tasks /\ pc[Main] # "answered" /\ ~Refreshing(Main)
          /\ UNCHANGED <<now, up, cred, saved, ans, live, mints, rotates, crashes, failures>>
      BY <1>11 DEF StartRefreshes, Refreshing, Tasks, provider, bounds
    <2>1. UsedOld'
      BY <2>0, AskEffect, Fields DEF IInv, UsedOld, AnswerLive, QuietDown, Refreshing, Tasks
    <2>2. AnswerLive'
      BY <2>0, AskEffect, Fields DEF IInv, UsedOld, AnswerLive, OneAnswer, QuietDown, Refreshing, Tasks
    <2>3. OneAnswer'
      BY <2>0, AskEffect, Fields DEF IInv, UsedOld, AnswerLive, OneAnswer, QuietDown, Refreshing, Tasks
    <2> QED BY <2>1, <2>2, <2>3
  <1>12. CASE Login
    <2>1. UsedOld'
      BY <1>12, LoginEffect, Fields DEF IInv, UsedOld, AnswerLive, QuietDown, Refreshing, Tasks
    <2>2. AnswerLive'
      BY <1>12, LoginEffect, Fields DEF IInv, UsedOld, AnswerLive, OneAnswer, QuietDown, Refreshing, Tasks
    <2>3. OneAnswer'
      BY <1>12, LoginEffect, Fields DEF IInv, UsedOld, AnswerLive, OneAnswer, QuietDown, Refreshing, Tasks
    <2> QED BY <2>1, <2>2, <2>3
  <1>13. CASE Crash
    <2>1. UsedOld'
      BY <1>13, TypeStep DEF IInv, TypeOK, TokenTypes, TaskTypes, CountTypes, UsedOld, AnswerLive, QuietDown, Refreshing, Token, Blank, Crash, Tasks, process, provider, bounds
    <2>2. AnswerLive'
      BY <1>13, TypeStep DEF IInv, TypeOK, TokenTypes, TaskTypes, CountTypes, UsedOld, AnswerLive, OneAnswer, QuietDown, Refreshing, Token, Blank, Crash, Tasks, process, provider, bounds
    <2>3. OneAnswer'
      BY <1>13, TypeStep DEF IInv, TypeOK, TokenTypes, TaskTypes, CountTypes, UsedOld, AnswerLive, OneAnswer, QuietDown, Refreshing, Token, Blank, Crash, Tasks, process, provider, bounds
    <2> QED BY <2>1, <2>2, <2>3
  <1>14. CASE Tick
    <2>1. UsedOld'
      BY <1>14, TypeStep DEF IInv, TypeOK, TokenTypes, TaskTypes, CountTypes, UsedOld, AnswerLive, QuietDown, Refreshing, Token, Blank, Tick, Tasks, process, provider, bounds
    <2>2. AnswerLive'
      BY <1>14, TypeStep DEF IInv, TypeOK, TokenTypes, TaskTypes, CountTypes, UsedOld, AnswerLive, OneAnswer, QuietDown, Refreshing, Token, Blank, Tick, Tasks, process, provider, bounds
    <2>3. OneAnswer'
      BY <1>14, TypeStep DEF IInv, TypeOK, TokenTypes, TaskTypes, CountTypes, UsedOld, AnswerLive, OneAnswer, QuietDown, Refreshing, Token, Blank, Tick, Tasks, process, provider, bounds
    <2> QED BY <2>1, <2>2, <2>3
  <1>15. CASE UNCHANGED vars
    <2>1. UsedOld'
      BY <1>15, TypeStep DEF IInv, TypeOK, TokenTypes, TaskTypes, CountTypes, UsedOld, AnswerLive, QuietDown, Refreshing, Token, Blank, vars, Tasks, process, provider, bounds
    <2>2. AnswerLive'
      BY <1>15, TypeStep DEF IInv, TypeOK, TokenTypes, TaskTypes, CountTypes, UsedOld, AnswerLive, OneAnswer, QuietDown, Refreshing, Token, Blank, vars, Tasks, process, provider, bounds
    <2>3. OneAnswer'
      BY <1>15, TypeStep DEF IInv, TypeOK, TokenTypes, TaskTypes, CountTypes, UsedOld, AnswerLive, OneAnswer, QuietDown, Refreshing, Token, Blank, vars, Tasks, process, provider, bounds
    <2> QED BY <2>1, <2>2, <2>3
  <1> QED BY Steps, <1>1, <1>2, <1>3, <1>4, <1>5, <1>6, <1>7, <1>8, <1>9, <1>10, <1>11, <1>12, <1>13, <1>14, <1>15
-----------------------------------------------------------------------------
\* Refreshes that do not overlap.
LEMMA AloneStep == IInv /\ [Next]_vars => Alone' /\ InStep'
  <1> SUFFICES ASSUME IInv, [Next]_vars PROVE Alone' /\ InStep'
    OBVIOUS
  <1> USE TasksAssumption, TimesAssumption, BoundsAssumption
  <1>1. ASSUME NEW c \in Callers, UseToken(c) PROVE Alone' /\ InStep'
    <2>1. Alone'
      BY <1>1, TypeStep DEF IInv, TypeOK, TokenTypes, TaskTypes, CountTypes, Alone, Refreshing, UseToken, Turn, Dequeue, Tasks, process, provider, bounds
    <2>2. InStep'
      BY <1>1, TypeStep DEF IInv, TypeOK, TokenTypes, TaskTypes, CountTypes, InStep, Alone, AnswerLive, UsedOld, SessionKept, QuietDown, Refreshing, Token, Blank, UseToken, Turn, Dequeue, Tasks, process, provider, bounds
    <2> QED BY <2>1, <2>2
  <1>2. ASSUME NEW c \in Callers, TakeLock(c) PROVE Alone' /\ InStep'
    <2>0. /\ Ask(c) /\ c \in Tasks /\ pc[c] # "answered" /\ ~Refreshing(c)
          /\ UNCHANGED <<now, up, cred, saved, ans, live, mints, rotates, crashes, failures>>
      BY <1>2 DEF TakeLock, Turn, Refreshing, Tasks, provider, bounds
    <2>1. Alone'
      BY <2>0, AskEffect, Fields DEF IInv, Alone, Refreshing, Tasks
    <2>2. InStep'
      BY <2>0, AskEffect, Fields DEF IInv, InStep, Alone, AnswerLive, UsedOld, SessionKept, QuietDown, Refreshing, Tasks
    <2> QED BY <2>1, <2>2
  <1>3. ASSUME NEW c \in Callers, WaitLock(c) PROVE Alone' /\ InStep'
    <2>1. Alone'
      BY <1>3, TypeStep DEF IInv, TypeOK, TokenTypes, TaskTypes, CountTypes, Alone, Refreshing, WaitLock, Tasks, process, provider, bounds
    <2>2. InStep'
      BY <1>3, TypeStep DEF IInv, TypeOK, TokenTypes, TaskTypes, CountTypes, InStep, Alone, AnswerLive, UsedOld, SessionKept, QuietDown, Refreshing, Token, Blank, WaitLock, Tasks, process, provider, bounds
    <2> QED BY <2>1, <2>2
  <1>4. ASSUME NEW c \in Callers, RequestDone(c) PROVE Alone' /\ InStep'
    <2>1. Alone'
      BY <1>4, TypeStep DEF IInv, TypeOK, TokenTypes, TaskTypes, CountTypes, Alone, Refreshing, RequestDone, Tasks, process, provider, bounds
    <2>2. InStep'
      BY <1>4, TypeStep DEF IInv, TypeOK, TokenTypes, TaskTypes, CountTypes, InStep, Alone, AnswerLive, UsedOld, SessionKept, QuietDown, Refreshing, Token, Blank, RequestDone, Tasks, process, provider, bounds
    <2> QED BY <2>1, <2>2
  <1>5. ASSUME NEW t \in Tasks, Accept(t) PROVE Alone' /\ InStep'
    <2>1. Alone'
      BY <1>5, AcceptEffect, Fields DEF IInv, Alone, Refreshing, Tasks
    <2>2. InStep'
      BY <1>5, AcceptEffect, Fields DEF IInv, InStep, Alone, AnswerLive, UsedOld, SessionKept, QuietDown, Refreshing, Tasks
    <2> QED BY <2>1, <2>2
  <1>6. ASSUME NEW t \in Tasks, Store(t) PROVE Alone' /\ InStep'
    <2>1. Alone'
      BY <1>6, StoreEffect, Fields DEF IInv, Alone, Refreshing, Tasks
    <2>2. InStep'
      BY <1>6, StoreEffect, Fields, ZenonT(40) DEF IInv, InStep, Alone, AnswerLive, UsedOld, SessionKept, QuietDown, Refreshing, Tasks
    <2> QED BY <2>1, <2>2
  <1>7. ASSUME NEW t \in Tasks, AttemptFails(t) PROVE Alone' /\ InStep'
    <2>1. Alone'
      BY <1>7, FailEffect, Fields DEF IInv, Alone, Refreshing, Tasks
    <2>2. InStep'
      BY <1>7, FailEffect, Fields DEF IInv, InStep, Alone, AnswerLive, UsedOld, SessionKept, QuietDown, Refreshing, Tasks
    <2> QED BY <2>1, <2>2
  <1>8. ASSUME NEW t \in Tasks, RefreshFails(t) PROVE Alone' /\ InStep'
    <2>1. Alone'
      BY <1>8, FailEffect, Fields DEF IInv, Alone, Refreshing, Tasks
    <2>2. InStep'
      BY <1>8, FailEffect, Fields DEF IInv, InStep, Alone, AnswerLive, UsedOld, SessionKept, QuietDown, Refreshing, Tasks
    <2> QED BY <2>1, <2>2
  <1>9. CASE LoopWakes
    <2>0. /\ Ask(Loop) /\ Loop \in Tasks /\ pc[Loop] # "answered" /\ ~Refreshing(Loop)
          /\ UNCHANGED <<now, up, cred, saved, ans, live, mints, rotates, crashes, failures>>
      BY <1>9 DEF LoopWakes, Refreshing, Tasks, provider, bounds
    <2>1. Alone'
      BY <2>0, AskEffect, Fields DEF IInv, Alone, Refreshing, Tasks
    <2>2. InStep'
      BY <2>0, AskEffect, Fields DEF IInv, InStep, Alone, AnswerLive, UsedOld, SessionKept, QuietDown, Refreshing, Tasks
    <2> QED BY <2>1, <2>2
  <1>10. CASE StartValid
    <2>1. Alone'
      BY <1>10, TypeStep DEF IInv, TypeOK, TokenTypes, TaskTypes, CountTypes, Alone, Refreshing, StartValid, Tasks, process, provider, bounds
    <2>2. InStep'
      BY <1>10, TypeStep DEF IInv, TypeOK, TokenTypes, TaskTypes, CountTypes, InStep, Alone, AnswerLive, UsedOld, SessionKept, QuietDown, Refreshing, Token, Blank, StartValid, Tasks, process, provider, bounds
    <2> QED BY <2>1, <2>2
  <1>11. CASE StartRefreshes
    <2>0. /\ Ask(Main) /\ Main \in Tasks /\ pc[Main] # "answered" /\ ~Refreshing(Main)
          /\ UNCHANGED <<now, up, cred, saved, ans, live, mints, rotates, crashes, failures>>
      BY <1>11 DEF StartRefreshes, Refreshing, Tasks, provider, bounds
    <2>1. Alone'
      BY <2>0, AskEffect, Fields DEF IInv, Alone, Refreshing, Tasks
    <2>2. InStep'
      BY <2>0, AskEffect, Fields DEF IInv, InStep, Alone, AnswerLive, UsedOld, SessionKept, QuietDown, Refreshing, Tasks
    <2> QED BY <2>1, <2>2
  <1>12. CASE Login
    <2>1. Alone'
      BY <1>12, LoginEffect, Fields DEF IInv, Alone, Refreshing, Tasks
    <2>2. InStep'
      BY <1>12, LoginEffect, Fields DEF IInv, InStep, Alone, AnswerLive, UsedOld, SessionKept, QuietDown, Refreshing, Tasks
    <2> QED BY <2>1, <2>2
  <1>13. CASE Crash
    <2>1. Alone'
      BY <1>13, TypeStep DEF IInv, TypeOK, TokenTypes, TaskTypes, CountTypes, Alone, Refreshing, Crash, Tasks, process, provider, bounds
    <2>2. InStep'
      BY <1>13, TypeStep DEF IInv, TypeOK, TokenTypes, TaskTypes, CountTypes, InStep, Alone, AnswerLive, UsedOld, SessionKept, QuietDown, Refreshing, Token, Blank, Crash, Tasks, process, provider, bounds
    <2> QED BY <2>1, <2>2
  <1>14. CASE Tick
    <2>1. Alone'
      BY <1>14, TypeStep DEF IInv, TypeOK, TokenTypes, TaskTypes, CountTypes, Alone, Refreshing, Tick, Tasks, process, provider, bounds
    <2>2. InStep'
      BY <1>14, TypeStep DEF IInv, TypeOK, TokenTypes, TaskTypes, CountTypes, InStep, Alone, AnswerLive, UsedOld, SessionKept, QuietDown, Refreshing, Token, Blank, Tick, Tasks, process, provider, bounds
    <2> QED BY <2>1, <2>2
  <1>15. CASE UNCHANGED vars
    <2>1. Alone'
      BY <1>15, TypeStep DEF IInv, TypeOK, TokenTypes, TaskTypes, CountTypes, Alone, Refreshing, vars, Tasks, process, provider, bounds
    <2>2. InStep'
      BY <1>15, TypeStep DEF IInv, TypeOK, TokenTypes, TaskTypes, CountTypes, InStep, Alone, AnswerLive, UsedOld, SessionKept, QuietDown, Refreshing, Token, Blank, vars, Tasks, process, provider, bounds
    <2> QED BY <2>1, <2>2
  <1> QED BY Steps, <1>1, <1>2, <1>3, <1>4, <1>5, <1>6, <1>7, <1>8, <1>9, <1>10, <1>11, <1>12, <1>13, <1>14, <1>15
-----------------------------------------------------------------------------
\* What requests and the session rely on.
LEMMA SessionStep == IInv /\ [Next]_vars => BearerUsable' /\ SessionKept'
  <1> SUFFICES ASSUME IInv, [Next]_vars PROVE BearerUsable' /\ SessionKept'
    OBVIOUS
  <1> USE TasksAssumption, TimesAssumption, BoundsAssumption
  <1>1. ASSUME NEW c \in Callers, UseToken(c) PROVE BearerUsable' /\ SessionKept'
    <2>1. BearerUsable'
      BY <1>1, TypeStep DEF IInv, TypeOK, TokenTypes, TaskTypes, CountTypes, BearerUsable, Due, QuietDown, Refreshing, Token, Blank, UseToken, Turn, Dequeue, Tasks, process, provider, bounds
    <2>2. SessionKept'
      BY <1>1, TypeStep DEF IInv, TypeOK, TokenTypes, TaskTypes, CountTypes, SessionKept, UsedOld, AnswerLive, OneAnswer, QuietDown, Refreshing, Token, Blank, UseToken, Turn, Dequeue, Tasks, process, provider, bounds
    <2> QED BY <2>1, <2>2
  <1>2. ASSUME NEW c \in Callers, TakeLock(c) PROVE BearerUsable' /\ SessionKept'
    <2>0. /\ Ask(c) /\ c \in Tasks /\ pc[c] # "answered" /\ ~Refreshing(c)
          /\ UNCHANGED <<now, up, cred, saved, ans, live, mints, rotates, crashes, failures>>
      BY <1>2 DEF TakeLock, Turn, Refreshing, Tasks, provider, bounds
    <2>1. BearerUsable'
      BY <2>0, AskEffect, Fields DEF IInv, BearerUsable, Due, QuietDown, Refreshing, Tasks
    <2>2. SessionKept'
      BY <2>0, AskEffect, Fields DEF IInv, SessionKept, UsedOld, AnswerLive, OneAnswer, QuietDown, Refreshing, Tasks
    <2> QED BY <2>1, <2>2
  <1>3. ASSUME NEW c \in Callers, WaitLock(c) PROVE BearerUsable' /\ SessionKept'
    <2>1. BearerUsable'
      BY <1>3, TypeStep DEF IInv, TypeOK, TokenTypes, TaskTypes, CountTypes, BearerUsable, Due, QuietDown, Refreshing, Token, Blank, WaitLock, Tasks, process, provider, bounds
    <2>2. SessionKept'
      BY <1>3, TypeStep DEF IInv, TypeOK, TokenTypes, TaskTypes, CountTypes, SessionKept, UsedOld, AnswerLive, OneAnswer, QuietDown, Refreshing, Token, Blank, WaitLock, Tasks, process, provider, bounds
    <2> QED BY <2>1, <2>2
  <1>4. ASSUME NEW c \in Callers, RequestDone(c) PROVE BearerUsable' /\ SessionKept'
    <2>1. BearerUsable'
      BY <1>4, TypeStep DEF IInv, TypeOK, TokenTypes, TaskTypes, CountTypes, BearerUsable, Due, QuietDown, Refreshing, Token, Blank, RequestDone, Tasks, process, provider, bounds
    <2>2. SessionKept'
      BY <1>4, TypeStep DEF IInv, TypeOK, TokenTypes, TaskTypes, CountTypes, SessionKept, UsedOld, AnswerLive, OneAnswer, QuietDown, Refreshing, Token, Blank, RequestDone, Tasks, process, provider, bounds
    <2> QED BY <2>1, <2>2
  <1>5. ASSUME NEW t \in Tasks, Accept(t) PROVE BearerUsable' /\ SessionKept'
    <2>1. BearerUsable'
      BY <1>5, AcceptEffect, Fields DEF IInv, BearerUsable, Due, QuietDown, Refreshing, Tasks
    <2>2. SessionKept'
      BY <1>5, AcceptEffect, Fields DEF IInv, SessionKept, UsedOld, AnswerLive, OneAnswer, QuietDown, Refreshing, Tasks
    <2> QED BY <2>1, <2>2
  <1>6. ASSUME NEW t \in Tasks, Store(t) PROVE BearerUsable' /\ SessionKept'
    <2>1. BearerUsable'
      <3>1. SUFFICES ASSUME NEW c \in Callers, pc'[c] = "send" PROVE ~(now' + Skew >= used'[c].exp)
        BY DEF BearerUsable, Due
      <3>2. now' = now /\ c \in Tasks
        BY <1>6, StoreEffect DEF IInv, Tasks
      <3>3. CASE c = t
        <4>1. used'[t].exp = now + Life
          BY <1>6, <3>3, StoreEffect DEF IInv
        <4> QED BY <3>2, <3>3, <4>1, Fields DEF IInv
      <3>4. CASE c # t
        BY <1>6, <3>1, <3>2, <3>4, StoreEffect DEF IInv, BearerUsable, Due
      <3> QED BY <3>3, <3>4
    <2>2. SessionKept'
      BY <1>6, StoreEffect, Fields DEF IInv, SessionKept, UsedOld, AnswerLive, OneAnswer, QuietDown, Refreshing, Tasks
    <2> QED BY <2>1, <2>2
  <1>7. ASSUME NEW t \in Tasks, AttemptFails(t) PROVE BearerUsable' /\ SessionKept'
    <2>1. BearerUsable'
      BY <1>7, FailEffect, Fields DEF IInv, BearerUsable, Due, QuietDown, Refreshing, Tasks
    <2>2. SessionKept'
      BY <1>7, FailEffect, Fields DEF IInv, SessionKept, UsedOld, AnswerLive, OneAnswer, QuietDown, Refreshing, Tasks
    <2> QED BY <2>1, <2>2
  <1>8. ASSUME NEW t \in Tasks, RefreshFails(t) PROVE BearerUsable' /\ SessionKept'
    <2>1. BearerUsable'
      BY <1>8, FailEffect, Fields DEF IInv, BearerUsable, Due, QuietDown, Refreshing, Tasks
    <2>2. SessionKept'
      BY <1>8, FailEffect, Fields DEF IInv, SessionKept, UsedOld, AnswerLive, OneAnswer, QuietDown, Refreshing, Tasks
    <2> QED BY <2>1, <2>2
  <1>9. CASE LoopWakes
    <2>0. /\ Ask(Loop) /\ Loop \in Tasks /\ pc[Loop] # "answered" /\ ~Refreshing(Loop)
          /\ UNCHANGED <<now, up, cred, saved, ans, live, mints, rotates, crashes, failures>>
      BY <1>9 DEF LoopWakes, Refreshing, Tasks, provider, bounds
    <2>1. BearerUsable'
      BY <2>0, AskEffect, Fields DEF IInv, BearerUsable, Due, QuietDown, Refreshing, Tasks
    <2>2. SessionKept'
      BY <2>0, AskEffect, Fields DEF IInv, SessionKept, UsedOld, AnswerLive, OneAnswer, QuietDown, Refreshing, Tasks
    <2> QED BY <2>1, <2>2
  <1>10. CASE StartValid
    <2>1. BearerUsable'
      BY <1>10, TypeStep DEF IInv, TypeOK, TokenTypes, TaskTypes, CountTypes, BearerUsable, Due, QuietDown, Refreshing, Token, Blank, StartValid, Tasks, process, provider, bounds
    <2>2. SessionKept'
      BY <1>10, TypeStep DEF IInv, TypeOK, TokenTypes, TaskTypes, CountTypes, SessionKept, UsedOld, AnswerLive, OneAnswer, QuietDown, Refreshing, Token, Blank, StartValid, Tasks, process, provider, bounds
    <2> QED BY <2>1, <2>2
  <1>11. CASE StartRefreshes
    <2>0. /\ Ask(Main) /\ Main \in Tasks /\ pc[Main] # "answered" /\ ~Refreshing(Main)
          /\ UNCHANGED <<now, up, cred, saved, ans, live, mints, rotates, crashes, failures>>
      BY <1>11 DEF StartRefreshes, Refreshing, Tasks, provider, bounds
    <2>1. BearerUsable'
      BY <2>0, AskEffect, Fields DEF IInv, BearerUsable, Due, QuietDown, Refreshing, Tasks
    <2>2. SessionKept'
      BY <2>0, AskEffect, Fields DEF IInv, SessionKept, UsedOld, AnswerLive, OneAnswer, QuietDown, Refreshing, Tasks
    <2> QED BY <2>1, <2>2
  <1>12. CASE Login
    <2>1. BearerUsable'
      BY <1>12, LoginEffect, Fields DEF IInv, BearerUsable, Due, QuietDown, Refreshing, Tasks
    <2>2. SessionKept'
      BY <1>12, LoginEffect, Fields DEF IInv, SessionKept, UsedOld, AnswerLive, OneAnswer, QuietDown, Refreshing, Tasks
    <2> QED BY <2>1, <2>2
  <1>13. CASE Crash
    <2>1. BearerUsable'
      BY <1>13, TypeStep DEF IInv, TypeOK, TokenTypes, TaskTypes, CountTypes, BearerUsable, Due, QuietDown, Refreshing, Token, Blank, Crash, Tasks, process, provider, bounds
    <2>2. SessionKept'
      BY <1>13, TypeStep DEF IInv, TypeOK, TokenTypes, TaskTypes, CountTypes, SessionKept, UsedOld, AnswerLive, OneAnswer, QuietDown, Refreshing, Token, Blank, Crash, Tasks, process, provider, bounds
    <2> QED BY <2>1, <2>2
  <1>14. CASE Tick
    <2>1. BearerUsable'
      BY <1>14, TypeStep DEF IInv, TypeOK, TokenTypes, TaskTypes, CountTypes, BearerUsable, Due, QuietDown, Refreshing, Token, Blank, Tick, Tasks, process, provider, bounds
    <2>2. SessionKept'
      BY <1>14, TypeStep DEF IInv, TypeOK, TokenTypes, TaskTypes, CountTypes, SessionKept, UsedOld, AnswerLive, OneAnswer, QuietDown, Refreshing, Token, Blank, Tick, Tasks, process, provider, bounds
    <2> QED BY <2>1, <2>2
  <1>15. CASE UNCHANGED vars
    <2>1. BearerUsable'
      BY <1>15, TypeStep DEF IInv, TypeOK, TokenTypes, TaskTypes, CountTypes, BearerUsable, Due, QuietDown, Refreshing, Token, Blank, vars, Tasks, process, provider, bounds
    <2>2. SessionKept'
      BY <1>15, TypeStep DEF IInv, TypeOK, TokenTypes, TaskTypes, CountTypes, SessionKept, UsedOld, AnswerLive, OneAnswer, QuietDown, Refreshing, Token, Blank, vars, Tasks, process, provider, bounds
    <2> QED BY <2>1, <2>2
  <1> QED BY Steps, <1>1, <1>2, <1>3, <1>4, <1>5, <1>6, <1>7, <1>8, <1>9, <1>10, <1>11, <1>12, <1>13, <1>14, <1>15
-----------------------------------------------------------------------------
\* The invariant is inductive.
LEMMA IInvInductive == IInv /\ [Next]_vars => IInv'
  BY TypeStep, LockStep, RefreshTokenStep, AloneStep, SessionStep DEF IInv

LEMMA IInvAlways == Spec => []IInv
  BY InitIInv, IInvInductive, PTL DEF Spec

\* Every variable of the session keeps its type.
THEOREM TypeCorrect == Spec => []TypeOK
  <1>1. IInv => TypeOK
    BY DEF IInv
  <1> QED BY IInvAlways, <1>1, PTL

\* No request goes out with a token that is about to expire, whatever the
\* lock made it wait.
THEOREM BearersAreUsable == Spec => []BearerUsable
  <1>1. IInv => BearerUsable
    BY DEF IInv
  <1> QED BY IInvAlways, <1>1, PTL

\* The lock of _bearer_token excludes.
THEOREM LockExcludes == Spec => []OneCallerRefreshes
  <1>1. IInv => OneCallerRefreshes
    BY TasksAssumption DEF IInv, LockHeld, OneCallerRefreshes
  <1> QED BY IInvAlways, <1>1, PTL

\* The session outlives any overlap of refreshes that are all answered.
THEOREM SessionIsKept == Spec => []SessionKept
  <1>1. IInv => SessionKept
    BY DEF IInv
  <1> QED BY IInvAlways, <1>1, PTL

\* Without overlap, lost answer or death no refresh token is refused.
THEOREM RefusalNeedsOverlap == Spec => []RefusedOnlyByOverlap
  <1>1. IInv => RefusedOnlyByOverlap
    BY DEF IInv, InStep, RefusedOnlyByOverlap
  <1> QED BY IInvAlways, <1>1, PTL

\* Without overlap, lost answer or death the store has the newest access token.
THEOREM NewestAccessKept == Spec => []NewestAccess
  <1>1. IInv => NewestAccess
    BY DEF IInv, InStep, NewestAccess
  <1> QED BY IInvAlways, <1>1, PTL
=============================================================================
