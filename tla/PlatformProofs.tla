--------------------------- MODULE PlatformProofs ---------------------------
(***************************************************************************)
(* Theorems about the process of runner.py, for any symbols, any limit of  *)
(* positions and any number of bars and starts; about the rate limiter of  *)
(* the API, for any names, any limit and any window; and about the two     *)
(* tasks of the trading day, for any times at which the platform starts    *)
(* and any length of an outage.                                            *)
(***************************************************************************)
EXTENDS RunnerProcess, RateWindow, TradingCalendar, SumTheorems, SequenceTheorems, TLAPS

-----------------------------------------------------------------------------
(* RunnerProcess *)

Buying(s) == order.side = "buy" /\ order.sym = s
Selling(s) == order.side = "sell" /\ order.sym = s

\* The memory is changed before the order is routed.
MemoryAhead == \A s \in Tickers : (Buying(s) => holds[s]) /\ (Selling(s) => ~holds[s])

\* Behind every lot the strategy still counts, or has decided to sell, is one that it
\* bought or a purchase that was missed.
LotsBehind ==
  \A s \in Tickers :
    own[s] + missed[s] >= (IF holds[s] /\ ~Buying(s) THEN 1 ELSE 0) + (IF Selling(s) THEN 1 ELSE 0)

\* Of the bars that were counted each is in the queue, in hand or handled; or it was
\* lost with the process.
BarsCounted ==
  limit > 0 =>
    /\ counted <= limit
    /\ handled + Len(queue) + (IF order = NoOrder THEN 0 ELSE 1) <= counted

\* The inductive invariant.
RunnerInv == RunnerTypeOK /\ MemoryAhead /\ LotsBehind /\ BarsCounted

-----------------------------------------------------------------------------
\* What an order may be.
LEMMA OrderShape ==
  ASSUME RunnerTypeOK
  PROVE  /\ order = NoOrder => order.side = "none"
         /\ order # NoOrder => order.sym \in Tickers /\ order.side \in {"buy", "sell"}
  BY DEF RunnerTypeOK, Orders002, NoOrder

\* The initial states satisfy the invariant.
LEMMA InitRunnerInv == RunnerInit => RunnerInv
  <1> SUFFICES ASSUME RunnerInit PROVE RunnerInv
    OBVIOUS
  <1>1. RunnerTypeOK
    <2>1. queue \in Seq(Bars)
      BY EmptySeq DEF RunnerInit
    <2>2. order \in Orders002 \cup {NoOrder} /\ stream \in [Tickers -> {"reads", "left"}]
      BY DEF RunnerInit
    <2>3. /\ holds \in [Tickers -> BOOLEAN] /\ own \in [Tickers -> Int]
          /\ missed \in [Tickers -> Nat] /\ unsold \in [Tickers -> Nat]
          /\ closed \in [Tickers -> Int] /\ toClose \in [Tickers -> Int]
      BY DEF RunnerInit, NoLots
    <2>4. /\ limit \in Nat /\ up \in BOOLEAN /\ counted \in Nat /\ handled \in Nat
          /\ given \in Nat /\ starts \in Nat
          /\ sweeps \in Nat
      BY DEF RunnerInit
    <2> QED BY <2>1, <2>2, <2>3, <2>4 DEF RunnerTypeOK
  <1>2. MemoryAhead /\ LotsBehind
    BY DEF RunnerInit, MemoryAhead, LotsBehind, Buying, Selling, NoOrder, NoLots
  <1>3. BarsCounted
    BY DEF RunnerInit, BarsCounted
  <1> QED BY <1>1, <1>2, <1>3 DEF RunnerInv

\* The end of a process: what its orders did stays, the memory of it goes.
LEMMA GoneKeeps ==
  ASSUME RunnerInv, Gone, missed' = missed, unsold' = unsold, UNCHANGED sweepVars,
         own' \in [Tickers -> Int],
         \A s \in Tickers : own'[s] >= own[s] - (IF Selling(s) THEN 1 ELSE 0)
  PROVE  RunnerInv'
  <1>0. RunnerTypeOK /\ MemoryAhead /\ LotsBehind /\ BarsCounted
    BY DEF RunnerInv
  <1>1. /\ up' = FALSE /\ queue' = <<>> /\ order' = NoOrder /\ order'.side = "none"
        /\ UNCHANGED <<limit, counted, handled, given, starts>>
        /\ \A s \in Tickers : holds'[s] = FALSE
    BY DEF Gone, NoOrder
  <1>2. RunnerTypeOK'
    <2>1. /\ stream' \in [Tickers -> {"reads", "left"}] /\ holds' \in [Tickers -> BOOLEAN]
          /\ queue' \in Seq(Bars)
      BY EmptySeq DEF Gone
    <2> QED BY <2>1, <1>0, <1>1 DEF RunnerTypeOK, sweepVars
  <1>3. MemoryAhead'
    BY <1>1 DEF MemoryAhead, Buying, Selling
  <1>4. LotsBehind'
    <2> SUFFICES ASSUME NEW s \in Tickers PROVE own'[s] + missed'[s] >= 0
      BY <1>1 DEF LotsBehind, Buying, Selling
    <2>1. own[s] \in Int /\ own'[s] \in Int /\ missed[s] \in Nat
      BY <1>0 DEF RunnerTypeOK
    <2>2. own[s] + missed[s] >= (IF Selling(s) THEN 1 ELSE 0)
      BY <1>0, <2>1 DEF LotsBehind
    <2>3. own'[s] >= own[s] - (IF Selling(s) THEN 1 ELSE 0)
      OBVIOUS
    <2> QED BY <2>1, <2>2, <2>3
  <1>5. BarsCounted'
    <2>1. Len(queue) \in Nat /\ Len(queue') = 0
      BY <1>0, <1>1, LenProperties, EmptySeq DEF RunnerTypeOK
    <2> QED BY <2>1, <1>0, <1>1 DEF BarsCounted, RunnerTypeOK
  <1> QED BY <1>2, <1>3, <1>4, <1>5 DEF RunnerInv

\* A bar taken leaves the queue.
LEMMA TakesBar ==
  ASSUME RunnerTypeOK, NEW b \in Bars, Takes(b)
  PROVE  queue' \in Seq(Bars) /\ Len(queue') = Len(queue) - 1 /\ Len(queue) \in Nat
  BY HeadTailProperties DEF Takes, RunnerTypeOK

\* Every step keeps the invariant.
LEMMA NextRunnerInv == RunnerInv /\ [RunnerNext]_runnerVars => RunnerInv'
  <1> SUFFICES ASSUME RunnerInv, [RunnerNext]_runnerVars PROVE RunnerInv'
    OBVIOUS
  <1> USE TickersAssumption, RunnerBoundsAssumption
  <1>0. RunnerTypeOK /\ MemoryAhead /\ LotsBehind /\ BarsCounted
    BY DEF RunnerInv
  <1>t. /\ limit \in Nat /\ counted \in Nat /\ handled \in Nat /\ given \in Nat /\ starts \in Nat
        /\ queue \in Seq(Bars) /\ Len(queue) \in Nat
        /\ holds \in [Tickers -> BOOLEAN] /\ own \in [Tickers -> Int]
        /\ missed \in [Tickers -> Nat] /\ unsold \in [Tickers -> Nat]
    BY <1>0, LenProperties DEF RunnerTypeOK
  \* Steps that leave the memory, the order and the strategy's lots alone.
  <1>f. ASSUME UNCHANGED <<order, memory002, history002>>, RunnerTypeOK', BarsCounted'
        PROVE  RunnerInv'
    BY <1>0, <1>f DEF RunnerInv, MemoryAhead, LotsBehind, Buying, Selling, memory002, history002
  <1>1. CASE StartRunner
    <2>1. /\ order' = NoOrder /\ order'.side = "none" /\ queue' = <<>> /\ counted' = 0 /\ handled' = 0
          /\ \A s \in Tickers : holds'[s] = FALSE
          /\ UNCHANGED <<own, missed, unsold, closed, toClose, sweeps>>
      BY <1>1 DEF StartRunner, NoOrder, history002, sweepVars
    <2>2. RunnerTypeOK'
      <3>1. queue' \in Seq(Bars)
        BY <2>1, EmptySeq
      <3> QED BY <3>1, <2>1, <1>0, <1>1 DEF StartRunner, RunnerTypeOK
    <2>3. BarsCounted'
      <3>1. Len(queue') = 0
        BY <2>1, EmptySeq
      <3> QED BY <3>1, <2>1, <2>2 DEF BarsCounted, RunnerTypeOK
    <2>4. LotsBehind'
      <3> SUFFICES ASSUME NEW s \in Tickers PROVE own[s] + missed[s] >= 0
        BY <2>1 DEF LotsBehind, Buying, Selling
      <3>1. own[s] \in Int /\ missed[s] \in Nat
        BY <1>t
      <3> QED BY <3>1, <1>0 DEF LotsBehind
    <2> QED BY <2>1, <2>2, <2>3, <2>4 DEF RunnerInv, MemoryAhead, Buying, Selling
  <1>2. CASE Finish \/ Fails
    <2>1. Gone /\ UNCHANGED <<own, missed, unsold, sweepVars>>
      BY <1>2 DEF Finish, Fails, history002
    <2>2. \A s \in Tickers : own'[s] >= own[s] - (IF Selling(s) THEN 1 ELSE 0)
      BY <2>1, <1>t
    <2> QED BY <2>1, <2>2, <1>t, GoneKeeps
  <1>3. ASSUME NEW s \in Tickers, Leaves(s) PROVE RunnerInv'
    BY <1>0, <1>3, <1>f DEF Leaves, RunnerTypeOK, BarsCounted, memory002, history002, sweepVars
  <1>4. ASSUME NEW s \in Tickers, NEW time \in Times, Arrives(s, time) PROVE RunnerInv'
    <2> DEFINE b == [sym |-> s, time |-> time]
    <2>1. b \in Bars
      BY DEF Bars
    <2>2. queue' = Append(queue, b)
      BY <1>4 DEF Arrives, Published
    <2> HIDE DEF b
    <2>3. queue' \in Seq(Bars) /\ Len(queue') = Len(queue) + 1
      BY <2>1, <2>2, <1>t, AppendProperties
    <2>4. RunnerTypeOK'
      BY <2>3, <1>0, <1>4 DEF Arrives, RunnerTypeOK, memory002, history002, sweepVars
    <2>5. BarsCounted'
      BY <2>3, <1>0, <1>t, <1>4 DEF Arrives, Done, BarsCounted
    <2> QED BY <2>4, <2>5, <1>4, <1>f DEF Arrives
  <1>5. CASE Quiet
    <2> PICK b \in Bars : /\ Takes(b) /\ handled' = handled + 1
                          /\ UNCHANGED <<limit, up, stream, counted, order, memory002, history002,
                                         given, starts>>
      BY <1>5 DEF Quiet
    <2>1. queue' \in Seq(Bars) /\ Len(queue') = Len(queue) - 1
      BY <1>0, TakesBar
    <2>2. RunnerTypeOK'
      BY <2>1, <1>0 DEF RunnerTypeOK, memory002, history002, sweepVars
    <2>3. BarsCounted'
      BY <2>1, <1>0, <1>t DEF BarsCounted
    <2> QED BY <2>2, <2>3, <1>f
  <1>6. CASE Buys
    <2> PICK b \in Bars : /\ Takes(b) /\ ~holds[b.sym]
                          /\ holds' = [holds EXCEPT ![b.sym] = TRUE]
                          /\ order' = [side |-> "buy", sym |-> b.sym]
                          /\ UNCHANGED <<limit, up, stream, counted, handled, history002, given, starts>>
      BY <1>6 DEF Buys
    <2>1. queue' \in Seq(Bars) /\ Len(queue') = Len(queue) - 1
      BY <1>0, TakesBar
    <2>2. b.sym \in Tickers /\ order = NoOrder /\ order.side = "none" /\ order' # NoOrder
      <3>1. b.sym \in Tickers /\ order = NoOrder
        BY DEF Takes, Bars
      <3>2. order'.side = "buy" /\ NoOrder.side = "none"
        BY DEF NoOrder
      <3> QED BY <3>1, <3>2
    <2>3. RunnerTypeOK'
      <3>1. order' \in Orders002 /\ holds' \in [Tickers -> BOOLEAN]
        BY <2>2, <1>t DEF Orders002
      <3> QED BY <3>1, <2>1, <1>0 DEF RunnerTypeOK, history002, sweepVars
    <2>4. BarsCounted'
      BY <2>1, <2>2, <1>0, <1>t DEF BarsCounted
    <2>5. MemoryAhead'
      BY <2>2, <1>t DEF MemoryAhead, Buying, Selling
    <2>6. LotsBehind'
      <3> SUFFICES ASSUME NEW s \in Tickers
                   PROVE  own[s] + missed[s] >= (IF holds'[s] /\ ~Buying(s)' THEN 1 ELSE 0)
                                                     + (IF Selling(s)' THEN 1 ELSE 0)
        BY DEF LotsBehind, history002
      <3>1. ~Selling(s)' /\ (Buying(s)' <=> s = b.sym) /\ (holds'[s] => s = b.sym \/ holds[s])
        BY <1>t DEF Buying, Selling
      <3>2. own[s] + missed[s] >= (IF holds[s] THEN 1 ELSE 0)
        BY <2>2, <1>0, <1>t DEF LotsBehind, Buying, Selling
      <3> QED BY <3>1, <3>2, <1>t
    <2> QED BY <2>3, <2>4, <2>5, <2>6 DEF RunnerInv
  <1>7. CASE Sells
    <2> PICK b \in Bars : /\ Takes(b) /\ holds[b.sym]
                          /\ holds' = [holds EXCEPT ![b.sym] = FALSE]
                          /\ order' = [side |-> "sell", sym |-> b.sym]
                          /\ UNCHANGED <<limit, up, stream, counted, handled, history002, given, starts>>
      BY <1>7 DEF Sells
    <2>1. queue' \in Seq(Bars) /\ Len(queue') = Len(queue) - 1
      BY <1>0, TakesBar
    <2>2. b.sym \in Tickers /\ order = NoOrder /\ order.side = "none" /\ order' # NoOrder
      <3>1. b.sym \in Tickers /\ order = NoOrder
        BY DEF Takes, Bars
      <3>2. order'.side = "sell" /\ NoOrder.side = "none"
        BY DEF NoOrder
      <3> QED BY <3>1, <3>2
    <2>3. RunnerTypeOK'
      <3>1. order' \in Orders002 /\ holds' \in [Tickers -> BOOLEAN]
        BY <2>2, <1>t DEF Orders002
      <3> QED BY <3>1, <2>1, <1>0 DEF RunnerTypeOK, history002, sweepVars
    <2>4. BarsCounted'
      BY <2>1, <2>2, <1>0, <1>t DEF BarsCounted
    <2>5. MemoryAhead'
      BY <2>2, <1>t DEF MemoryAhead, Buying, Selling
    <2>6. LotsBehind'
      <3> SUFFICES ASSUME NEW s \in Tickers
                   PROVE  own[s] + missed[s] >= (IF holds'[s] /\ ~Buying(s)' THEN 1 ELSE 0)
                                                     + (IF Selling(s)' THEN 1 ELSE 0)
        BY DEF LotsBehind, history002
      <3>1. ~Buying(s)' /\ (Selling(s)' <=> s = b.sym) /\ holds'[b.sym] = FALSE
            /\ (s # b.sym => holds'[s] = holds[s])
        BY <2>2, <1>t DEF Buying, Selling
      <3>2. own[s] + missed[s] >= (IF holds[s] THEN 1 ELSE 0)
        BY <2>2, <1>0, <1>t DEF LotsBehind, Buying, Selling
      <3> QED BY <3>1, <3>2, <1>t
    <2> QED BY <2>3, <2>4, <2>5, <2>6 DEF RunnerInv
  <1>8. CASE Executes \/ NotExecuted
    <2>1. /\ order # NoOrder /\ order' = NoOrder /\ order'.side = "none" /\ handled' = handled + 1
          /\ UNCHANGED <<limit, up, stream, counted, queue, holds, given, starts, closed, toClose, sweeps>>
      BY <1>8 DEF Executes, NotExecuted, Routed, NoOrder, memory002, sweepVars
    <2>2. order.sym \in Tickers /\ order.side \in {"buy", "sell"}
      BY <2>1, <1>0, OrderShape
    <2>3. /\ own' \in [Tickers -> Int] /\ missed' \in [Tickers -> Nat] /\ unsold' \in [Tickers -> Nat]
          /\ \A s \in Tickers : s # order.sym => own'[s] = own[s] /\ missed'[s] = missed[s]
          /\ order.side = "buy" =>
               own'[order.sym] + missed'[order.sym] = own[order.sym] + missed[order.sym] + 1
          /\ order.side = "sell" =>
               own'[order.sym] + missed'[order.sym] >= own[order.sym] + missed[order.sym] - 1
      <3>1. CASE Executes
        <4>1. own' = [own EXCEPT ![order.sym] = @ + Lots(order)] /\ UNCHANGED <<missed, unsold>>
          BY <3>1 DEF Executes, Traded
        <4>2. Lots(order) = IF order.side = "buy" THEN 1 ELSE -1
          BY DEF Lots
        <4>3. own[order.sym] \in Int /\ missed[order.sym] \in Nat
          BY <2>2, <1>t
        <4>4. own' \in [Tickers -> Int] /\ own'[order.sym] = own[order.sym] + Lots(order)
          BY <4>1, <4>2, <2>2, <1>t
        <4>5. \A s \in Tickers : s # order.sym => own'[s] = own[s] /\ missed'[s] = missed[s]
          BY <4>1, <1>t
        <4>6. missed' = missed /\ unsold' = unsold
          BY <4>1
        <4>7. /\ order.side = "buy" => Lots(order) = 1
              /\ order.side = "sell" => Lots(order) = -1
          BY <4>2
        <4>8. /\ order.side = "buy" =>
                   own'[order.sym] + missed'[order.sym] = own[order.sym] + missed[order.sym] + 1
              /\ order.side = "sell" =>
                   own'[order.sym] + missed'[order.sym] >= own[order.sym] + missed[order.sym] - 1
          BY <4>3, <4>4, <4>6, <4>7
        <4> QED BY <4>4, <4>5, <4>6, <4>8, <1>t
      <3>2. CASE NotExecuted
        <4>1. own' = own /\ own[order.sym] \in Int /\ missed[order.sym] \in Nat
          BY <3>2, <2>2, <1>t DEF NotExecuted
        <4>2. CASE order.side = "buy"
          <5>1. missed' = [missed EXCEPT ![order.sym] = @ + 1] /\ unsold' = unsold
            BY <3>2, <4>2 DEF NotExecuted
          <5>2. missed' \in [Tickers -> Nat] /\ missed'[order.sym] = missed[order.sym] + 1
            BY <5>1, <4>1, <2>2, <1>t
          <5> QED BY <5>1, <5>2, <4>1, <4>2, <1>t
        <4>3. CASE order.side = "sell"
          <5>1. unsold' = [unsold EXCEPT ![order.sym] = @ + 1] /\ missed' = missed
            BY <3>2, <4>3 DEF NotExecuted
          <5>2. unsold' \in [Tickers -> Nat]
            BY <5>1, <2>2, <1>t
          <5> QED BY <5>1, <5>2, <4>1, <4>3, <1>t, SMTT(20)
        <4> QED BY <4>2, <4>3, <2>2
      <3> QED BY <1>8, <3>1, <3>2
    <2>4. RunnerTypeOK'
      BY <2>1, <2>3, <1>0 DEF RunnerTypeOK
    <2>5. BarsCounted'
      BY <2>1, <1>0, <1>t DEF BarsCounted
    <2>6. MemoryAhead'
      BY <2>1 DEF MemoryAhead, Buying, Selling
    <2>7. LotsBehind'
      <3> SUFFICES ASSUME NEW s \in Tickers
                   PROVE  own'[s] + missed'[s] >= (IF holds[s] THEN 1 ELSE 0)
        BY <2>1 DEF LotsBehind, Buying, Selling
      <3>1. /\ own[s] + missed[s] >= (IF holds[s] /\ ~Buying(s) THEN 1 ELSE 0)
                                         + (IF Selling(s) THEN 1 ELSE 0)
            /\ Buying(s) => holds[s]
            /\ Selling(s) => ~holds[s]
        BY <1>0 DEF LotsBehind, MemoryAhead
      <3>2. own[s] \in Int /\ missed[s] \in Nat /\ own'[s] \in Int /\ missed'[s] \in Nat
        BY <2>3, <1>t
      <3>3. CASE s # order.sym
        BY <3>1, <3>2, <3>3, <2>3 DEF Buying, Selling
      <3>4. CASE s = order.sym /\ order.side = "buy"
        BY <3>1, <3>2, <3>4, <2>3 DEF Buying, Selling
      <3>5. CASE s = order.sym /\ order.side = "sell"
        BY <3>1, <3>2, <3>5, <2>3 DEF Buying, Selling
      <3> QED BY <3>3, <3>4, <3>5, <2>2
    <2> QED BY <2>4, <2>5, <2>6, <2>7 DEF RunnerInv
  <1>9. CASE RouteRaises002
    <2>1. /\ order # NoOrder /\ Gone /\ UNCHANGED <<missed, unsold, sweepVars>>
          /\ own' = own \/ own' = [own EXCEPT ![order.sym] = @ + Lots(order)]
      BY <1>9 DEF RouteRaises002, Traded
    <2>2. order.sym \in Tickers /\ order.side \in {"buy", "sell"}
      BY <2>1, <1>0, OrderShape
    <2>3. Lots(order) = IF order.side = "buy" THEN 1 ELSE -1
      BY DEF Lots
    <2>4. own[order.sym] \in Int /\ Lots(order) \in Int
      BY <2>2, <2>3, <1>t
    <2>5. own' \in [Tickers -> Int]
      BY <2>1, <2>2, <2>4, <1>t
    <2>6. \A s \in Tickers : own'[s] >= own[s] - (IF Selling(s) THEN 1 ELSE 0)
      <3> TAKE s \in Tickers
      <3>1. own[s] \in Int
        BY <1>t
      <3>2. CASE own' = own
        BY <3>1, <3>2
      <3>3. CASE own' = [own EXCEPT ![order.sym] = @ + Lots(order)] /\ s = order.sym
        <4>1. own'[s] = own[s] + Lots(order)
          BY <3>3, <2>2, <1>t
        <4> QED BY <4>1, <3>1, <3>3, <2>2, <2>3 DEF Selling
      <3>4. CASE own' = [own EXCEPT ![order.sym] = @ + Lots(order)] /\ s # order.sym
        <4>1. own'[s] = own[s]
          BY <3>4, <1>t
        <4> QED BY <4>1, <3>1
      <3> QED BY <3>2, <3>3, <3>4, <2>1
    <2> QED BY <2>1, <2>5, <2>6, GoneKeeps
  \* The platform's flatten: what the strategy and its process know of stays.
  <1>10. CASE FlattenReads
    <2>1. toClose' \in [Tickers -> Int] /\ sweeps' \in Nat
      BY <1>0, <1>10 DEF FlattenReads, Account, RunnerTypeOK
    <2>2. RunnerTypeOK'
      BY <2>1, <1>0, <1>10 DEF FlattenReads, runnerState, RunnerTypeOK, memory002
    <2> QED BY <2>2, <1>0, <1>10 DEF FlattenReads, runnerState, memory002, RunnerInv, MemoryAhead,
                                     LotsBehind, Buying, Selling, BarsCounted
  <1>11. ASSUME NEW s \in Tickers, FlattenSends(s) PROVE RunnerInv'
    <2>1. closed[s] \in Int /\ toClose[s] \in Int
      BY <1>0 DEF RunnerTypeOK
    <2>2. toClose' \in [Tickers -> Int] /\ closed' \in [Tickers -> Int]
      BY <2>1, <1>0, <1>11 DEF FlattenSends, NoLots, RunnerTypeOK
    <2>3. RunnerTypeOK'
      BY <2>2, <1>0, <1>11 DEF FlattenSends, runnerState, RunnerTypeOK, memory002
    <2> QED BY <2>3, <1>0, <1>11 DEF FlattenSends, runnerState, memory002, RunnerInv, MemoryAhead,
                                     LotsBehind, Buying, Selling, BarsCounted
  <1>12. CASE UNCHANGED runnerVars
    BY <1>0, <1>12, <1>f DEF runnerVars, RunnerTypeOK, BarsCounted, memory002, history002, sweepVars
  <1> QED BY <1>1, <1>2, <1>3, <1>4, <1>5, <1>6, <1>7, <1>8, <1>9, <1>10, <1>11, <1>12 DEF RunnerNext

LEMMA RunnerInvHolds == RunnerSpec => []RunnerInv
  BY InitRunnerInv, NextRunnerInv, PTL DEF RunnerSpec

-----------------------------------------------------------------------------
\* Every variable has its type.
THEOREM RunnerTypeCorrect == RunnerSpec => []RunnerTypeOK
  <1>1. RunnerInv => RunnerTypeOK
    BY DEF RunnerInv
  <1> QED BY <1>1, RunnerInvHolds, PTL

\* The account is short of a symbol by no more than the purchases that the strategy
\* counts and that were refused or died, and what the platform's flatten sold of it.
THEOREM ShortNeedsMissed == RunnerSpec => []ShortWithinMissed
  <1>1. RunnerInv => ShortWithinMissed
    <2> SUFFICES ASSUME RunnerInv, NEW s \in Tickers PROVE -Account[s] <= missed[s] + closed[s]
      BY DEF ShortWithinMissed
    <2>1. own[s] \in Int /\ missed[s] \in Nat /\ closed[s] \in Int
      BY DEF RunnerInv, RunnerTypeOK
    <2>2. own[s] + missed[s] >= 0
      BY <2>1 DEF RunnerInv, LotsBehind
    <2>3. Account[s] = own[s] - closed[s]
      BY DEF Account
    <2> QED BY <2>1, <2>2, <2>3
  <1> QED BY <1>1, RunnerInvHolds, PTL

\* A smoke run takes no more bars than it was asked for, and handles none twice.
THEOREM SmokeRunsCount == RunnerSpec => []CountsTogether
  <1>1. RunnerInv => CountsTogether
    <2> SUFFICES ASSUME RunnerInv, limit > 0 PROVE counted <= limit /\ handled <= counted
      BY DEF CountsTogether
    <2>1. Len(queue) \in Nat /\ counted \in Nat /\ handled \in Nat
      BY LenProperties DEF RunnerInv, RunnerTypeOK
    <2> QED BY <2>1 DEF RunnerInv, BarsCounted
  <1> QED BY <1>1, RunnerInvHolds, PTL

-----------------------------------------------------------------------------
(* RunnerProcess: how much the account may hold *)

NetLots == [s \in Tickers |-> own[s] - unsold[s]]
TotalLots == SumFunctionOnSet(NetLots, Tickers)

\* The lots the order in hand moves if it is executed, and those left unsold if not.
Effect == IF order = NoOrder THEN 0 ELSE Lots(order)

\* All lives before this one bought no more than their limits; this one, no more than
\* what it holds in its memory, an order on its way already counted there.
LivesInv ==
  /\ ~up => order = NoOrder /\ TotalLots <= MaxHeld * starts
  /\ up => /\ starts >= 1
           /\ Cardinality(Held) <= MaxHeld
           /\ order.side = "sell" => Cardinality(Held) + 1 <= MaxHeld
           /\ TotalLots + Effect <= MaxHeld * (starts - 1) + Cardinality(Held)

\* The numbers of the invariant are integers.
LEMMA LivesNumbers ==
  ASSUME RunnerTypeOK
  PROVE  /\ TotalLots \in Int /\ Effect \in Int
         /\ IsFiniteSet(Held) /\ Cardinality(Held) \in Nat
         /\ starts \in Nat /\ MaxHeld \in Nat
         /\ MaxHeld * starts \in Nat /\ MaxHeld * (starts - 1) \in Int
         /\ MaxHeld * (starts - 1) + MaxHeld = MaxHeld * starts
  <1> USE TickersAssumption, RunnerBoundsAssumption
  <1>1. \A s \in Tickers : NetLots[s] \in Int
    BY DEF NetLots, RunnerTypeOK
  <1>2. TotalLots \in Int
    BY <1>1, SumInt DEF TotalLots
  <1>3. Effect \in Int
    BY DEF Effect, Lots
  <1>4. Held \in SUBSET Tickers
    BY DEF Held
  <1>5. IsFiniteSet(Held) /\ Cardinality(Held) \in Nat
    BY <1>4, FS_Subset, FS_CardinalityType
  <1>6. starts \in Nat /\ MaxHeld \in Nat
    BY DEF RunnerTypeOK
  <1>7. /\ MaxHeld * starts \in Nat /\ MaxHeld * (starts - 1) \in Int
        /\ MaxHeld * (starts - 1) + MaxHeld = MaxHeld * starts
    BY <1>6
  <1> QED BY <1>2, <1>3, <1>5, <1>6, <1>7

\* The sum follows the one symbol whose lots change.
LEMMA LotsChange ==
  ASSUME RunnerTypeOK, RunnerTypeOK', NEW a \in Tickers,
         \A s \in Tickers \ {a} : own'[s] - unsold'[s] = own[s] - unsold[s]
  PROVE  TotalLots' = TotalLots - (own[a] - unsold[a]) + (own'[a] - unsold'[a])
  <1> USE TickersAssumption
  <1>a. \A s \in Tickers : NetLots[s] = own[s] - unsold[s]
    BY DEF NetLots
  <1>b. \A s \in Tickers : NetLots'[s] = own'[s] - unsold'[s]
    BY DEF NetLots
  <1>c. \A s \in Tickers : own[s] \in Int /\ unsold[s] \in Nat /\ own'[s] \in Int /\ unsold'[s] \in Nat
    BY DEF RunnerTypeOK
  <1>1. \A s \in Tickers : NetLots[s] = own[s] - unsold[s] /\ NetLots[s] \in Int
    BY <1>a, <1>c
  <1>2. \A s \in Tickers : NetLots'[s] = own'[s] - unsold'[s] /\ NetLots'[s] \in Int
    BY <1>b, <1>c
  <1>3. NetLots'[a] \in Int /\ \A s \in Tickers \ {a} : NetLots'[s] = NetLots[s]
    BY <1>1, <1>2
  <1>4. SumFunctionOnSet(NetLots', Tickers) = SumFunctionOnSet(NetLots, Tickers) - NetLots[a] + NetLots'[a]
    BY <1>1, <1>3, SumChange
  <1> QED BY <1>1, <1>2, <1>4 DEF TotalLots

\* With the lots and the history unchanged the sum is.
LEMMA LotsSame ==
  ASSUME own' = own, unsold' = unsold
  PROVE  TotalLots' = TotalLots
  BY DEF TotalLots, NetLots

\* A life that is over leaves no more than its limit.
LEMMA LifeOver ==
  ASSUME RunnerInv, RunnerInv', LivesInv, up, Gone,
         TotalLots' <= TotalLots \/ TotalLots' = TotalLots + Effect
  PROVE  LivesInv'
  <1>1. /\ starts' = starts /\ ~up' /\ order' = NoOrder
    BY DEF Gone
  <1>2. RunnerTypeOK /\ RunnerTypeOK'
    BY DEF RunnerInv
  <1> DEFINE T == TotalLots  TP == TotalLots'  E == Effect  H == Cardinality(Held)
             P == MaxHeld * starts  Q == MaxHeld * (starts - 1)
  <1>3. /\ T \in Int /\ E \in Int /\ H \in Nat /\ P \in Nat /\ Q \in Int /\ MaxHeld \in Nat
        /\ Q + MaxHeld = P
    BY <1>2, LivesNumbers
  <1>4. TP \in Int
    <2>1. (RunnerTypeOK => TotalLots \in Int)'
      BY LivesNumbers, PTL
    <2> QED BY <2>1, <1>2
  <1>5. H <= MaxHeld /\ T + E <= Q + H /\ (TP <= T \/ TP = T + E)
    BY DEF LivesInv
  <1>6. E >= 0 \/ (E = -1 /\ H + 1 <= MaxHeld)
    <2>1. order = NoOrder \/ order.side \in {"buy", "sell"}
      BY <1>2, OrderShape
    <2> QED BY <2>1 DEF Effect, Lots, LivesInv
  <1> HIDE DEF T, TP, E, H, P, Q
  <1>7. TP <= P
    BY <1>3, <1>4, <1>5, <1>6
  <1>8. TotalLots' <= MaxHeld * starts
    BY <1>7 DEF TP, P
  <1> QED BY <1>1, <1>8, RunnerBoundsAssumption DEF LivesInv

\* Every step keeps it.
LEMMA NextLivesInv == RunnerInv /\ RunnerInv' /\ LivesInv /\ [RunnerNext]_runnerVars => LivesInv'
  <1> SUFFICES ASSUME RunnerInv, RunnerInv', LivesInv, [RunnerNext]_runnerVars PROVE LivesInv'
    OBVIOUS
  <1>0. RunnerTypeOK /\ RunnerTypeOK'
    BY DEF RunnerInv
  <1>n. /\ TotalLots \in Int /\ Effect \in Int
        /\ IsFiniteSet(Held) /\ Cardinality(Held) \in Nat
        /\ starts \in Nat /\ MaxHeld \in Nat
        /\ MaxHeld * starts \in Nat /\ MaxHeld * (starts - 1) \in Int
        /\ MaxHeld * (starts - 1) + MaxHeld = MaxHeld * starts
    BY <1>0, LivesNumbers
  \* Steps that leave the order, the memory and the strategy's lots alone.
  <1>f. ASSUME UNCHANGED <<up, starts, order, holds, own, unsold>> PROVE LivesInv'
    <2>1. TotalLots' = TotalLots /\ Held' = Held /\ Effect' = Effect
      BY <1>f, LotsSame DEF Held, Effect, Lots
    <2> QED BY <1>f, <2>1 DEF LivesInv
  <1>1. CASE StartRunner
    <2>1. /\ ~up /\ up' /\ starts' = starts + 1 /\ order' = NoOrder /\ order'.side = "none"
          /\ own' = own /\ unsold' = unsold /\ \A s \in Tickers : holds'[s] = FALSE
      BY <1>1 DEF StartRunner, NoOrder, history002
    <2>2. TotalLots' = TotalLots /\ Effect' = 0 /\ Held' = {}
      BY <2>1, LotsSame DEF Effect, Held
    <2>3. Cardinality(Held') = 0 /\ Cardinality(Held') <= MaxHeld
      BY <2>2, <1>n, FS_EmptySet
    <2>4. MaxHeld * (starts' - 1) = MaxHeld * starts
      BY <2>1, <1>n
    <2>5. TotalLots <= MaxHeld * starts
      BY <2>1 DEF LivesInv
    <2>6. TotalLots' + Effect' <= MaxHeld * (starts' - 1) + Cardinality(Held')
      BY <2>2, <2>3, <2>4, <2>5, <1>n
    <2>7. starts' >= 1
      BY <2>1, <1>n
    <2> QED BY <2>1, <2>3, <2>6, <2>7 DEF LivesInv
  <1>2. CASE Finish \/ Fails
    <2>1. up /\ Gone /\ own' = own /\ unsold' = unsold
      BY <1>2 DEF Finish, Fails, history002
    <2>2. TotalLots' <= TotalLots
      BY <2>1, <1>n, LotsSame
    <2> QED BY <2>1, <2>2, LifeOver
  <1>3. ASSUME NEW s \in Tickers, Leaves(s) PROVE LivesInv'
    BY <1>3, <1>f DEF Leaves, memory002, history002
  <1>4. ASSUME NEW s \in Tickers, NEW time \in Times, Arrives(s, time) PROVE LivesInv'
    BY <1>4, <1>f DEF Arrives, memory002, history002
  <1>5. CASE Quiet
    BY <1>5, <1>f DEF Quiet, Takes, memory002, history002
  <1>6. CASE Buys
    <2> PICK b \in Bars : /\ Takes(b) /\ ~holds[b.sym] /\ Cardinality(Held) < MaxHeld
                          /\ holds' = [holds EXCEPT ![b.sym] = TRUE]
                          /\ order' = [side |-> "buy", sym |-> b.sym]
                          /\ UNCHANGED <<limit, up, stream, counted, handled, history002, given, starts>>
      BY <1>6 DEF Buys
    <2>1. /\ up /\ up' /\ b.sym \in Tickers /\ order = NoOrder /\ starts' = starts
          /\ own' = own /\ unsold' = unsold /\ order'.side = "buy"
      BY DEF Takes, Bars, history002
    <2>2. order' # NoOrder
      BY <2>1 DEF NoOrder
    <2>3. TotalLots' = TotalLots /\ Effect = 0 /\ Effect' = 1
      BY <2>1, <2>2, LotsSame DEF Effect, Lots
    <2>4. b.sym \notin Held /\ Held' = Held \cup {b.sym}
      BY <2>1, <1>0 DEF Held, RunnerTypeOK
    <2>5. Cardinality(Held') = Cardinality(Held) + 1
      BY <2>4, <1>n, FS_AddElement
    <2>6. starts >= 1 /\ TotalLots + Effect <= MaxHeld * (starts - 1) + Cardinality(Held)
      BY <2>1 DEF LivesInv
    <2>7. Cardinality(Held') <= MaxHeld
      BY <2>5, <1>n
    <2>8. TotalLots' + Effect' <= MaxHeld * (starts' - 1) + Cardinality(Held')
      BY <2>1, <2>3, <2>5, <2>6, <1>n
    <2> QED BY <2>1, <2>6, <2>7, <2>8 DEF LivesInv
  <1>7. CASE Sells
    <2> PICK b \in Bars : /\ Takes(b) /\ holds[b.sym]
                          /\ holds' = [holds EXCEPT ![b.sym] = FALSE]
                          /\ order' = [side |-> "sell", sym |-> b.sym]
                          /\ UNCHANGED <<limit, up, stream, counted, handled, history002, given, starts>>
      BY <1>7 DEF Sells
    <2>1. /\ up /\ up' /\ b.sym \in Tickers /\ order = NoOrder /\ starts' = starts
          /\ own' = own /\ unsold' = unsold /\ order'.side = "sell"
      BY DEF Takes, Bars, history002
    <2>2. order' # NoOrder
      BY <2>1 DEF NoOrder
    <2>3. TotalLots' = TotalLots /\ Effect = 0 /\ Effect' = -1
      BY <2>1, <2>2, LotsSame DEF Effect, Lots
    <2>4. b.sym \in Held /\ Held' = Held \ {b.sym}
      BY <2>1, <1>0 DEF Held, RunnerTypeOK
    <2>5. Cardinality(Held') = Cardinality(Held) - 1
      BY <2>4, <1>n, FS_RemoveElement
    <2>6. /\ starts >= 1 /\ Cardinality(Held) <= MaxHeld
          /\ TotalLots + Effect <= MaxHeld * (starts - 1) + Cardinality(Held)
      BY <2>1 DEF LivesInv
    <2>7. Cardinality(Held') <= MaxHeld /\ Cardinality(Held') + 1 <= MaxHeld
      BY <2>5, <2>6, <1>n
    <2>8. TotalLots' + Effect' <= MaxHeld * (starts' - 1) + Cardinality(Held')
      BY <2>1, <2>3, <2>5, <2>6, <1>n
    <2> QED BY <2>1, <2>6, <2>7, <2>8 DEF LivesInv
  <1>8. CASE Executes \/ NotExecuted
    <2>1. /\ order # NoOrder /\ order' = NoOrder /\ order'.side = "none"
          /\ UNCHANGED <<up, holds, starts>>
      BY <1>8 DEF Executes, NotExecuted, Routed, NoOrder, memory002
    <2> DEFINE a == order.sym
    <2>2. a \in Tickers /\ order.side \in {"buy", "sell"}
      BY <2>1, <1>0, OrderShape
    <2>3. Effect = Lots(order) /\ Effect' = 0 /\ Held' = Held
      BY <2>1 DEF Effect, Held
    <2>4. own[a] \in Int /\ unsold[a] \in Nat
      BY <2>2, <1>0 DEF RunnerTypeOK
    <2>5. /\ \A s \in Tickers \ {a} : own'[s] - unsold'[s] = own[s] - unsold[s]
          /\ own'[a] - unsold'[a] = own[a] - unsold[a]
             \/ own'[a] - unsold'[a] = own[a] - unsold[a] + Effect
          /\ order.side = "sell" => own'[a] - unsold'[a] = own[a] - unsold[a] + Effect
      <3>1. CASE Executes
        <4>1. own' = [own EXCEPT ![a] = @ + Effect] /\ unsold' = unsold
          BY <3>1, <2>3 DEF Executes, Traded
        <4>2. own'[a] = own[a] + Effect /\ \A s \in Tickers \ {a} : own'[s] = own[s]
          BY <4>1, <2>2, <1>0 DEF RunnerTypeOK
        <4> HIDE DEF a
        <4>3. own'[a] - unsold'[a] = own[a] - unsold[a] + Effect
          BY <4>1, <4>2, <2>4, <1>n
        <4> QED BY <4>1, <4>2, <4>3
      <3>2. CASE NotExecuted /\ order.side = "buy"
        BY <3>2 DEF NotExecuted
      <3>3. CASE NotExecuted /\ order.side = "sell"
        <4>1. own' = own /\ unsold' = [unsold EXCEPT ![a] = @ + 1]
          BY <3>3 DEF NotExecuted
        <4>2. unsold'[a] = unsold[a] + 1 /\ \A s \in Tickers \ {a} : unsold'[s] = unsold[s]
          BY <4>1, <2>2, <1>0 DEF RunnerTypeOK
        <4>3. Effect = -1
          BY <3>3, <2>3 DEF Lots
        <4> HIDE DEF a
        <4>4. own'[a] - unsold'[a] = own[a] - unsold[a] + Effect
          BY <4>1, <4>2, <4>3, <2>4
        <4> QED BY <4>1, <4>2, <4>4
      <3> QED BY <1>8, <2>2, <3>1, <3>2, <3>3
    <2> HIDE DEF a
    <2>6. TotalLots' = TotalLots - (own[a] - unsold[a]) + (own'[a] - unsold'[a])
      BY <2>2, <2>5, <1>0, LotsChange
    <2>7. own'[a] \in Int /\ unsold'[a] \in Nat
      BY <2>2, <1>0 DEF RunnerTypeOK
    <2>8. /\ TotalLots' = TotalLots \/ TotalLots' = TotalLots + Effect
          /\ order.side = "sell" => TotalLots' = TotalLots + Effect
      BY <2>4, <2>5, <2>6, <2>7, <1>n
    <2>9. /\ order.side = "buy" => Effect = 1
          /\ order.side = "sell" => Effect = -1
      BY <2>3 DEF Lots
    <2>10. TotalLots' \in Int /\ TotalLots' <= TotalLots + Effect
      BY <2>2, <2>8, <2>9, <1>n
    <2>11. CASE up
      <3>1. /\ starts >= 1 /\ Cardinality(Held) <= MaxHeld
            /\ TotalLots + Effect <= MaxHeld * (starts - 1) + Cardinality(Held)
        BY <2>11 DEF LivesInv
      <3>2. TotalLots' + Effect' <= MaxHeld * (starts - 1) + Cardinality(Held)
        BY <3>1, <2>3, <2>10, <1>n
      <3> QED BY <2>1, <2>3, <2>11, <3>1, <3>2 DEF LivesInv
    <2>12. CASE ~up
      BY <2>1, <2>12 DEF LivesInv
    <2> QED BY <2>11, <2>12
  <1>9. CASE RouteRaises002
    <2> DEFINE a == order.sym
    <2>1. /\ order # NoOrder /\ Gone /\ unsold' = unsold
          /\ own' = own \/ own' = [own EXCEPT ![a] = @ + Lots(order)]
      BY <1>9 DEF RouteRaises002, Traded
    <2>2. up
      BY <2>1 DEF LivesInv
    <2>3. a \in Tickers /\ Effect = Lots(order)
      BY <2>1, <1>0, OrderShape DEF Effect
    <2>4. CASE own' = own
      <3>1. TotalLots' <= TotalLots
        BY <2>1, <2>4, <1>n, LotsSame
      <3> QED BY <2>1, <2>2, <3>1, LifeOver
    <2>5. CASE own' = [own EXCEPT ![a] = @ + Effect]
      <3>1. own[a] \in Int /\ unsold[a] \in Nat
        BY <2>3, <1>0 DEF RunnerTypeOK
      <3>2. own'[a] = own[a] + Effect /\ \A s \in Tickers \ {a} : own'[s] = own[s]
        BY <2>3, <2>5, <1>0 DEF RunnerTypeOK
      <3> HIDE DEF a
      <3>3. \A s \in Tickers \ {a} : own'[s] - unsold'[s] = own[s] - unsold[s]
        BY <2>1, <3>2
      <3>4. TotalLots' = TotalLots - (own[a] - unsold[a]) + (own'[a] - unsold'[a])
        BY <2>3, <3>3, <1>0, LotsChange
      <3>5. TotalLots' = TotalLots + Effect
        BY <3>1, <3>2, <3>4, <2>1, <1>n
      <3> QED BY <2>1, <2>2, <3>5, LifeOver
    <2> QED BY <2>1, <2>3, <2>4, <2>5
  <1>10. CASE FlattenReads
    BY <1>10, <1>f DEF FlattenReads, runnerState, memory002
  <1>11. ASSUME NEW s \in Tickers, FlattenSends(s) PROVE LivesInv'
    BY <1>11, <1>f DEF FlattenSends, runnerState, memory002
  <1>12. CASE UNCHANGED runnerVars
    BY <1>12, <1>f DEF runnerVars, memory002, history002
  <1> QED BY <1>1, <1>2, <1>3, <1>4, <1>5, <1>6, <1>7, <1>8, <1>9, <1>10, <1>11, <1>12 DEF RunnerNext

\* The initial states satisfy it.
LEMMA InitLivesInv == RunnerInit => LivesInv
  <1> SUFFICES ASSUME RunnerInit PROVE LivesInv
    OBVIOUS
  <1> USE TickersAssumption, RunnerBoundsAssumption
  <1>1. ~up /\ order = NoOrder /\ starts = 0
    BY DEF RunnerInit
  <1>2. \A s \in Tickers : NetLots[s] = 0
    BY DEF RunnerInit, NetLots, NoLots
  <1>3. \A s \in Tickers : NetLots[s] = IF s \in {} THEN 1 ELSE 0
    BY <1>2
  <1>4. TotalLots = Cardinality({})
    BY <1>3, CountIsSum DEF TotalLots
  <1>5. TotalLots = 0
    BY <1>4, FS_EmptySet
  <1>6. MaxHeld * starts = 0
    BY <1>1
  <1> QED BY <1>1, <1>5, <1>6 DEF LivesInv

\* What the strategy's orders left in the account beyond its failed sales is within the
\* limit of positions once for every life of the process, however each of them ended.
THEOREM HeldOncePerLife == RunnerSpec => []HeldWithinLives
  <1>1. RunnerInv /\ LivesInv => HeldWithinLives
    <2> SUFFICES ASSUME RunnerInv, LivesInv PROVE TotalLots <= MaxHeld * starts
      BY DEF HeldWithinLives, TotalLots, NetLots
    <2>1. RunnerTypeOK
      BY DEF RunnerInv
    <2> DEFINE H == Cardinality(Held)  P == MaxHeld * starts  Q == MaxHeld * (starts - 1)
    <2>2. /\ TotalLots \in Int /\ Effect \in Int /\ H \in Nat /\ P \in Nat /\ Q \in Int
          /\ MaxHeld \in Nat /\ Q + MaxHeld = P
      BY <2>1, LivesNumbers
    <2>3. Effect >= 0 \/ (Effect = -1 /\ order.side = "sell")
      <3>1. order = NoOrder \/ order.side \in {"buy", "sell"}
        BY <2>1, OrderShape
      <3> QED BY <3>1 DEF Effect, Lots
    <2>4. CASE up
      <3>1. H <= MaxHeld /\ (order.side = "sell" => H + 1 <= MaxHeld) /\ TotalLots + Effect <= Q + H
        BY <2>4 DEF LivesInv
      <3> HIDE DEF H, P, Q
      <3>2. TotalLots <= P
        BY <3>1, <2>2, <2>3
      <3> QED BY <3>2 DEF P
    <2> QED BY <2>4 DEF LivesInv
  <1>2. RunnerSpec => [](RunnerInv /\ LivesInv)
    <2>1. RunnerSpec => []RunnerInv
      BY RunnerInvHolds
    <2> QED BY <2>1, InitLivesInv, NextLivesInv, PTL DEF RunnerSpec
  <1> QED BY <1>1, <1>2, PTL

-----------------------------------------------------------------------------
(* The rate limiter: RateWindow *)

\* Requests of a name from the i-th on, and steps of the clock since.
Stretch(n, i) == Len(passed[n]) - i + 1
StepsSince(n, i) == steps - passed[n][i].steps
Age(n, i) == tick - passed[n][i].at

\* From a request whose time is less than a window ago as many as the limit have passed
\* for every step of the clock, and those counted in the tenant's window; the limit
\* once more only if that window is no older than the request, and then it cannot
\* expire before the request's time is a window ago.
WithinWindow(n, i) ==
  \/ Stretch(n, i) < Limit * StepsSince(n, i) + buckets[n].count
  \/ /\ clock_s - buckets[n].start <= Age(n, i)
     /\ Stretch(n, i) < Limit * (StepsSince(n, i) + 1) + buckets[n].count

NameInv(n) ==
  /\ passed[n] # <<>> => Seen(n)
  /\ Seen(n) => buckets[n].count \in 1..Limit
  /\ \A i \in DOMAIN passed[n] :
       /\ passed[n][i].at <= tick /\ passed[n][i].steps <= steps
       /\ Age(n, i) < Window => WithinWindow(n, i)

\* The inductive invariant.
RateInv == RateTypeOK /\ (\A n \in Names : NameInv(n)) /\ UnderTwiceTheLimit

\* What is known of a request of the past.
LEMMA PassedRequest ==
  ASSUME RateTypeOK, NEW n \in Names, NEW i \in DOMAIN passed[n]
  PROVE  /\ i \in Nat /\ i >= 1 /\ i <= Len(passed[n]) /\ Len(passed[n]) \in Nat
         /\ passed[n][i].at \in Nat /\ passed[n][i].steps \in Nat
<1>1. passed[n] \in Seq(Passed)
  BY DEF RateTypeOK
<1>2. DOMAIN passed[n] = 1..Len(passed[n]) /\ Len(passed[n]) \in Nat
  BY <1>1, LenProperties
<1>3. passed[n][i] \in Passed
  BY <1>1, <1>2, ElementOfSeq
<1> QED BY <1>2, <1>3 DEF Passed

\* Time and the clock's steps leave what has passed.
LEMMA TimeKeeps ==
  ASSUME RateInv, RateTypeOK', NEW n \in Names,
         UNCHANGED <<buckets, passed>>,
         \/ tick' = tick + 1 /\ clock_s' = clock_s + 1 /\ steps' = steps
         \/ tick' = tick /\ steps' = steps + 1
  PROVE  NameInv(n)'
<1>1. RateTypeOK /\ NameInv(n)
  BY DEF RateInv
<1>2. Limit \in Nat \ {0} /\ Window \in Nat /\ tick \in Nat /\ steps \in Nat /\ clock_s \in Nat /\ clock_s' \in Nat
  BY <1>1, WindowAssumption DEF RateTypeOK
<1>3. ASSUME NEW i \in DOMAIN passed[n]
      PROVE  /\ passed[n][i].at <= tick' /\ passed[n][i].steps <= steps'
             /\ Age(n, i)' < Window => WithinWindow(n, i)'
  <2> DEFINE N == Stretch(n, i)  d == StepsSince(n, i)  a == Age(n, i)
             c == buckets[n].count  s == buckets[n].start
             dp == StepsSince(n, i)'  ap == Age(n, i)'
  <2>1. /\ i \in Nat /\ i <= Len(passed[n]) /\ Len(passed[n]) \in Nat
        /\ passed[n][i].at \in Nat /\ passed[n][i].steps \in Nat
        /\ passed[n][i].at <= tick /\ passed[n][i].steps <= steps
    BY <1>1, PassedRequest DEF NameInv
  <2>2. passed[n] # <<>>
    BY <2>1, EmptySeq
  <2>3. n \in DOMAIN buckets
    BY <2>2, <1>1 DEF NameInv, Seen
  <2>4. c \in Nat /\ s \in Nat /\ c >= 1
    <3>1. buckets[n] \in Bucket
      BY <2>3, <1>1 DEF RateTypeOK
    <3>2. c \in 1..Limit
      BY <2>3, <1>1 DEF NameInv, Seen
    <3> QED BY <3>1, <3>2, <1>2 DEF Bucket
  <2>5. /\ N \in Nat /\ d \in Nat /\ a \in Nat
        /\ Stretch(n, i)' = N
        /\ \/ ap = a + 1 /\ dp = d
           \/ ap = a /\ dp = d + 1
    <3> DEFINE x == passed[n][i].at  y == passed[n][i].steps  m == Len(passed[n])
    <3>e. /\ N = m - i + 1 /\ d = steps - y /\ a = tick - x
          /\ dp = steps' - y /\ ap = tick' - x
      BY DEF Stretch, StepsSince, Age
    <3>2. Stretch(n, i)' = N
      BY DEF Stretch
    <3>q. x \in Nat /\ y \in Nat /\ x <= tick /\ y <= steps /\ i \in Nat /\ m \in Nat /\ i <= m
      BY <2>1
    <3> HIDE DEF N, d, a, dp, ap, x, y, m
    <3>1. N \in Nat /\ d \in Nat /\ a \in Nat
      BY <3>e, <3>q, <1>2
    <3>4. \/ ap = a + 1 /\ dp = d
          \/ ap = a /\ dp = d + 1
      BY <3>e, <3>q, <1>2
    <3> QED BY <3>1, <3>2, <3>4
  <2>6. a < Window => \/ N < Limit * d + c
                      \/ clock_s - s <= a /\ N < Limit * (d + 1) + c
    BY <1>1 DEF NameInv, WithinWindow
  <2>7. WithinWindow(n, i)' <=> \/ N < Limit * dp + c
                                \/ clock_s' - s <= ap /\ N < Limit * (dp + 1) + c
    BY <2>5 DEF WithinWindow
  <2>8. Limit * d \in Nat /\ Limit * (d + 1) = Limit * d + Limit
    BY <1>2, <2>5
  <2> HIDE DEF N, d, a, c, s, dp, ap
  <2>9. ap < Window => \/ N < Limit * dp + c
                       \/ clock_s' - s <= ap /\ N < Limit * (dp + 1) + c
    <3> SUFFICES ASSUME ap < Window PROVE \/ N < Limit * dp + c
                                          \/ clock_s' - s <= ap /\ N < Limit * (dp + 1) + c
      OBVIOUS
    <3>1. a < Window
      BY <2>5, <1>2
    <3>2. CASE dp = d /\ ap = a + 1 /\ clock_s' = clock_s + 1
      BY <3>1, <3>2, <2>4, <2>5, <2>6, <1>2
    <3>3. CASE dp = d + 1
      BY <3>1, <3>3, <2>4, <2>5, <2>6, <2>8, <1>2
    <3>4. (dp = d /\ ap = a + 1 /\ clock_s' = clock_s + 1) \/ dp = d + 1
      <4>1. dp = steps' - passed[n][i].steps /\ d = steps - passed[n][i].steps
        BY DEF dp, d, StepsSince
      <4>2. ap = tick' - passed[n][i].at /\ a = tick - passed[n][i].at
        BY DEF ap, a, Age
      <4> DEFINE x == passed[n][i].at  y == passed[n][i].steps
      <4>3. x \in Nat /\ y \in Nat /\ dp = steps' - y /\ d = steps - y /\ ap = tick' - x /\ a = tick - x
        BY <4>1, <4>2, <2>1
      <4> HIDE DEF x, y
      <4> QED BY <4>3, <1>2
    <3> QED BY <3>2, <3>3, <3>4
  <2>10. passed[n][i].at <= tick' /\ passed[n][i].steps <= steps'
    BY <2>1, <1>2
  <2> QED BY <2>7, <2>9, <2>10 DEF ap
<1>4. (passed[n] # <<>> => Seen(n))' /\ (Seen(n) => buckets[n].count \in 1..Limit)'
  BY <1>1 DEF NameInv, Seen
<1> QED BY <1>3, <1>4 DEF NameInv

\* The steps of another tenant leave a name's window and requests alone.
LEMMA OthersKeep ==
  ASSUME RateInv, NEW n \in Names, UNCHANGED <<tick, clock_s, steps>>,
         passed'[n] = passed[n], Seen(n)' = Seen(n), buckets'[n] = buckets[n]
  PROVE  NameInv(n)'
<1>1. NameInv(n)
  BY DEF RateInv
<1>2. \A i : (WithinWindow(n, i)' <=> WithinWindow(n, i)) /\ Age(n, i)' = Age(n, i)
  BY DEF WithinWindow, Age, Stretch, StepsSince
<1> QED BY <1>1, <1>2 DEF NameInv


\* A request let through: its window counts it.
LEMMA AllowedKeeps ==
  ASSUME RateInv, RateTypeOK', NEW n \in Names, Allowed(n)
  PROVE  NameInv(n)'
<1>1. RateTypeOK /\ NameInv(n)
  BY DEF RateInv
<1>2. Limit \in Nat \ {0} /\ Window \in Nat \ {0} /\ tick \in Nat /\ steps \in Nat /\ clock_s \in Nat
  BY <1>1, WindowAssumption DEF RateTypeOK
<1>m. PICK m : m = Len(passed[n])
  OBVIOUS
<1> DEFINE new == [at |-> tick, steps |-> steps]  cur == Current(n)
           c == buckets[n].count  s == buckets[n].start
<1>3. UNCHANGED <<tick, clock_s, steps>>
  BY DEF Allowed
<1>4. passed[n] \in Seq(Passed) /\ new \in Passed
  BY <1>1, <1>2 DEF RateTypeOK, Passed
<1>5. passed'[n] = Append(passed[n], new)
  BY <1>1 DEF Allowed, RateTypeOK
<1>6. /\ m \in Nat /\ Len(passed'[n]) = m + 1 /\ DOMAIN passed'[n] = 1..(m + 1) /\ DOMAIN passed[n] = 1..m
      /\ passed'[n][m + 1] = new /\ \A i \in 1..m : passed'[n][i] = passed[n][i]
  BY <1>m, <1>4, <1>5, AppendProperties, LenProperties
<1>7. Seen(n)' /\ buckets'[n] = [cur EXCEPT !.count = @ + 1]
  BY DEF Allowed, Stored, Seen
<1>8. Seen(n) => c \in Nat /\ c >= 1 /\ c <= Limit /\ s \in Nat /\ buckets[n] \in Bucket
  <2>1. Seen(n) => buckets[n] \in Bucket /\ c \in 1..Limit
    BY <1>1 DEF RateTypeOK, NameInv, Seen
  <2> QED BY <2>1, <1>2 DEF Bucket
\* The window goes on, or a new one begins.
<1>9. \/ Seen(n) /\ ~Expired(n) /\ buckets'[n].count = c + 1 /\ buckets'[n].start = s
      \/ (Seen(n) => Expired(n)) /\ buckets'[n].count = 1 /\ buckets'[n].start = clock_s
  <2>1. CASE Seen(n) /\ ~Expired(n)
    <3>1. cur = buckets[n]
      BY <2>1 DEF Current
    <3> QED BY <2>1, <3>1, <1>7, <1>8 DEF Bucket
  <2>2. CASE ~(Seen(n) /\ ~Expired(n))
    <3>1. cur = [count |-> 0, start |-> clock_s]
      BY <2>2 DEF Current
    <3> QED BY <2>2, <3>1, <1>7
  <2> QED BY <2>1, <2>2
<1>10. buckets'[n].count \in Nat /\ buckets'[n].count >= 1 /\ buckets'[n].count <= Limit
  <2>1. cur.count + 1 <= Limit
    BY DEF Allowed
  <2>2. cur.count \in Nat /\ buckets'[n].count = cur.count + 1
    <3>1. CASE Seen(n) /\ ~Expired(n)
      <4>1. cur = buckets[n]
        BY <3>1 DEF Current
      <4> QED BY <3>1, <4>1, <1>7, <1>8 DEF Bucket
    <3>2. CASE ~(Seen(n) /\ ~Expired(n))
      <4>1. cur = [count |-> 0, start |-> clock_s]
        BY <3>2 DEF Current
      <4> QED BY <4>1, <1>7
    <3> QED BY <3>1, <3>2
  <2> HIDE DEF cur
  <2> QED BY <2>1, <2>2, <1>2
<1> HIDE DEF cur
<1> DEFINE cp == buckets'[n].count  sp == buckets'[n].start
\* The new request itself.
<1>11. /\ passed'[n][m + 1].at <= tick' /\ passed'[n][m + 1].steps <= steps'
       /\ WithinWindow(n, m + 1)'
  <2>1. passed'[n][m + 1].at = tick /\ passed'[n][m + 1].steps = steps
    BY <1>6
  <2>2. Stretch(n, m + 1)' = 1 /\ StepsSince(n, m + 1)' = 0 /\ Age(n, m + 1)' = 0
    <3>1. /\ Stretch(n, m + 1)' = Len(passed'[n]) - (m + 1) + 1
          /\ StepsSince(n, m + 1)' = steps' - passed'[n][m + 1].steps
          /\ Age(n, m + 1)' = tick' - passed'[n][m + 1].at
      BY DEF Stretch, StepsSince, Age
    <3>2. /\ Stretch(n, m + 1)' = (m + 1) - (m + 1) + 1
          /\ StepsSince(n, m + 1)' = steps - steps
          /\ Age(n, m + 1)' = tick - tick
      BY <3>1, <2>1, <1>3, <1>6
    <3> QED BY <3>2, <1>2, <1>6
  <2>3. WithinWindow(n, m + 1)' <=> \/ 1 < Limit * 0 + cp
                                    \/ clock_s' - sp <= 0 /\ 1 < Limit * (0 + 1) + cp
    BY <2>2 DEF WithinWindow
  <2>4. Limit * 0 = 0 /\ Limit * (0 + 1) = Limit
    BY <1>2
  <2>5. 1 < Limit * 0 + cp \/ (clock_s' - sp <= 0 /\ 1 < Limit * (0 + 1) + cp)
    BY <2>4, <1>2, <1>3, <1>8, <1>9
  <2> QED BY <2>1, <2>3, <2>5, <1>2, <1>3
\* An earlier one.
<1>12. ASSUME NEW i \in 1..m
       PROVE  /\ passed'[n][i].at <= tick' /\ passed'[n][i].steps <= steps'
              /\ Age(n, i)' < Window => WithinWindow(n, i)'
  <2> DEFINE N == Stretch(n, i)  d == StepsSince(n, i)  a == Age(n, i)
  <2>1. /\ i \in Nat /\ i <= m /\ passed[n][i].at \in Nat /\ passed[n][i].steps \in Nat
        /\ passed[n][i].at <= tick /\ passed[n][i].steps <= steps
    <3>1. i \in DOMAIN passed[n]
      BY <1>6
    <3> QED BY <3>1, <1>1, PassedRequest DEF NameInv
  <2>2. Seen(n)
    <3>1. passed[n] # <<>>
      BY <2>1, <1>6, EmptySeq
    <3> QED BY <3>1, <1>1 DEF NameInv
  <2>3. N \in Nat /\ d \in Nat /\ a \in Nat
    <3> DEFINE x == passed[n][i].at  y == passed[n][i].steps
    <3>1. N = m - i + 1 /\ d = steps - y /\ a = tick - x
      BY <1>m DEF Stretch, StepsSince, Age
    <3>2. x \in Nat /\ y \in Nat /\ x <= tick /\ y <= steps
      BY <2>1
    <3> HIDE DEF N, d, a, x, y
    <3> QED BY <3>1, <3>2, <2>1, <1>2, <1>6
  <2>4. passed'[n][i] = passed[n][i]
    BY <1>6
  <2>5. Stretch(n, i)' = N + 1
    BY <2>1, <1>m, <1>6 DEF Stretch
  <2>6. StepsSince(n, i)' = d /\ Age(n, i)' = a
    BY <2>4, <1>3 DEF StepsSince, Age
  <2>7. a < Window => \/ N < Limit * d + c
                      \/ clock_s - s <= a /\ N < Limit * (d + 1) + c
    BY <1>1, <1>6 DEF NameInv, WithinWindow
  <2>8. WithinWindow(n, i)' <=> \/ N + 1 < Limit * d + cp
                                \/ clock_s' - sp <= a /\ N + 1 < Limit * (d + 1) + cp
    BY <2>5, <2>6 DEF WithinWindow
  <2>9. Limit * d \in Nat /\ Limit * (d + 1) = Limit * d + Limit
    BY <2>3, <1>2
  <2>10. Expired(n) <=> clock_s - s >= Window
    BY <2>2 DEF Expired
  <2> HIDE DEF N, d, a, c, s, cp, sp
  <2>11. ASSUME a < Window
         PROVE  \/ N + 1 < Limit * d + cp
                \/ clock_s' - sp <= a /\ N + 1 < Limit * (d + 1) + cp
    <3>1. c \in Nat /\ c >= 1 /\ c <= Limit /\ s \in Nat
      BY <2>2, <1>8
    <3>2. CASE ~Expired(n) /\ cp = c + 1 /\ sp = s
      BY <3>1, <3>2, <2>3, <2>7, <2>9, <2>11, <1>2, <1>3
    <3>3. CASE Expired(n) /\ cp = 1 /\ sp = clock_s
      <4>1. N < Limit * d + c
        BY <3>1, <3>3, <2>3, <2>7, <2>10, <2>11, <1>2
      <4>2. clock_s' - sp = 0
        BY <3>3, <1>2, <1>3
      <4>3. N + 1 < Limit * (d + 1) + cp
        BY <3>1, <3>3, <4>1, <2>3, <2>9, <1>2
      <4> QED BY <4>2, <4>3, <2>3
    <3> QED BY <3>2, <3>3, <2>2, <1>9 DEF c, s, cp, sp
  <2> QED BY <2>1, <2>4, <2>6, <2>8, <2>11, <1>2, <1>3
<1>13. \A i \in DOMAIN passed'[n] :
         /\ passed'[n][i].at <= tick' /\ passed'[n][i].steps <= steps'
         /\ Age(n, i)' < Window => WithinWindow(n, i)'
  <2> SUFFICES ASSUME NEW i \in 1..(m + 1)
               PROVE  /\ passed'[n][i].at <= tick' /\ passed'[n][i].steps <= steps'
                      /\ Age(n, i)' < Window => WithinWindow(n, i)'
    BY <1>6
  <2>1. i \in 1..m \/ i = m + 1
    BY <1>6
  <2>2. CASE i \in 1..m
    BY <2>2, <1>12
  <2>3. CASE i = m + 1
    BY <2>3, <1>11
  <2> QED BY <2>1, <2>2, <2>3
<1>14. buckets'[n].count \in 1..Limit
  BY <1>2, <1>10
<1> QED BY <1>7, <1>13, <1>14 DEF NameInv

\* A request refused changes nothing: a new window has room for it.
LEMMA RefusedNothing ==
  ASSUME RateTypeOK, NEW n \in Names, TooMany(n)
  PROVE  UNCHANGED rateVars
<1>1. Limit \in Nat \ {0}
  BY WindowAssumption
<1>2. CASE ~(Seen(n) /\ ~Expired(n))
  <2>1. Current(n).count = 0 /\ Current(n).count + 1 > Limit
    BY <1>2 DEF Current, TooMany
  <2> QED BY <2>1, <1>1
<1>3. CASE Seen(n) /\ ~Expired(n)
  <2>1. Current(n) = buckets[n] /\ DOMAIN buckets \cup {n} = DOMAIN buckets
    BY <1>3 DEF Current, Seen
  <2>2. buckets' = [k \in DOMAIN buckets |-> buckets[k]]
    BY <2>1 DEF TooMany, Stored
  <2>3. buckets' = buckets
    BY <2>2 DEF RateTypeOK
  <2> QED BY <2>3 DEF TooMany, rateVars
<1> QED BY <1>2, <1>3

\* The types after a request that passes.
LEMMA AllowedTypes ==
  ASSUME RateTypeOK, NEW n \in Names, Allowed(n)
  PROVE  RateTypeOK'
<1>1. tick \in Nat /\ steps \in Nat /\ clock_s \in Nat /\ UNCHANGED <<tick, clock_s, steps>>
  BY DEF RateTypeOK, Allowed
<1>2. Current(n) \in Bucket
  <2>1. Seen(n) => buckets[n] \in Bucket
    BY DEF RateTypeOK, Seen
  <2>2. [count |-> 0, start |-> clock_s] \in Bucket
    BY <1>1 DEF Bucket
  <2> QED BY <2>1, <2>2 DEF Current
<1> DEFINE b == [Current(n) EXCEPT !.count = @ + 1]
<1>3. b \in Bucket
  BY <1>2 DEF Bucket
<1>4. buckets' = [k \in DOMAIN buckets \cup {n} |-> IF k = n THEN b ELSE buckets[k]]
  BY DEF Allowed, Stored
<1> HIDE DEF b
<1>5. DOMAIN buckets' \subseteq Names /\ buckets' \in [DOMAIN buckets' -> Bucket]
  <2>1. DOMAIN buckets' = DOMAIN buckets \cup {n} /\ DOMAIN buckets \subseteq Names
    BY <1>4 DEF RateTypeOK
  <2>2. \A k \in DOMAIN buckets \cup {n} : (IF k = n THEN b ELSE buckets[k]) \in Bucket
    BY <1>3 DEF RateTypeOK
  <2>3. buckets' \in [DOMAIN buckets \cup {n} -> Bucket]
    BY <1>4, <2>2
  <2> QED BY <2>1, <2>3
<1>6. passed' \in [Names -> Seq(Passed)]
  <2>1. passed \in [Names -> Seq(Passed)] /\ passed[n] \in Seq(Passed)
    BY DEF RateTypeOK
  <2>2. [at |-> tick, steps |-> steps] \in Passed
    BY <1>1 DEF Passed
  <2>3. Append(passed[n], [at |-> tick, steps |-> steps]) \in Seq(Passed)
    BY <2>1, <2>2, AppendProperties
  <2> QED BY <2>1, <2>3 DEF Allowed
<1> QED BY <1>1, <1>5, <1>6 DEF RateTypeOK

\* The bound for the stretches that end with the new request.
LEMMA AllowedBounded ==
  ASSUME RateInv, RateTypeOK', NEW n \in Names, Allowed(n), NameInv(n)'
  PROVE  UnderTwiceTheLimit'
<1>0. RateTypeOK /\ UnderTwiceTheLimit
  BY DEF RateInv
<1>1. /\ Limit \in Nat \ {0} /\ Window \in Nat \ {0} /\ tick \in Nat /\ steps \in Nat
      /\ UNCHANGED <<tick, clock_s, steps>>
  BY <1>0, WindowAssumption DEF RateTypeOK, Allowed
<1>m. PICK m : m = Len(passed[n])
  OBVIOUS
<1> DEFINE new == [at |-> tick, steps |-> steps]
<1>2. \A k \in Names \ {n} : passed'[k] = passed[k]
  BY <1>0 DEF Allowed, RateTypeOK
<1>3. passed'[n] = Append(passed[n], new) /\ passed[n] \in Seq(Passed) /\ new \in Passed
  BY <1>0, <1>1 DEF Allowed, RateTypeOK, Passed
<1>4. /\ m \in Nat /\ Len(passed'[n]) = m + 1 /\ DOMAIN passed'[n] = 1..(m + 1) /\ DOMAIN passed[n] = 1..m
      /\ passed'[n][m + 1] = new /\ \A i \in 1..m : passed'[n][i] = passed[n][i]
  BY <1>m, <1>3, AppendProperties, LenProperties
<1>5. passed'[n][m + 1].at = tick /\ passed'[n][m + 1].steps = steps
  BY <1>4
<1> HIDE DEF new
<1>6. ASSUME NEW i \in 1..(m + 1), passed'[n][m + 1].at - passed'[n][i].at < Window
      PROVE  (m + 1) - i + 1 < Limit * (2 + passed'[n][m + 1].steps - passed'[n][i].steps)
  <2> DEFINE x == passed'[n][i].at  y == passed'[n][i].steps
             c == buckets'[n].count  s == buckets'[n].start
  <2>1. i \in Nat /\ i <= m + 1 /\ x \in Nat /\ y \in Nat /\ x <= tick /\ y <= steps
    <3>1. passed'[n] \in Seq(Passed) /\ i \in DOMAIN passed'[n]
      BY <1>4 DEF RateTypeOK
    <3>2. passed'[n][i] \in Passed
      BY <3>1, <1>4, ElementOfSeq
    <3>3. x <= tick /\ y <= steps
      BY <3>1, <1>1 DEF NameInv
    <3>4. i \in Nat /\ i <= m + 1
      BY <1>4
    <3> QED BY <3>2, <3>3, <3>4 DEF Passed
  <2>2. Age(n, i)' = tick - x /\ StepsSince(n, i)' = steps - y /\ Stretch(n, i)' = (m + 1) - i + 1
    BY <1>1, <1>4 DEF Age, StepsSince, Stretch
  <2>3. tick - x < Window
    BY <1>5, <1>6
  <2>4. WithinWindow(n, i)'
    BY <2>2, <2>3, <1>1, <1>4 DEF NameInv
  <2>5. \/ (m + 1) - i + 1 < Limit * (steps - y) + c
        \/ (m + 1) - i + 1 < Limit * ((steps - y) + 1) + c
    BY <2>2, <2>4, <1>1 DEF WithinWindow
  <2>6. c \in Nat /\ c <= Limit
    <3>1. passed'[n] # <<>>
      BY <1>4, EmptySeq
    <3>2. c \in 1..Limit
      BY <3>1 DEF NameInv
    <3> QED BY <3>2, <1>1
  <2> HIDE DEF x, y, c, s
  <2> DEFINE d == steps - y
  <2>7. d \in Nat /\ 2 + steps - y = d + 2
    BY <2>1, <1>1
  <2> HIDE DEF d
  <2>8. Limit * d \in Nat /\ Limit * (d + 1) = Limit * d + Limit /\ Limit * (d + 2) = Limit * d + Limit + Limit
    BY <2>7, <1>1
  <2>9. \/ (m + 1) - i + 1 < Limit * d + c
        \/ (m + 1) - i + 1 < Limit * (d + 1) + c
    BY <2>5 DEF d
  <2>10. (m + 1) - i + 1 < Limit * (d + 2)
    BY <2>1, <2>6, <2>8, <2>9, <1>1, <1>4
  <2> QED BY <2>7, <2>10, <1>5 DEF y
<1>7. ASSUME NEW i \in 1..(m + 1), NEW j \in 1..(m + 1), i <= j, passed'[n][j].at - passed'[n][i].at < Window
      PROVE  j - i + 1 < Limit * (2 + passed'[n][j].steps - passed'[n][i].steps)
  <2>1. CASE j = m + 1
    BY <2>1, <1>6, <1>7
  <2>2. CASE j # m + 1
    <3>1. i \in 1..m /\ j \in 1..m
      BY <2>2, <1>4, <1>7
    <3>2. passed'[n][i] = passed[n][i] /\ passed'[n][j] = passed[n][j]
      BY <3>1, <1>4
    <3>3. i \in DOMAIN passed[n] /\ j \in DOMAIN passed[n] /\ passed[n][j].at - passed[n][i].at < Window
      BY <3>1, <3>2, <1>4, <1>7
    <3>4. j - i + 1 < Limit * (2 + passed[n][j].steps - passed[n][i].steps)
      BY <3>3, <1>0, <1>7 DEF UnderTwiceTheLimit
    <3> QED BY <3>2, <3>4
  <2> QED BY <2>1, <2>2
<1>8. ASSUME NEW k \in Names, NEW i \in DOMAIN passed'[k], NEW j \in DOMAIN passed'[k],
             i <= j, passed'[k][j].at - passed'[k][i].at < Window
      PROVE  j - i + 1 < Limit * (2 + passed'[k][j].steps - passed'[k][i].steps)
  <2>1. CASE k = n
    <3>1. i \in 1..(m + 1) /\ j \in 1..(m + 1)
      BY <2>1, <1>4
    <3>2. passed'[n][j].at - passed'[n][i].at < Window
      BY <2>1, <1>8
    <3>3. j - i + 1 < Limit * (2 + passed'[n][j].steps - passed'[n][i].steps)
      BY <3>1, <3>2, <1>7, <1>8
    <3> QED BY <3>3, <2>1
  <2>2. CASE k # n
    <3>1. passed'[k] = passed[k]
      BY <2>2, <1>2
    <3> QED BY <3>1, <1>0, <1>8 DEF UnderTwiceTheLimit
  <2> QED BY <2>1, <2>2
<1> QED BY <1>8, <1>1 DEF UnderTwiceTheLimit

\* Every step keeps the invariant.
LEMMA NextRateInv == RateInv /\ [RateNext]_rateVars => RateInv'
<1> SUFFICES ASSUME RateInv, [RateNext]_rateVars PROVE RateInv'
  OBVIOUS
<1>0. RateTypeOK /\ UnderTwiceTheLimit
  BY DEF RateInv
<1>1. CASE Ticks \/ ClockStepped
  <2>1. /\ UNCHANGED <<buckets, passed>>
        /\ \/ tick' = tick + 1 /\ clock_s' = clock_s + 1 /\ steps' = steps
           \/ tick' = tick /\ steps' = steps + 1 /\ clock_s' \in 0..(2 * LastTick)
    BY <1>1 DEF Ticks, ClockStepped
  <2>2. RateTypeOK'
    <3>1. tick' \in Nat /\ clock_s' \in Nat /\ steps' \in Nat
      <4>1. tick \in Nat /\ clock_s \in Nat /\ steps \in Nat
        BY <1>0 DEF RateTypeOK
      <4>2. 0..(2 * LastTick) \subseteq Nat
        BY WindowAssumption
      <4> QED BY <2>1, <4>1, <4>2
    <3> QED BY <3>1, <2>1, <1>0 DEF RateTypeOK
  <2>3. \A n \in Names : NameInv(n)'
    BY <2>1, <2>2, TimeKeeps
  <2> QED BY <2>1, <2>2, <2>3, <1>0 DEF RateInv, UnderTwiceTheLimit
<1>2. ASSUME NEW n \in Names, Allowed(n) PROVE RateInv'
  <2>1. RateTypeOK'
    BY <1>0, <1>2, AllowedTypes
  <2>2. NameInv(n)'
    BY <1>2, <2>1, AllowedKeeps
  <2>3. UnderTwiceTheLimit'
    BY <1>2, <2>1, <2>2, AllowedBounded
  <2>4. ASSUME NEW k \in Names \ {n} PROVE NameInv(k)'
    <3>1. passed'[k] = passed[k] /\ UNCHANGED <<tick, clock_s, steps>>
      BY <1>0, <1>2 DEF Allowed, RateTypeOK
    <3>2. (Seen(k)' <=> Seen(k)) /\ (Seen(k) => buckets'[k] = buckets[k])
      BY <1>2 DEF Allowed, Stored, Seen
    <3>3. CASE Seen(k)
      <4>1. Seen(k)' = Seen(k)
        BY <3>2 DEF Seen
      <4> QED BY <3>1, <3>2, <3>3, <4>1, OthersKeep
    <3>4. CASE ~Seen(k)
      <4>1. passed[k] = <<>>
        BY <3>4 DEF RateInv, NameInv
      <4>2. DOMAIN passed'[k] = {}
        BY <4>1, <3>1
      <4> QED BY <3>1, <3>2, <3>4, <4>1, <4>2 DEF NameInv
    <3> QED BY <3>3, <3>4
  <2> QED BY <2>1, <2>2, <2>3, <2>4 DEF RateInv
<1>3. CASE UNCHANGED rateVars
  <2>1. \A n, i : (WithinWindow(n, i)' <=> WithinWindow(n, i)) /\ Age(n, i)' = Age(n, i) /\ (Seen(n)' <=> Seen(n))
    BY <1>3 DEF rateVars, WithinWindow, Age, Stretch, StepsSince, Seen
  <2>2. \A n \in Names : NameInv(n)'
    BY <2>1, <1>3 DEF rateVars, RateInv, NameInv
  <2> QED BY <2>2, <1>0, <1>3 DEF rateVars, RateInv, RateTypeOK, UnderTwiceTheLimit
<1>4. ASSUME NEW n \in Names, TooMany(n) PROVE RateInv'
  BY <1>0, <1>3, <1>4, RefusedNothing
<1> QED BY <1>1, <1>2, <1>3, <1>4 DEF RateNext

LEMMA InitRateInv == RateInit => RateInv
<1> SUFFICES ASSUME RateInit PROVE RateInv
  OBVIOUS
<1>1. \A n \in Names : passed[n] = <<>> /\ DOMAIN passed[n] = {} /\ ~Seen(n)
  BY DEF RateInit, Seen
<1>2. passed \in [Names -> Seq(Passed)] /\ DOMAIN buckets = {}
  BY DEF RateInit
<1>3. buckets \in [DOMAIN buckets -> Bucket]
  BY <1>2 DEF RateInit
<1>4. RateTypeOK
  BY <1>2, <1>3 DEF RateInit, RateTypeOK
<1> QED BY <1>1, <1>4 DEF RateInv, NameInv, UnderTwiceTheLimit

LEMMA RateInvHolds == RateSpec => []RateInv
  BY InitRateInv, NextRateInv, PTL DEF RateSpec

-----------------------------------------------------------------------------
\* Every variable has its type.
THEOREM RateTypeCorrect == RateSpec => []RateTypeOK
<1>1. RateInv => RateTypeOK
  BY DEF RateInv
<1> QED BY <1>1, RateInvHolds, PTL

\* In any stretch of time as long as the window a tenant gets less than twice the limit
\* through, and the limit once more for each step of the clock.
THEOREM LessThanTwice == RateSpec => []UnderTwiceTheLimit
<1>1. RateInv => UnderTwiceTheLimit
  BY DEF RateInv
<1> QED BY <1>1, RateInvHolds, PTL

-----------------------------------------------------------------------------
(* The tasks of the trading day: TradingCalendar *)

\* A reading of the clock is its date and its minute.
LEMMA DateParts ==
  ASSUME NEW w \in Nat
  PROVE  DateOf(w) \in Nat /\ MinuteOf(w) \in Nat /\ MinuteOf(w) < 1440 /\ w = DateOf(w) * 1440 + MinuteOf(w)
  BY DEF DateOf, MinuteOf, Day

\* Later readings have no earlier dates.
LEMMA DatesGrow ==
  ASSUME NEW v \in Nat, NEW w \in Nat, v <= w
  PROVE  DateOf(v) <= DateOf(w)
  BY DEF DateOf, Day

\* The weekday after a date: later, and there is none in between.
LEMMA NextWeekday ==
  ASSUME NEW d \in Nat
  PROVE  /\ WeekdayAfter(d) \in Nat /\ d < WeekdayAfter(d) /\ IsWeekday(WeekdayAfter(d))
         /\ \A e \in Nat : d < e /\ e < WeekdayAfter(d) => ~IsWeekday(e)
<1> DEFINE q == d \div 7  r == d % 7
<1>1. q \in Nat /\ r \in 0..6 /\ d = 7 * q + r
  OBVIOUS
<1>2. WeekdayAfter(d) = IF r < 4 THEN d + 1 ELSE 7 * (q + 1)
  BY DEF WeekdayAfter
<1>3. \A a \in Nat, b \in 0..6 : (7 * a + b) % 7 = b
  OBVIOUS
<1> HIDE DEF q, r
<1>4. CASE r < 4
  <2>1. WeekdayAfter(d) = 7 * q + (r + 1) /\ r + 1 \in 0..6 /\ r + 1 < 5
    BY <1>1, <1>2, <1>4
  <2>2. WeekdayAfter(d) % 7 = r + 1
    BY <2>1, <1>1, <1>3
  <2>3. WeekdayAfter(d) = d + 1
    BY <1>2, <1>4
  <2> QED BY <2>1, <2>2, <2>3 DEF IsWeekday
<1>5. CASE ~(r < 4)
  <2>1. WeekdayAfter(d) = 7 * (q + 1) + 0 /\ q + 1 \in Nat
    BY <1>1, <1>2, <1>5
  <2>2. WeekdayAfter(d) % 7 = 0
    BY <2>1, <1>3
  <2>3. ASSUME NEW e \in Nat, d < e, e < WeekdayAfter(d) PROVE ~IsWeekday(e)
    <3>1. e = 7 * q + (e - 7 * q) /\ e - 7 * q \in 5..6
      BY <2>1, <2>3, <1>1, <1>5
    <3> DEFINE b == e - 7 * q
    <3>2. e = 7 * q + b /\ b \in 0..6 /\ ~(b < 5)
      BY <3>1
    <3> HIDE DEF b
    <3>3. e % 7 = b
      BY <3>2, <1>1, <1>3
    <3> QED BY <3>2, <3>3 DEF IsWeekday
  <2>4. d < WeekdayAfter(d) /\ WeekdayAfter(d) \in Nat
    BY <2>1, <1>1, <1>5
  <2> QED BY <2>2, <2>3, <2>4 DEF IsWeekday
<1> QED BY <1>4, <1>5

\* What the clock shows: its dates grow with the instants, though its readings may not.
LEMMA WallDates ==
  ASSUME shift \in {-60, 0, 60}, NEW t \in Nat
  PROVE  /\ Wall(t) \in Nat
         /\ \A u \in Nat : t <= u => DateOf(Wall(t)) <= DateOf(Wall(u))
<1>1. ChangeInstant = 8760
  BY DEF ChangeInstant, ChangeDate, Day
<1>2. \A x \in Nat : Wall(x) = (IF x < 8760 THEN x ELSE x + shift) /\ Wall(x) \in Nat
  BY <1>1 DEF Wall
<1>3. ASSUME NEW u \in Nat, t <= u PROVE DateOf(Wall(t)) <= DateOf(Wall(u))
  <2>1. CASE t < 8760 /\ u >= 8760
    <3>1. Wall(t) <= 8759 /\ Wall(u) >= 8700
      BY <2>1, <1>2
    <3>2. DateOf(Wall(t)) <= DateOf(8759) /\ DateOf(8700) <= DateOf(Wall(u))
      BY <3>1, <1>2, DatesGrow
    <3>3. DateOf(8759) = 6 /\ DateOf(8700) = 6
      BY DEF DateOf, Day
    <3>4. DateOf(Wall(t)) \in Nat /\ DateOf(Wall(u)) \in Nat
      <4>1. Wall(t) \in Nat /\ Wall(u) \in Nat
        BY <1>2
      <4> QED BY <4>1, DateParts
    <3> QED BY <3>2, <3>3, <3>4
  <2>2. CASE ~(t < 8760 /\ u >= 8760)
    <3>1. Wall(t) <= Wall(u)
      BY <2>2, <1>2, <1>3
    <3> QED BY <3>1, <1>2, DatesGrow
  <2> QED BY <2>1, <2>2
<1> QED BY <1>2, <1>3

\* A sleep until a time in the afternoon of a weekday ends on that day: at the time, a
\* minute before it, or by the shift away if the clock changed meanwhile.
LEMMA SleepEnds ==
  ASSUME shift \in {-60, 0, 60}, NEW t \in Nat, NEW d \in Nat, IsWeekday(d),
         NEW m \in Nat, 900 <= m, m <= 1000, Wall(t) < d * 1440 + m,
         NEW u \in SleptUntil(t, d * 1440 + m)
  PROVE  /\ u \in Nat /\ t < u
         /\ DateOf(Wall(u)) = d /\ MinuteOf(Wall(u)) \in Nat
         /\ \/ MinuteOf(Wall(u)) \in {m - 1, m}
            \/ /\ MinuteOf(Wall(u)) \in {m + shift - 1, m + shift}
               /\ t < ChangeInstant /\ DateOf(Wall(t)) <= ChangeDate /\ ChangeDate < d
<1>1. ChangeInstant = 8760 /\ ChangeDate = 6
  BY DEF ChangeInstant, ChangeDate, Day
<1>2. \A x \in Nat : Wall(x) = (IF x < 8760 THEN x ELSE x + shift) /\ Wall(x) \in Nat
  BY <1>1, WallDates DEF Wall
<1> DEFINE T == d * 1440 + m  left == T - Wall(t)
<1>3. T \in Nat /\ Wall(t) \in Nat /\ Wall(t) < T /\ left \in Nat /\ left >= 1
  BY <1>2
<1>4. u \in IF left <= 0 THEN {t} ELSE IF left = 1 THEN {t + 1} ELSE {t + left - 1, t + left}
  BY DEF SleptUntil
<1> HIDE DEF left
<1>5. u \in Nat /\ t < u /\ (u = t + left \/ u = t + left - 1)
  BY <1>3, <1>4
<1>6. left = T - Wall(t)
  BY DEF left
<1> HIDE DEF T
<1>7. \/ Wall(u) = T \/ Wall(u) = T - 1
      \/ t < 8760 /\ 8760 <= u /\ (Wall(u) = T + shift \/ Wall(u) = T + shift - 1)
  BY <1>2, <1>3, <1>5, <1>6
<1>8. d # 6
  BY DEF IsWeekday
<1>9. T = d * 1440 + m
  BY DEF T
<1>10. CASE Wall(u) = T \/ Wall(u) = T - 1
  <2>1. PICK k \in {m - 1, m} : Wall(u) = d * 1440 + k /\ k \in 0..1439
    BY <1>9, <1>10
  <2>2. DateOf(Wall(u)) = d /\ MinuteOf(Wall(u)) = k
    <3> DEFINE w == Wall(u)
    <3>1. w = d * 1440 + k /\ d \in Nat /\ k \in 0..1439
      BY <2>1
    <3> HIDE DEF w
    <3>2. DateOf(w) = d /\ MinuteOf(w) = k
      BY <3>1 DEF DateOf, MinuteOf, Day
    <3> QED BY <3>2 DEF w
  <2> QED BY <2>1, <2>2, <1>5
<1>11. CASE t < 8760 /\ 8760 <= u /\ (Wall(u) = T + shift \/ Wall(u) = T + shift - 1)
  <2>1. PICK k \in {m + shift - 1, m + shift} : Wall(u) = d * 1440 + k /\ k \in 0..1439
    BY <1>9, <1>11
  <2>2. DateOf(Wall(u)) = d /\ MinuteOf(Wall(u)) = k
    <3> DEFINE w == Wall(u)
    <3>1. w = d * 1440 + k /\ d \in Nat /\ k \in 0..1439
      BY <2>1
    <3> HIDE DEF w
    <3>2. DateOf(w) = d /\ MinuteOf(w) = k
      BY <3>1 DEF DateOf, MinuteOf, Day
    <3> QED BY <3>2 DEF w
  <2>3. DateOf(Wall(t)) <= 6
    <3>1. Wall(t) = t /\ t <= 8759
      BY <1>2, <1>11
    <3>2. DateOf(t) <= DateOf(8759)
      BY <3>1, DatesGrow
    <3>3. DateOf(8759) = 6 /\ DateOf(t) \in Nat
      BY DateParts DEF DateOf, Day
    <3> QED BY <3>1, <3>2, <3>3
  <2>4. 6 < d
    <3>1. u >= 8760 /\ u <= T
      BY <1>2, <1>3, <1>5, <1>6, <1>11
    <3> QED BY <3>1, <1>5, <1>8, <1>9
  <2> QED BY <2>1, <2>2, <2>3, <2>4, <1>1, <1>5, <1>11
<1> QED BY <1>7, <1>10, <1>11

\* The first weekday whose time m is still to come.
NextDay(w, m) == IF IsWeekday(DateOf(w)) /\ MinuteOf(w) < m THEN DateOf(w) ELSE WeekdayAfter(DateOf(w))

LEMMA NextDayIsFirst ==
  ASSUME NEW w \in Nat, NEW m \in Nat, 900 <= m, m <= 1000
  PROVE  /\ NextDay(w, m) \in Nat /\ IsWeekday(NextDay(w, m))
         /\ DateOf(w) <= NextDay(w, m) /\ w < NextDay(w, m) * 1440 + m
         /\ IsWeekday(DateOf(w)) /\ MinuteOf(w) < m => NextDay(w, m) = DateOf(w)
         /\ IsWeekday(DateOf(w)) /\ MinuteOf(w) >= m => DateOf(w) < NextDay(w, m)
         /\ \A e \in Nat : IsWeekday(e) /\ w < e * 1440 + m => NextDay(w, m) <= e
<1> DEFINE D == DateOf(w)  M == MinuteOf(w)  d == NextDay(w, m)
<1>1. D \in Nat /\ M \in Nat /\ M < 1440 /\ w = D * 1440 + M
  BY DateParts
<1>2. d = IF IsWeekday(D) /\ M < m THEN D ELSE WeekdayAfter(D)
  BY DEF NextDay
<1>3. /\ WeekdayAfter(D) \in Nat /\ D < WeekdayAfter(D) /\ IsWeekday(WeekdayAfter(D))
      /\ \A e \in Nat : D < e /\ e < WeekdayAfter(D) => ~IsWeekday(e)
  BY <1>1, NextWeekday
<1> HIDE DEF D, M, d
<1>4. CASE IsWeekday(D) /\ M < m
  <2>1. d = D
    BY <1>2, <1>4
  <2>2. \A e \in Nat : w < e * 1440 + m => D <= e
    BY <1>1
  <2>3. w < D * 1440 + m
    BY <1>1, <1>4
  <2>4. d \in Nat /\ IsWeekday(d) /\ D <= d /\ w < d * 1440 + m /\ d = D /\ ~(M >= m)
    BY <2>1, <2>3, <1>1, <1>4
  <2>5. \A e \in Nat : w < e * 1440 + m => d <= e
    BY <2>1, <2>2
  <2> QED BY <2>4, <2>5 DEF D, M, d
<1>5. CASE ~(IsWeekday(D) /\ M < m)
  <2>1. d = WeekdayAfter(D)
    BY <1>2, <1>5
  <2>2. d \in Nat /\ D < d /\ IsWeekday(d)
    BY <2>1, <1>3
  <2>3. w < d * 1440 + m
    BY <2>2, <1>1
  <2>4. ASSUME NEW e \in Nat, IsWeekday(e), w < e * 1440 + m PROVE d <= e
    <3>1. D <= e
      BY <2>4, <1>1
    <3>2. D # e
      <4>1. D = e => M < m
        BY <2>4, <1>1
      <4> QED BY <4>1, <2>4, <1>5
    <3>3. ~(e < WeekdayAfter(D))
      BY <3>1, <3>2, <2>4, <1>1, <1>3
    <3> QED BY <3>3, <2>1, <2>2
  <2>5. D <= d
    BY <2>2, <1>1
  <2>6. ~(IsWeekday(D) /\ M < m)
    BY <1>5
  <2> QED BY <2>2, <2>3, <2>4, <2>5, <2>6 DEF D, M, d
<1> QED BY <1>4, <1>5

\* The day for which a sleep of the flatten task is meant, and how it may miss it.
FlattenDate == DateOf(Wall(flattenWakes))

FlattenInv ==
  /\ pollNext = "none" => flattened = {}
  /\ pollNext # "none" =>
       /\ now <= flattenWakes
       /\ IsWeekday(FlattenDate)
       /\ \/ MinuteOf(Wall(flattenWakes)) \in {EodTime - 1, EodTime}
          \/ /\ MinuteOf(Wall(flattenWakes)) \in {EodTime + shift - 1, EodTime + shift}
             /\ flattenFrom <= ChangeDate /\ ChangeDate < FlattenDate
       /\ \A d \in Nat : IsWeekday(d) /\ Wall(life) < d * Day + EodTime /\ d < FlattenDate =>
            \E f \in flattened : f.at.date = d
  /\ \A f \in flattened :
       /\ IsWeekday(f.at.date) /\ f.at.date < FlattenDate
       /\ f.at.minute >= MarketClose => shift = 60 /\ f.from <= ChangeDate /\ ChangeDate < f.at.date
  /\ \A f, g \in flattened : f.at.date = g.at.date => f = g

\* What the poll handled of a day that was over lies before the day it sleeps for,
\* unless the handling raised.
PollInv ==
  /\ pollNext = "none" => handledBars = {}
  /\ \A b \in handledBars :
       b.at.minute >= PollTime /\ ~b.raised => b.at.date < DateOf(Wall(pollWakes))
  /\ pollNext = "fetch" =>
       /\ IsWeekday(DateOf(Wall(pollWakes)))
       /\ MinuteOf(Wall(pollWakes)) < PollTime - 1 =>
            shift = -60 /\ ~IsWeekday(pollFrom) /\ pollFrom <= ChangeDate
  /\ HandledUntilDone

\* Bars are numbered in the order in which they are handled.
HandledInOrder ==
  IsFiniteSet(handledBars) /\ \A b \in handledBars : b.n < Cardinality(handledBars)

\* The inductive invariant.
CalendarInv == CalendarTypeOK /\ HandledInOrder /\ FlattenInv /\ PollInv

LEMMA CalendarNumbers ==
  /\ Day = 1440 /\ EodTime = 950 /\ PollTime = 965 /\ MarketClose = 960
  /\ ChangeDate = 6 /\ ChangeInstant = 8760
  BY DEF Day, EodTime, PollTime, MarketClose, ChangeDate, ChangeInstant

\* The flatten task goes to sleep.
LEMMA FlattenSleepEnds ==
  ASSUME shift \in {-60, 0, 60}, NEW t \in Nat, NEW u \in SleptUntil(t, FlattenTarget(Wall(t)))
  PROVE  /\ u \in Nat /\ t < u
         /\ DateOf(Wall(u)) = NextDay(Wall(t), 950)
         /\ \/ MinuteOf(Wall(u)) \in {949, 950}
            \/ /\ MinuteOf(Wall(u)) \in {950 + shift - 1, 950 + shift}
               /\ DateOf(Wall(t)) <= 6 /\ 6 < DateOf(Wall(u))
<1> DEFINE d == NextDay(Wall(t), 950)
<1>1. FlattenTarget(Wall(t)) = d * 1440 + 950
  BY CalendarNumbers DEF FlattenTarget, NextDay
<1>2. Wall(t) \in Nat
  BY WallDates
<1>3. d \in Nat /\ IsWeekday(d) /\ Wall(t) < d * 1440 + 950
  BY <1>2, NextDayIsFirst
<1> HIDE DEF d
<1>4. u \in SleptUntil(t, d * 1440 + 950)
  BY <1>1
<1>5. /\ u \in Nat /\ t < u /\ DateOf(Wall(u)) = d
      /\ \/ MinuteOf(Wall(u)) \in {950 - 1, 950}
         \/ /\ MinuteOf(Wall(u)) \in {950 + shift - 1, 950 + shift}
            /\ DateOf(Wall(t)) <= ChangeDate /\ ChangeDate < d
  BY <1>3, <1>4, SleepEnds
<1> QED BY <1>5, CalendarNumbers DEF d

\* The flatten at the end of a sleep.
LEMMA FlattenRunsKeeps ==
  ASSUME CalendarInv, FlattenRuns
  PROVE  CalendarInv'
<1>0. CalendarTypeOK /\ HandledInOrder /\ FlattenInv /\ PollInv
  BY DEF CalendarInv
<1>1. /\ pollNext # "none" /\ now' = flattenWakes /\ flattenFrom' = DateOf(Wall(flattenWakes))
      /\ UNCHANGED <<shift, life, pollWakes, pollFrom, pollNext, handledBars>>
  BY DEF FlattenRuns, FlattenSleeps, pollVars
<1>2. shift \in {-60, 0, 60} /\ flattenWakes \in Nat /\ life \in Nat
  BY <1>0 DEF CalendarTypeOK
<1>3. PICK t : t = flattenWakes
  OBVIOUS
<1>4. PICK u : u = flattenWakes'
  OBVIOUS
<1> DEFINE w == Wall(t)  D == DateOf(w)  M == MinuteOf(w)  E == DateOf(Wall(u))  N == MinuteOf(Wall(u))
<1>5. /\ u \in Nat /\ t < u /\ E = NextDay(w, 950)
      /\ \/ N \in {949, 950}
         \/ N \in {950 + shift - 1, 950 + shift} /\ D <= 6 /\ 6 < E
  BY <1>2, <1>3, <1>4, FlattenSleepEnds DEF FlattenRuns, FlattenSleeps
<1>6. w \in Nat /\ D \in Nat /\ M \in Nat /\ M < 1440 /\ FlattenDate = D /\ IsWeekday(D)
  <2>1. w \in Nat
    BY <1>2, <1>3, WallDates
  <2>2. FlattenDate = D /\ IsWeekday(FlattenDate)
    BY <1>0, <1>1, <1>3 DEF FlattenInv, FlattenDate
  <2>3. D \in Nat /\ M \in Nat /\ M < 1440
    BY <2>1, DateParts
  <2> QED BY <2>1, <2>2, <2>3
<1>7. /\ E \in Nat /\ IsWeekday(E) /\ D <= E
      /\ M < 950 => E = D
      /\ M >= 950 => D < E
      /\ \A e \in Nat : IsWeekday(e) /\ w < e * 1440 + 950 => E <= e
  <2>2. /\ NextDay(w, 950) \in Nat /\ IsWeekday(NextDay(w, 950)) /\ D <= NextDay(w, 950)
        /\ IsWeekday(D) /\ M < 950 => NextDay(w, 950) = D
        /\ IsWeekday(D) /\ M >= 950 => D < NextDay(w, 950)
        /\ \A e \in Nat : IsWeekday(e) /\ w < e * 1440 + 950 => NextDay(w, 950) <= e
    BY <1>6, NextDayIsFirst
  <2>3. E = NextDay(w, 950)
    BY <1>5
  <2> HIDE DEF w, D, M, E
  <2> QED BY <2>2, <2>3, <1>6
<1>8. \A x : Wall(x)' = Wall(x)
  BY <1>1 DEF Wall
<1>9. FlattenDate' = E /\ MinuteOf(Wall(flattenWakes))' = N
  BY <1>4, <1>8 DEF FlattenDate, DateOf, MinuteOf
<1>10. flattened' = flattened \cup (IF M < 950 THEN {} ELSE {[at |-> Stamped(w), from |-> flattenFrom]})
  BY <1>3, CalendarNumbers DEF FlattenRuns
<1>11. Stamped(w) = [date |-> D, minute |-> M]
  BY DEF Stamped
<1>12. \/ M \in {949, 950}
       \/ M \in {950 + shift - 1, 950 + shift} /\ flattenFrom <= 6 /\ 6 < D
  BY <1>0, <1>1, <1>3, <1>6, CalendarNumbers DEF FlattenInv
<1>13. \A f \in flattened :
         /\ IsWeekday(f.at.date) /\ f.at.date < D
         /\ f.at.date \in Nat /\ f.at.minute \in 0..(Day - 1) /\ f.from \in Nat
         /\ f.at.minute >= 960 => shift = 60 /\ f.from <= 6 /\ 6 < f.at.date
  <2>1. \A f \in flattened : f.at.date \in Nat /\ f.at.minute \in 0..(Day - 1) /\ f.from \in Nat
    BY <1>0 DEF CalendarTypeOK
  <2>2. \A f \in flattened :
          /\ IsWeekday(f.at.date) /\ f.at.date < D
          /\ f.at.minute >= 960 => shift = 60 /\ f.from <= 6 /\ 6 < f.at.date
    BY <1>0, <1>1, <1>6, CalendarNumbers DEF FlattenInv
  <2> HIDE DEF w, D, M, E, N
  <2> QED BY <2>1, <2>2
<1>unique. \A f, g \in flattened : f.at.date = g.at.date => f = g
  BY <1>0 DEF FlattenInv
<1>covers. \A d \in Nat : IsWeekday(d) /\ Wall(life) < d * 1440 + 950 /\ d < D =>
         \E f \in flattened : f.at.date = d
  BY <1>0, <1>1, <1>3, <1>6, CalendarNumbers DEF FlattenInv
<1>14. flattenFrom \in Nat /\ flattenFrom' = D
  BY <1>0, <1>1, <1>3 DEF CalendarTypeOK
<1> HIDE DEF w, D, M, E, N
\* The record of a flatten, if there was one.
<1>15. ASSUME NEW f \in flattened', f \notin flattened
       PROVE  /\ M >= 950 /\ f.at.date = D /\ f.at.minute = M /\ f.from = flattenFrom
              /\ f = [at |-> [date |-> D, minute |-> M], from |-> flattenFrom]
  BY <1>6, <1>10, <1>11, <1>15
<1>16. ASSUME NEW f \in flattened'
       PROVE  /\ IsWeekday(f.at.date) /\ f.at.date < E
              /\ f.at.date \in Nat /\ f.at.minute \in 0..(Day - 1) /\ f.from \in Nat
              /\ f.at.minute >= 960 => shift = 60 /\ f.from <= 6 /\ 6 < f.at.date
  <2>1. CASE f \in flattened
    <3>1. /\ IsWeekday(f.at.date) /\ f.at.date < D
          /\ f.at.date \in Nat /\ f.at.minute \in 0..(Day - 1) /\ f.from \in Nat
          /\ f.at.minute >= 960 => shift = 60 /\ f.from <= 6 /\ 6 < f.at.date
      BY <2>1, <1>13
    <3> QED BY <3>1, <1>6, <1>7
  <2>2. CASE f \notin flattened
    <3>1. M >= 950 /\ f.at.date = D /\ f.at.minute = M /\ f.from = flattenFrom
      BY <2>2, <1>15
    <3>2. M >= 960 => shift = 60 /\ flattenFrom <= 6 /\ 6 < D
      BY <1>2, <1>12
    <3>3. M \in 0..(Day - 1) /\ D < E
      BY <3>1, <1>6, <1>7 DEF Day
    <3> QED BY <3>1, <3>2, <3>3, <1>6, <1>14
  <2> QED BY <2>1, <2>2
<1>17. ASSUME NEW f \in flattened', NEW g \in flattened', f.at.date = g.at.date PROVE f = g
  <2>1. CASE f \in flattened /\ g \in flattened
    BY <2>1, <1>unique, <1>17
  <2>2. CASE f \notin flattened /\ g \notin flattened
    <3>1. /\ f = [at |-> [date |-> D, minute |-> M], from |-> flattenFrom]
          /\ g = [at |-> [date |-> D, minute |-> M], from |-> flattenFrom]
      BY <2>2, <1>15
    <3> QED BY <3>1
  <2>3. CASE (f \in flattened) # (g \in flattened)
    <3>1. \/ f.at.date = D /\ g.at.date < D
          \/ g.at.date = D /\ f.at.date < D
      BY <2>3, <1>13, <1>15
    <3> QED BY <3>1, <1>6, <1>17
  <2> QED BY <2>1, <2>2, <2>3
<1>18. ASSUME NEW d \in Nat, IsWeekday(d), Wall(life) < d * 1440 + 950, d < E
       PROVE  \E f \in flattened' : f.at.date = d
  <2>1. CASE d < D
    BY <2>1, <1>10, <1>covers, <1>18
  <2>2. CASE ~(d < D)
    <3>1. D <= d /\ D < E
      BY <2>2, <1>6, <1>7, <1>18
    <3>2. M >= 950
      BY <3>1, <1>6, <1>7
    <3>3. ~(w < d * 1440 + 950)
      BY <1>7, <1>18
    <3>4. d = D
      <4>1. w = D * 1440 + M
        BY <1>2, <1>3, WallDates, DateParts DEF w, D, M
      <4> QED BY <4>1, <3>1, <3>3, <1>6
    <3>5. [at |-> [date |-> D, minute |-> M], from |-> flattenFrom] \in flattened'
      BY <3>2, <1>6, <1>10, <1>11
    <3> QED BY <3>4, <3>5
  <2> QED BY <2>1, <2>2
<1>19. FlattenInv'
  <2>1. now' <= flattenWakes'
    BY <1>1, <1>2, <1>3, <1>4, <1>5
  <2>2. \/ N \in {949, 950}
        \/ N \in {950 + shift - 1, 950 + shift} /\ flattenFrom' <= 6 /\ 6 < E
    BY <1>5, <1>14
  <2>3. Wall(life)' = Wall(life)
    BY <1>1 DEF Wall
  <2>4. /\ pollNext' # "none" /\ shift' = shift /\ FlattenDate' = E
        /\ MinuteOf(Wall(flattenWakes))' = N
    BY <1>1, <1>9
  <2>5. \A d \in Nat : IsWeekday(d) /\ Wall(life)' < d * 1440 + 950 /\ d < E =>
          \E f \in flattened' : f.at.date = d
    BY <2>3, <1>18
  <2> QED BY <2>1, <2>2, <2>4, <2>5, <1>7, <1>16, <1>17, CalendarNumbers DEF FlattenInv
<1>20. PollInv'
  <2>1. DateOf(Wall(pollWakes))' = DateOf(Wall(pollWakes)) /\ MinuteOf(Wall(pollWakes))' = MinuteOf(Wall(pollWakes))
    BY <1>1 DEF Wall, DateOf, MinuteOf
  <2> QED BY <2>1, <1>0, <1>1 DEF PollInv, HandledUntilDone
<1>21. CalendarTypeOK'
  <2>1. \A f \in flattened' : f.at.date \in Nat /\ f.at.minute \in 0..(Day - 1) /\ f.from \in Nat
    BY <1>16
  <2>2. flattenWakes' \in Nat /\ flattenFrom' \in Nat /\ now' \in Nat
    BY <1>1, <1>2, <1>4, <1>5, <1>6, <1>14
  <2> QED BY <2>1, <2>2, <1>0, <1>1 DEF CalendarTypeOK
<1> QED BY <1>0, <1>1, <1>19, <1>20, <1>21 DEF CalendarInv, HandledInOrder

\* The steps of the poll leave the flatten's memory; time goes on to the wake before.
LEMMA PollKeepsFlatten ==
  ASSUME CalendarInv, PollLooks \/ PollHandles \/ PollRaises \/ PollFails
  PROVE  FlattenInv'
<1>1. /\ pollNext # "none" /\ pollNext' # "none" /\ now' = pollWakes /\ pollWakes <= flattenWakes
      /\ UNCHANGED <<shift, life, flattenWakes, flattenFrom, flattened>>
  BY DEF PollLooks, PollHandles, PollRaises, PollFails, Fetching, flattenVars
<1>2. FlattenInv
  BY DEF CalendarInv
<1>3. /\ FlattenDate' = FlattenDate /\ Wall(life)' = Wall(life)
      /\ MinuteOf(Wall(flattenWakes))' = MinuteOf(Wall(flattenWakes))
  BY <1>1 DEF FlattenDate, Wall, DateOf, MinuteOf
<1> QED BY <1>1, <1>2, <1>3 DEF FlattenInv

\* The poll looks at the clock.
LEMMA PollLooksKeeps ==
  ASSUME CalendarInv, PollLooks
  PROVE  PollInv' /\ pollWakes' \in Nat
<1>0. CalendarTypeOK /\ PollInv
  BY DEF CalendarInv
<1>1. /\ pollNext' = "fetch" /\ pollFrom' = DateOf(Wall(pollWakes))
      /\ UNCHANGED <<shift, handledBars>>
  BY DEF PollLooks
<1>2. PICK t : t = pollWakes
  OBVIOUS
<1>3. PICK u : u = pollWakes'
  OBVIOUS
<1>4. shift \in {-60, 0, 60} /\ t \in Nat
  BY <1>0, <1>2 DEF CalendarTypeOK
<1> DEFINE w == Wall(t)  D == DateOf(w)  M == MinuteOf(w)  E == DateOf(Wall(u))  N == MinuteOf(Wall(u))
<1>5. w \in Nat
  BY <1>4, WallDates
<1>6. D \in Nat /\ M \in Nat /\ M < 1440 /\ w = D * 1440 + M
  BY <1>5, DateParts
<1>7. IF NextScheduled(w) > w THEN u \in SleptUntil(t, NextScheduled(w)) ELSE u = t
  BY <1>2, <1>3 DEF PollLooks
<1>8. NextScheduled(w) = IF ~IsWeekday(D) THEN WeekdayAfter(D) * 1440 + 965
                         ELSE IF M < 965 THEN D * 1440 + 965 ELSE w
  BY CalendarNumbers DEF NextScheduled
<1>9. /\ u \in Nat /\ t <= u /\ IsWeekday(E)
      /\ N < 964 => shift = -60 /\ ~IsWeekday(D) /\ D <= 6
  <2>1. CASE ~IsWeekday(D)
    <3> DEFINE d == WeekdayAfter(D)
    <3>1. d \in Nat /\ D < d /\ IsWeekday(d)
      BY <1>6, NextWeekday
    <3>2. NextScheduled(w) = d * 1440 + 965
      BY <2>1, <1>8
    <3> HIDE DEF d, D, M
    <3>3. w < d * 1440 + 965
      BY <3>1, <1>6
    <3>4. u \in SleptUntil(t, d * 1440 + 965)
      BY <3>2, <3>3, <1>7
    <3> DEFINE W == Wall(t)
    <3>5. W < d * 1440 + 965
      BY <3>3
    <3>6. /\ u \in Nat /\ t < u /\ E = d /\ N \in Nat
          /\ \/ N \in {965 - 1, 965}
             \/ N \in {965 + shift - 1, 965 + shift} /\ DateOf(Wall(t)) <= ChangeDate
      BY <3>1, <3>4, <3>5, <1>4, SleepEnds
    <3> HIDE DEF E, N, W
    <3>7. N < 964 => shift = -60 /\ D <= 6
      BY <3>6, <1>4, CalendarNumbers DEF D
    <3> QED BY <3>1, <3>6, <3>7, <2>1, <1>4
  <2>2. CASE IsWeekday(D) /\ M < 965
    <3>1. NextScheduled(w) = D * 1440 + 965 /\ w < D * 1440 + 965
      BY <2>2, <1>6, <1>8
    <3>2. u \in SleptUntil(t, D * 1440 + 965)
      BY <3>1, <1>7
    <3>3. /\ u \in Nat /\ t < u /\ E = D /\ N \in Nat
          /\ \/ N \in {965 - 1, 965}
             \/ DateOf(Wall(t)) <= ChangeDate /\ ChangeDate < D
      BY <3>1, <3>2, <2>2, <1>4, <1>6, SleepEnds
    <3>4. N \in {965 - 1, 965}
      BY <3>3, <1>6, CalendarNumbers
    <3> HIDE DEF D, E, N
    <3> QED BY <3>3, <3>4, <2>2, <1>4
  <2>3. CASE IsWeekday(D) /\ ~(M < 965)
    <3>1. NextScheduled(w) = w /\ ~(w > w)
      BY <2>3, <1>5, <1>8
    <3>2. u = t
      BY <3>1, <1>7
    <3> QED BY <3>2, <2>3, <1>4, <1>6
  <2> QED BY <2>1, <2>2, <2>3
<1>10. D <= E /\ E \in Nat
  <2>1. D <= E
    BY <1>4, <1>9, WallDates
  <2>2. Wall(u) \in Nat
    BY <1>4, <1>9, WallDates
  <2> QED BY <2>1, <2>2, DateParts
<1>11. DateOf(Wall(pollWakes)) = D /\ DateOf(Wall(pollWakes))' = E /\ MinuteOf(Wall(pollWakes))' = N
  BY <1>1, <1>2, <1>3 DEF Wall, DateOf, MinuteOf
<1> HIDE DEF w, D, M, E, N
<1>12. \A b \in handledBars' : b.at.minute >= PollTime /\ ~b.raised => b.at.date < E
  <2> SUFFICES ASSUME NEW b \in handledBars, b.at.minute >= PollTime, ~b.raised PROVE b.at.date < E
    BY <1>1
  <2>1. b.at.date < D
    BY <1>0, <1>11 DEF PollInv
  <2>2. b.at.date \in Nat
    BY <1>0 DEF CalendarTypeOK
  <2> QED BY <2>1, <2>2, <1>6, <1>10
<1>13. N < PollTime - 1 => shift' = -60 /\ ~IsWeekday(pollFrom') /\ pollFrom' <= ChangeDate
  <2>1. pollFrom' = D
    BY <1>1, <1>11
  <2> QED BY <2>1, <1>1, <1>9, CalendarNumbers
<1>14. HandledUntilDone'
  BY <1>0, <1>1 DEF PollInv, HandledUntilDone
<1> QED BY <1>1, <1>3, <1>9, <1>11, <1>12, <1>13, <1>14 DEF PollInv

\* A bar is given to the strategy.
LEMMA BarGiven ==
  ASSUME CalendarInv, Fetching, NEW raised \in BOOLEAN, Given(raised)
  PROVE  /\ HandledUntilDone' /\ HandledInOrder'
         /\ IsWeekday(DateOf(Wall(pollWakes)))
         /\ \A b \in handledBars' :
              /\ b.at.date \in Nat /\ b.at.minute \in 0..(Day - 1)
              /\ b.from \in Nat /\ b.n \in Nat /\ b.raised \in BOOLEAN
         /\ \A b \in handledBars' : b \in handledBars \/
              /\ b.raised = raised /\ b.at.date = DateOf(Wall(pollWakes))
              /\ b.at.minute = MinuteOf(Wall(pollWakes))
<1>0. CalendarTypeOK /\ PollInv /\ HandledInOrder
  BY DEF CalendarInv
<1>1. pollNext = "fetch" /\ shift' = shift /\ shift \in {-60, 0, 60}
  BY <1>0 DEF Fetching, CalendarTypeOK
<1> DEFINE w == Wall(pollWakes)  D == DateOf(w)  M == MinuteOf(w)  C == Cardinality(handledBars)
           new == [at |-> Stamped(w), from |-> pollFrom, n |-> C, raised |-> raised]
<1>2. w \in Nat
  BY <1>0, <1>1, WallDates DEF CalendarTypeOK
<1>3. D \in Nat /\ M \in Nat /\ M < 1440
  BY <1>2, DateParts
<1>4. handledBars' = handledBars \cup {new}
  BY DEF Given
<1>5. /\ new.at.date = D /\ new.at.minute = M /\ new.from = pollFrom /\ new.n = C
      /\ new.raised = raised
  BY DEF Stamped
<1>6. IsWeekday(D) /\ (M < 964 => shift = -60 /\ ~IsWeekday(pollFrom) /\ pollFrom <= 6)
  BY <1>0, <1>1, CalendarNumbers DEF PollInv
<1>7. /\ \A b \in handledBars : b.at.minute >= 965 /\ ~b.raised => b.at.date < D
      /\ \A b \in handledBars : b.at.date \in Nat /\ b.n \in Nat /\ b.n < C
      /\ C \in Nat /\ IsFiniteSet(handledBars)
  BY <1>0, CalendarNumbers, FS_CardinalityType DEF PollInv, CalendarTypeOK, HandledInOrder
<1>8. pollFrom \in Nat /\ M \in 0..(Day - 1)
  BY <1>0, <1>3, CalendarNumbers DEF CalendarTypeOK
<1> HIDE DEF new, w, D, M
<1>9. HandledInOrder'
  <2>1. new \notin handledBars
    BY <1>5, <1>7
  <2>2. IsFiniteSet(handledBars') /\ Cardinality(handledBars') = C + 1
    BY <2>1, <1>4, <1>7, FS_AddElement
  <2> HIDE DEF C
  <2>3. ASSUME NEW b \in handledBars' PROVE b.n < C + 1
    BY <1>4, <1>5, <1>7
  <2> QED BY <2>2, <2>3 DEF HandledInOrder
<1> HIDE DEF C
<1>10. ASSUME NEW b \in handledBars', NEW c \in handledBars', b.at.date = c.at.date,
              b.at.minute >= 965, c.at.minute >= 965, ~b.raised
       PROVE  c.n <= b.n
  <2>1. CASE b \in handledBars /\ c \in handledBars
    BY <2>1, <1>10, <1>0, CalendarNumbers DEF PollInv, HandledUntilDone
  <2>2. CASE b \in handledBars /\ c = new
    <3>1. b.at.date < D /\ b.at.date = D
      BY <2>2, <1>5, <1>7, <1>10
    <3> QED BY <3>1, <1>3
  <2>3. CASE b = new
    BY <2>3, <1>4, <1>5, <1>7
  <2> QED BY <2>1, <2>2, <2>3, <1>4
<1>11. ASSUME NEW b \in handledBars'
       PROVE  /\ IsWeekday(b.at.date)
              /\ b.at.minute < 964 => shift = -60 /\ ~IsWeekday(b.from) /\ b.from <= 6
  <2>1. CASE b \in handledBars
    BY <2>1, <1>0, CalendarNumbers DEF PollInv, HandledUntilDone
  <2>2. CASE b = new
    BY <2>2, <1>5, <1>6
  <2> QED BY <2>1, <2>2, <1>4
<1>12. HandledUntilDone'
  <2>1. PollTime = 965 /\ PollTime - 1 = 964 /\ ChangeDate = 6
    BY CalendarNumbers
  <2> QED BY <2>1, <1>1, <1>10, <1>11 DEF HandledUntilDone
<1>13. \A b \in handledBars' :
         /\ b.at.date \in Nat /\ b.at.minute \in 0..(Day - 1)
         /\ b.from \in Nat /\ b.n \in Nat /\ b.raised \in BOOLEAN
  BY <1>0, <1>3, <1>4, <1>5, <1>7, <1>8 DEF CalendarTypeOK
<1>14. \A b \in handledBars' : b \in handledBars \/
         (b.raised = raised /\ b.at.date = D /\ b.at.minute = M)
  BY <1>4, <1>5
<1> QED BY <1>6, <1>9, <1>12, <1>13, <1>14 DEF w, D, M

\* A bar is handled, and the poll sleeps for the next trading day.
LEMMA PollHandlesKeeps ==
  ASSUME CalendarInv, PollHandles
  PROVE  PollInv' /\ pollWakes' \in Nat
<1>0. CalendarTypeOK /\ PollInv
  BY DEF CalendarInv
<1>1. pollNext' = "look" /\ shift' = shift /\ Fetching /\ Given(FALSE)
  BY DEF PollHandles, Fetching
<1>2. PICK t : t = pollWakes
  OBVIOUS
<1>3. PICK u : u = pollWakes'
  OBVIOUS
<1>4. shift \in {-60, 0, 60} /\ t \in Nat
  BY <1>0, <1>2 DEF CalendarTypeOK
<1> DEFINE w == Wall(t)  D == DateOf(w)  M == MinuteOf(w)  E == DateOf(Wall(u))
<1>5. w \in Nat
  BY <1>4, WallDates
<1>6. D \in Nat /\ M \in Nat
  BY <1>5, DateParts
<1>7. /\ HandledUntilDone' /\ IsWeekday(D)
      /\ \A b \in handledBars' : b.at.date \in Nat
      /\ \A b \in handledBars' : b \in handledBars \/ (b.at.date = D /\ b.at.minute = M)
  BY <1>1, <1>2, BarGiven
<1> DEFINE d == NextDay(w, 965)
<1>8. u \in SleptUntil(t, d * 1440 + 965)
  <2>1. NextAfter(w) = d * 1440 + 965
    BY CalendarNumbers DEF NextAfter, NextDay
  <2>2. u \in SleptUntil(t, NextAfter(w))
    BY <1>2, <1>3 DEF PollHandles
  <2> QED BY <2>1, <2>2
<1>9. /\ d \in Nat /\ IsWeekday(d) /\ D <= d /\ Wall(t) < d * 1440 + 965
      /\ IsWeekday(D) /\ M >= 965 => D < d
  BY <1>5, NextDayIsFirst
<1> HIDE DEF d
<1>10. u \in Nat /\ E = d
  BY <1>4, <1>8, <1>9, SleepEnds
<1>11. DateOf(Wall(pollWakes)) = D /\ DateOf(Wall(pollWakes))' = E
  BY <1>1, <1>2, <1>3 DEF Wall, DateOf
<1> HIDE DEF w, D, M, E
\* Old bars of days that were over, and the new one if its day is.
<1>12. \A b \in handledBars' : b.at.minute >= 965 /\ ~b.raised => b.at.date < E
  <2> SUFFICES ASSUME NEW b \in handledBars', b.at.minute >= 965, ~b.raised PROVE b.at.date < E
    OBVIOUS
  <2>1. CASE b \in handledBars
    <3>1. b.at.date < D /\ b.at.date \in Nat
      BY <2>1, <1>0, <1>7, <1>11, CalendarNumbers DEF PollInv
    <3> QED BY <3>1, <1>6, <1>9, <1>10
  <2>2. CASE b.at.date = D /\ b.at.minute = M
    BY <2>2, <1>6, <1>7, <1>9, <1>10
  <2> QED BY <2>1, <2>2, <1>7
<1>13. PollInv'
  BY <1>1, <1>7, <1>11, <1>12, CalendarNumbers DEF PollInv
<1> QED BY <1>3, <1>10, <1>13

\* The handling raises after the strategy had the bar: the poll wakes a minute later.
LEMMA PollRaisesKeeps ==
  ASSUME CalendarInv, PollRaises
  PROVE  PollInv' /\ pollWakes' \in Nat
<1>0. CalendarTypeOK /\ PollInv
  BY DEF CalendarInv
<1>1. /\ pollNext' = "look" /\ shift' = shift /\ Fetching /\ Given(TRUE)
      /\ pollWakes' = pollWakes + 1
  BY DEF PollRaises, Fetching
<1>2. PICK t : t = pollWakes
  OBVIOUS
<1>3. PICK u : u = pollWakes'
  OBVIOUS
<1>4. shift \in {-60, 0, 60} /\ t \in Nat /\ u \in Nat /\ t <= u
  BY <1>0, <1>1, <1>2, <1>3 DEF CalendarTypeOK
<1> DEFINE D == DateOf(Wall(t))  E == DateOf(Wall(u))
<1>5. D <= E /\ Wall(t) \in Nat /\ Wall(u) \in Nat
  BY <1>4, WallDates
<1>6. D \in Nat /\ E \in Nat
  BY <1>5, DateParts
<1>7. DateOf(Wall(pollWakes)) = D /\ DateOf(Wall(pollWakes))' = E
  BY <1>1, <1>2, <1>3 DEF Wall, DateOf
<1>8. /\ HandledUntilDone'
      /\ \A b \in handledBars' : b \in handledBars \/ b.raised
  BY <1>1, BarGiven
<1> HIDE DEF D, E
<1>9. \A b \in handledBars' : b.at.minute >= PollTime /\ ~b.raised => b.at.date < E
  <2> SUFFICES ASSUME NEW b \in handledBars, b.at.minute >= PollTime, ~b.raised PROVE b.at.date < E
    BY <1>8
  <2>1. b.at.date < D /\ b.at.date \in Nat
    BY <1>0, <1>7 DEF PollInv, CalendarTypeOK
  <2> QED BY <2>1, <1>5, <1>6
<1> QED BY <1>1, <1>3, <1>4, <1>7, <1>8, <1>9 DEF PollInv

\* Nothing is fetched: the poll wakes later.
LEMMA PollFailsKeeps ==
  ASSUME CalendarInv, PollFails
  PROVE  PollInv' /\ pollWakes' \in Nat
<1>0. CalendarTypeOK /\ PollInv
  BY DEF CalendarInv
<1>1. pollNext' = "look" /\ UNCHANGED <<shift, handledBars>>
  BY DEF PollFails, Fetching
<1>2. PICK t : t = pollWakes
  OBVIOUS
<1>3. PICK u : u = pollWakes'
  OBVIOUS
<1>4. shift \in {-60, 0, 60} /\ t \in Nat /\ u \in Nat /\ t <= u
  BY <1>0, <1>2, <1>3, OutagesAssumption DEF CalendarTypeOK, PollFails
<1> DEFINE D == DateOf(Wall(t))  E == DateOf(Wall(u))
<1>5. D <= E /\ Wall(t) \in Nat /\ Wall(u) \in Nat
  BY <1>4, WallDates
<1>6. D \in Nat /\ E \in Nat
  BY <1>5, DateParts
<1>7. DateOf(Wall(pollWakes)) = D /\ DateOf(Wall(pollWakes))' = E
  BY <1>1, <1>2, <1>3 DEF Wall, DateOf
<1> HIDE DEF D, E
<1>8. \A b \in handledBars' : b.at.minute >= PollTime /\ ~b.raised => b.at.date < E
  <2> SUFFICES ASSUME NEW b \in handledBars, b.at.minute >= PollTime, ~b.raised PROVE b.at.date < E
    BY <1>1
  <2>1. b.at.date < D /\ b.at.date \in Nat
    BY <1>0, <1>7 DEF PollInv, CalendarTypeOK
  <2> QED BY <2>1, <1>5, <1>6
<1> QED BY <1>0, <1>1, <1>3, <1>4, <1>7, <1>8 DEF PollInv, HandledUntilDone

\* A start: both tasks begin anew.
LEMMA StartKeeps ==
  ASSUME CalendarInv, Start405
  PROVE  FlattenInv' /\ PollInv' /\ flattenWakes' \in Nat
<1>0. CalendarTypeOK
  BY DEF CalendarInv
<1>1. PICK t \in StartTimes : t > now /\ Begins(t)
  BY DEF Start405
<1>2. /\ life' = t /\ now' = t /\ flattened' = {} /\ handledBars' = {} /\ pollNext' = "look"
      /\ flattenFrom' = DateOf(Wall(t)) /\ shift' = shift
  BY <1>1 DEF Begins, FlattenSleeps, Start405
<1>3. PICK u : u = flattenWakes'
  OBVIOUS
<1>4. shift \in {-60, 0, 60} /\ t \in Nat
  BY <1>0, StartTimesAssumption DEF CalendarTypeOK
<1> DEFINE w == Wall(t)  D == DateOf(w)  E == DateOf(Wall(u))  N == MinuteOf(Wall(u))
<1>5. /\ u \in Nat /\ t < u /\ E = NextDay(w, 950)
      /\ \/ N \in {949, 950}
         \/ N \in {950 + shift - 1, 950 + shift} /\ D <= 6 /\ 6 < E
  BY <1>1, <1>3, <1>4, FlattenSleepEnds DEF Begins, FlattenSleeps
<1>6. w \in Nat
  BY <1>4, WallDates
<1>7. /\ NextDay(w, 950) \in Nat /\ IsWeekday(NextDay(w, 950))
      /\ \A e \in Nat : IsWeekday(e) /\ w < e * 1440 + 950 => NextDay(w, 950) <= e
  BY <1>6, NextDayIsFirst
<1>8. FlattenDate' = E /\ MinuteOf(Wall(flattenWakes))' = N /\ Wall(life)' = w
  BY <1>2, <1>3 DEF FlattenDate, Wall, DateOf, MinuteOf
<1>9. flattenFrom' = D
  BY <1>2
<1> HIDE DEF w, D, E, N
<1>10. ASSUME NEW d \in Nat, IsWeekday(d), w < d * 1440 + 950, d < E PROVE FALSE
  BY <1>5, <1>7, <1>10
<1>11. \A d \in Nat : IsWeekday(d) /\ Wall(life)' < d * 1440 + 950 /\ d < E =>
         \E f \in flattened' : f.at.date = d
  BY <1>8, <1>10
<1>12. now' <= flattenWakes'
  BY <1>2, <1>3, <1>4, <1>5
<1>13. FlattenInv'
  <2>1. \/ N \in {949, 950}
        \/ N \in {950 + shift' - 1, 950 + shift'} /\ flattenFrom' <= 6 /\ 6 < E
    BY <1>2, <1>5, <1>9
  <2> QED BY <2>1, <1>2, <1>5, <1>7, <1>8, <1>11, <1>12, CalendarNumbers DEF FlattenInv
<1>14. PollInv'
  BY <1>2 DEF PollInv, HandledUntilDone
<1> QED BY <1>3, <1>5, <1>13, <1>14

\* Every step keeps the invariant.
LEMMA NextCalendarInv == CalendarInv /\ [CalendarNext]_calendarVars => CalendarInv'
<1> SUFFICES ASSUME CalendarInv, [CalendarNext]_calendarVars PROVE CalendarInv'
  OBVIOUS
<1>0. CalendarTypeOK /\ HandledInOrder /\ FlattenInv /\ PollInv
  BY DEF CalendarInv
<1>1. CASE FlattenRuns
  BY <1>1, FlattenRunsKeeps
\* What is said of the date of a waking instant is typed.
<1>d. DateOf(Wall(pollWakes)) \in Nat /\ pollWakes \in Nat
  <2>1. shift \in {-60, 0, 60} /\ pollWakes \in Nat
    BY <1>0 DEF CalendarTypeOK
  <2>2. Wall(pollWakes) \in Nat
    BY <2>1, WallDates
  <2> QED BY <2>1, <2>2, DateParts
<1>2. CASE PollLooks
  <2>1. FlattenInv' /\ PollInv'
    BY <1>2, PollKeepsFlatten, PollLooksKeeps
  <2>2. pollWakes' \in Nat
    BY <1>2, PollLooksKeeps
  <2>3. /\ pollNext' = "fetch" /\ pollFrom' = DateOf(Wall(pollWakes)) /\ now' = pollWakes
        /\ UNCHANGED <<shift, life, flattenWakes, flattenFrom, flattened, handledBars>>
    BY <1>2 DEF PollLooks, flattenVars
  <2>4. CalendarTypeOK'
    BY <2>2, <2>3, <1>0, <1>d DEF CalendarTypeOK
  <2> QED BY <2>1, <2>3, <2>4, <1>0 DEF CalendarInv, HandledInOrder
<1>3. CASE PollHandles \/ PollRaises
  <2>1. FlattenInv' /\ PollInv' /\ pollWakes' \in Nat
    BY <1>3, PollKeepsFlatten, PollHandlesKeeps, PollRaisesKeeps
  <2>2. /\ pollNext' = "look" /\ pollFrom' = DateOf(Wall(pollWakes)) /\ now' = pollWakes
        /\ UNCHANGED <<shift, life, flattenWakes, flattenFrom, flattened>>
        /\ Fetching /\ \E raised \in BOOLEAN : Given(raised)
    BY <1>3 DEF PollHandles, PollRaises, Fetching, flattenVars
  <2>3. /\ HandledInOrder'
        /\ \A b \in handledBars' :
             /\ b.at.date \in Nat /\ b.at.minute \in 0..(Day - 1)
             /\ b.from \in Nat /\ b.n \in Nat /\ b.raised \in BOOLEAN
    BY <2>2, BarGiven
  <2>4. CalendarTypeOK'
    BY <2>1, <2>2, <2>3, <1>0, <1>d DEF CalendarTypeOK
  <2> QED BY <2>1, <2>3, <2>4 DEF CalendarInv
<1>4. CASE PollFails
  <2>1. FlattenInv' /\ PollInv' /\ pollWakes' \in Nat
    BY <1>4, PollKeepsFlatten, PollFailsKeeps
  <2>2. /\ pollNext' = "look" /\ pollFrom' = DateOf(Wall(pollWakes)) /\ now' = pollWakes
        /\ UNCHANGED <<shift, life, flattenWakes, flattenFrom, flattened, handledBars>>
    BY <1>4 DEF PollFails, Fetching, flattenVars
  <2>3. CalendarTypeOK'
    BY <2>1, <2>2, <1>0, <1>d DEF CalendarTypeOK
  <2> QED BY <2>1, <2>2, <2>3, <1>0 DEF CalendarInv, HandledInOrder
<1>5. CASE Start405
  <2>1. FlattenInv' /\ PollInv' /\ flattenWakes' \in Nat
    BY <1>5, StartKeeps
  <2>2. PICK t \in StartTimes : Begins(t)
    BY <1>5 DEF Start405
  <2>3. /\ life' = t /\ now' = t /\ flattened' = {} /\ handledBars' = {} /\ pollNext' = "look"
        /\ flattenFrom' = DateOf(Wall(t)) /\ pollFrom' = DateOf(Wall(t)) /\ pollWakes' = t
        /\ shift' = shift /\ t \in Nat
    BY <2>2, <1>5, StartTimesAssumption DEF Begins, FlattenSleeps, Start405
  <2>4. DateOf(Wall(t)) \in Nat
    <3>1. Wall(t) \in Nat
      BY <2>3, <1>0, WallDates DEF CalendarTypeOK
    <3> QED BY <3>1, DateParts
  <2>5. CalendarTypeOK'
    BY <2>1, <2>3, <2>4, <1>0 DEF CalendarTypeOK
  <2> QED BY <2>1, <2>3, <2>5, FS_EmptySet DEF CalendarInv, HandledInOrder
<1>6. CASE UNCHANGED calendarVars
  <2>1. UNCHANGED <<shift, now, life, flattenWakes, flattenFrom, flattened, pollWakes, pollFrom,
                    pollNext, handledBars>>
    BY <1>6 DEF calendarVars, flattenVars, pollVars
  <2>2. /\ FlattenDate' = FlattenDate /\ Wall(life)' = Wall(life)
        /\ MinuteOf(Wall(flattenWakes))' = MinuteOf(Wall(flattenWakes))
        /\ DateOf(Wall(pollWakes))' = DateOf(Wall(pollWakes))
        /\ MinuteOf(Wall(pollWakes))' = MinuteOf(Wall(pollWakes))
    BY <2>1 DEF FlattenDate, Wall, DateOf, MinuteOf
  <2>3. FlattenInv'
    BY <2>1, <2>2, <1>0 DEF FlattenInv
  <2>4. PollInv'
    BY <2>1, <2>2, <1>0 DEF PollInv, HandledUntilDone
  <2>5. CalendarTypeOK'
    BY <2>1, <1>0 DEF CalendarTypeOK
  <2> QED BY <2>1, <2>3, <2>4, <2>5, <1>0 DEF CalendarInv, HandledInOrder
<1> QED BY <1>1, <1>2, <1>3, <1>4, <1>5, <1>6 DEF CalendarNext

LEMMA InitCalendarInv == CalendarInit => CalendarInv
<1> SUFFICES ASSUME CalendarInit PROVE CalendarInv
  OBVIOUS
<1>1. /\ shift \in {-60, 0, 60} /\ now = 0 /\ life = 0 /\ flattened = {} /\ handledBars = {}
      /\ flattenWakes = 0 /\ pollWakes = 0 /\ flattenFrom = 0 /\ pollFrom = 0 /\ pollNext = "none"
  BY ShiftsAssumption DEF CalendarInit
<1>2. CalendarTypeOK
  BY <1>1 DEF CalendarTypeOK
<1>3. FlattenInv /\ PollInv
  BY <1>1 DEF FlattenInv, PollInv, HandledUntilDone
<1> QED BY <1>1, <1>2, <1>3, FS_EmptySet DEF CalendarInv, HandledInOrder

LEMMA CalendarInvHolds == CalendarSpec => []CalendarInv
  BY InitCalendarInv, NextCalendarInv, PTL DEF CalendarSpec

-----------------------------------------------------------------------------
\* Every variable has its type.
THEOREM CalendarTypeCorrect == CalendarSpec => []CalendarTypeOK
<1>1. CalendarInv => CalendarTypeOK
  BY DEF CalendarInv
<1> QED BY <1>1, CalendarInvHolds, PTL

\* Whenever the platform is started, however long a fetch is out and however the clock
\* is changed: a weekday it runs through has one flatten, in time but for the first one
\* after the clock was set forward.
THEOREM FlattensInTime == CalendarSpec => []FlattenedInTime
<1>1. CalendarInv => FlattenedInTime
  <2> SUFFICES ASSUME CalendarInv PROVE FlattenedInTime
    OBVIOUS
  <2>0. CalendarTypeOK /\ FlattenInv
    BY DEF CalendarInv
  <2>1. ASSUME NEW d \in 0..LastDate, IsWeekday(d), UpAt(d, EodTime)
        PROVE  Cardinality({f \in flattened : f.at.date = d}) = 1
    <3>1. pollNext # "none" /\ Wall(life) < d * Day + EodTime /\ d < DateOf(Wall(now)) /\ d \in Nat
      BY <2>1 DEF UpAt
    <3>2. now \in Nat /\ flattenWakes \in Nat /\ now <= flattenWakes /\ shift \in {-60, 0, 60}
      BY <2>0, <3>1 DEF CalendarTypeOK, FlattenInv
    <3>3. DateOf(Wall(now)) <= FlattenDate /\ Wall(now) \in Nat /\ Wall(flattenWakes) \in Nat
      BY <3>2, WallDates DEF FlattenDate
    <3>4. DateOf(Wall(now)) \in Nat /\ FlattenDate \in Nat
      BY <3>3, DateParts DEF FlattenDate
    <3>5. d < FlattenDate
      BY <3>1, <3>3, <3>4
    <3>6. PICK f \in flattened : f.at.date = d
      BY <3>1, <3>5, <2>0, <2>1 DEF FlattenInv
    <3>7. \A g \in flattened : g.at.date = d => g = f
      BY <3>6, <2>0 DEF FlattenInv
    <3>8. {g \in flattened : g.at.date = d} = {f}
      BY <3>6, <3>7
    <3> QED BY <3>8, FS_Singleton
  <2>2. \A f \in flattened : f.at.minute >= MarketClose =>
          shift = 60 /\ f.from <= ChangeDate /\ ChangeDate < f.at.date
    BY <2>0 DEF FlattenInv
  <2>3. \A f \in flattened : IsWeekday(f.at.date)
    BY <2>0 DEF FlattenInv
  <2> QED BY <2>1, <2>2, <2>3 DEF FlattenedInTime
<1> QED BY <1>1, CalendarInvHolds, PTL

\* And after its last trade a weekday's bar is handled until one handling does not raise
\* and not again, never on a weekend, and before that only after a sleep that was short.
THEOREM HandlesUntilDone == CalendarSpec => []HandledUntilDone
<1>1. CalendarInv => HandledUntilDone
  BY DEF CalendarInv, PollInv
<1> QED BY <1>1, CalendarInvHolds, PTL

=============================================================================
