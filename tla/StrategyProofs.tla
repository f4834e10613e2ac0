--------------------------- MODULE StrategyProofs ---------------------------
(***************************************************************************)
(* Theorems about the strategies that trade within the day and about the   *)
(* simulations, for any symbols, prices, limits, sessions and bounds:      *)
(* GapFade, FuturesSession under the platform, FuturesBacktest and         *)
(* DailyBacktest.                                                          *)
(***************************************************************************)
EXTENDS GapFade, FuturesSession, FuturesBacktest, DailyBacktest, SumTheorems,
        SequenceTheorems, TLAPS

-----------------------------------------------------------------------------
(* Strategy 007: GapFade *)

\* Only a running platform gives bars, and a new strategy has seen none.
Asleep ==
  ~alive => \A s \in Stocks : task[s] = "asleep" /\ session[s] = None

\* The bar a task holds is the newest its stream has given, and no stream is ahead.
InHand ==
  \A s \in Stocks : shown[s].day <= clock.day /\ (task[s] = "vix" => bar[s] = shown[s])

\* The VIX in memory is of the session marked or of one since.
VixMarked == vixDate <= vix.of /\ vix.of <= clock.day

\* What is remembered of a symbol's sessions: the last close is the running session's,
\* the previous one is older, and without a session there is neither.
SessionsInOrder ==
  \A s \in Stocks :
    /\ session[s] = None => lastClose[s] = None /\ prevClose[s] = None
    /\ session[s] # None => lastClose[s] = session[s]
    /\ session[s] <= shown[s].day
    /\ prevClose[s] # None => prevClose[s] < session[s]

\* An entry's session is the running one or over.  If it runs, its opening bar is
\* marked, or the process died since and knows no previous close.
EntriesBehind ==
  \A s \in Stocks : \A i \in DOMAIN entries[s] :
    /\ entries[s][i].day <= shown[s].day
    /\ session[s] # None => entries[s][i].day <= session[s]
    /\ session[s] = entries[s][i].day => evaluated[s] \/ prevClose[s] = None

\* The inductive invariant.
GapInv == /\ GapTypeOK
        /\ Asleep
        /\ InHand
        /\ VixMarked
        /\ SessionsInOrder
        /\ EntriesBehind
        /\ OneEntryPerSession
        /\ JudgedByFreshVix
        /\ BelievesOwnEntry

-----------------------------------------------------------------------------
\* The initial states satisfy the invariant.
LEMMA InitGapInv == GapInit => GapInv
  <1> SUFFICES ASSUME GapInit PROVE GapInv
    OBVIOUS
  <1> USE StocksAssumption, GapBoundsAssumption
  <1>1. GapTypeOK
    <2>1. \A s \in Stocks : entries[s] = <<>>
      BY DEF GapInit
    <2>2. entries \in [Stocks -> Seq(Entry)]
      BY <2>1, EmptySeq DEF GapInit
    <2>3. clock \in Stamp
      BY DEF GapInit, Stamp, None, Opening, Stopping
    <2> QED
      BY <2>2, <2>3 DEF GapInit, Blank, GapTypeOK, TaskStates, None
  <1>2. SessionsInOrder
    BY DEF GapInit, Blank, SessionsInOrder, None
  <1>3. \A s \in Stocks : DOMAIN entries[s] = {}
    BY DEF GapInit
  <1>4. EntriesBehind /\ OneEntryPerSession /\ JudgedByFreshVix
    BY <1>3 DEF EntriesBehind, OneEntryPerSession, JudgedByFreshVix
  <1>5. Asleep /\ InHand /\ VixMarked /\ BelievesOwnEntry
    BY DEF GapInit, Blank, Asleep, InHand, VixMarked, BelievesOwnEntry, None
  <1> QED BY <1>1, <1>2, <1>4, <1>5 DEF GapInv

\* Entries have their type.
LEMMA EntriesTyped ==
  ASSUME GapTypeOK, NEW s \in Stocks, NEW i \in DOMAIN entries[s]
  PROVE  entries[s][i].day \in Nat
  <1>1. entries[s] \in Seq(Entry)
    BY DEF GapTypeOK
  <1>2. i \in 1..Len(entries[s])
    BY <1>1
  <1>3. entries[s][i] \in Entry
    BY <1>1, <1>2, ElementOfSeq
  <1> QED BY <1>3 DEF Entry

\* What on_bar keeps, given a bar that is not older than the stream's last one and a
\* VIX that is not older.
LEMMA OnBarKeeps ==
  ASSUME GapInv,
         NEW s \in Stocks, NEW b \in Stamp, NEW level \in [of : Nat, allows : BOOLEAN],
         b.day <= level.of, level.of <= clock.day,
         shown[s].day <= b.day,
         shown' = [shown EXCEPT ![s] = b],
         OnBar(s, b, level)
  PROVE  /\ session' \in [Stocks -> Nat] /\ lastClose' \in [Stocks -> Nat]
         /\ prevClose' \in [Stocks -> Nat] /\ evaluated' \in [Stocks -> BOOLEAN]
         /\ short' \in [Stocks -> BOOLEAN] /\ entries' \in [Stocks -> Seq(Entry)]
         /\ SessionsInOrder'
         /\ EntriesBehind'
         /\ OneEntryPerSession'
         /\ JudgedByFreshVix'
         /\ BelievesOwnEntry'
  <1> USE DEF None
  <1>0. /\ GapTypeOK /\ SessionsInOrder /\ EntriesBehind /\ OneEntryPerSession
        /\ JudgedByFreshVix /\ BelievesOwnEntry
    BY DEF GapInv
  <1>b. b.day \in Nat /\ b.day # 0 /\ level.of \in Nat /\ clock.day \in Nat
    BY <1>0 DEF Stamp, GapTypeOK
  <1>t. /\ session \in [Stocks -> Nat] /\ lastClose \in [Stocks -> Nat]
        /\ prevClose \in [Stocks -> Nat] /\ evaluated \in [Stocks -> BOOLEAN]
        /\ short \in [Stocks -> BOOLEAN] /\ entries \in [Stocks -> Seq(Entry)]
        /\ shown \in [Stocks -> Stamp]
    BY <1>0 DEF GapTypeOK
  <1>1. /\ session' \in [Stocks -> Nat] /\ lastClose' \in [Stocks -> Nat]
        /\ prevClose' \in [Stocks -> Nat] /\ evaluated' \in [Stocks -> BOOLEAN]
    BY <1>t, <1>b DEF OnBar, Sessions, FirstOpeningBar, NewSession
  <1>2. /\ session'[s] = b.day /\ lastClose'[s] = b.day
        /\ shown'[s] = b
        /\ \A o \in Stocks \ {s} : /\ session'[o] = session[o] /\ lastClose'[o] = lastClose[o]
                                   /\ prevClose'[o] = prevClose[o] /\ shown'[o] = shown[o]
                                   /\ evaluated'[o] = evaluated[o]
    BY <1>t DEF OnBar, Sessions
  <1>3. prevClose'[s] = IF session[s] # b.day /\ lastClose[s] # 0 THEN lastClose[s] ELSE prevClose[s]
    BY <1>t DEF OnBar, Sessions, NewSession
  <1>4. evaluated'[s] = (FirstOpeningBar(s, b) \/ (evaluated[s] /\ session[s] = b.day))
    BY <1>t DEF OnBar, NewSession
  <1>5. SessionsInOrder'
    <2>1. prevClose'[s] # 0 => prevClose'[s] < b.day
      BY <1>0, <1>t, <1>b, <1>3 DEF SessionsInOrder, Stamp
    <2> QED BY <2>1, <1>0, <1>b, <1>1, <1>2 DEF SessionsInOrder
  \* An entry of this session leaves its mark, or no previous close.
  <1>6. ASSUME NEW i \in DOMAIN entries[s], entries[s][i].day = b.day
        PROVE  evaluated'[s] \/ prevClose'[s] = 0
    <2>1. entries[s][i].day <= shown[s].day
      BY <1>0 DEF EntriesBehind
    <2>2. CASE session[s] = 0
      BY <2>2, <1>0, <1>3 DEF SessionsInOrder
    <2>3. CASE session[s] # 0
      <3>1. session[s] = b.day
        BY <2>1, <2>3, <1>0, <1>6, <1>t, <1>b DEF SessionsInOrder, EntriesBehind, Stamp
      <3> QED BY <3>1, <1>0, <1>6, <1>3, <1>4, <1>t DEF EntriesBehind
    <2> QED BY <2>2, <2>3
  <1>7. CASE entries' = entries /\ short' = [short EXCEPT ![s] = StillShort(s, b) /\ ~TimeStop(s, b)]
    <2>1. short' \in [Stocks -> BOOLEAN]
      BY <1>7, <1>t DEF StillShort, TimeStop
    <2>2. EntriesBehind'
      <3> SUFFICES ASSUME NEW o \in Stocks, NEW i \in DOMAIN entries[o]
                   PROVE  /\ entries[o][i].day <= shown'[o].day
                          /\ session'[o] # 0 => entries[o][i].day <= session'[o]
                          /\ session'[o] = entries[o][i].day => evaluated'[o] \/ prevClose'[o] = 0
        BY <1>7 DEF EntriesBehind
      <3>0. entries[o][i].day \in Nat /\ shown[o].day \in Nat
        BY <1>0, <1>t, EntriesTyped DEF Stamp
      <3>1. CASE o = s
        <4>1. entries[s][i].day <= b.day
          BY <3>0, <3>1, <1>0, <1>b DEF EntriesBehind
        <4> QED BY <4>1, <3>1, <1>2, <1>6
      <3>2. CASE o # s
        BY <3>2, <1>0, <1>2 DEF EntriesBehind
      <3> QED BY <3>1, <3>2
    <2>3. OneEntryPerSession' /\ JudgedByFreshVix'
      BY <1>7, <1>0 DEF OneEntryPerSession, JudgedByFreshVix
    <2>4. BelievesOwnEntry'
      <3>1. \A o \in Stocks : short'[o] => short[o] /\ (o = s => session[s] = b.day)
        BY <1>7, <1>t DEF StillShort, NewSession
      <3> QED BY <3>1, <1>0, <1>2, <1>7, <1>b DEF BelievesOwnEntry
    <2> QED BY <2>1, <2>2, <2>3, <2>4, <1>1, <1>5, <1>7, <1>t
  <1>8. CASE /\ MayEnter(s, b, level)
             /\ short' = [short EXCEPT ![s] = TRUE]
             /\ entries' = [entries EXCEPT ![s] =
                              Append(@, [day |-> b.day, vix |-> level.of, prev |-> prevClose'[s],
                                         at |-> clock.day])]
    <2> DEFINE e == [day |-> b.day, vix |-> level.of, prev |-> prevClose'[s], at |-> clock.day]
    <2>1. /\ e \in Entry /\ e.day = b.day /\ e.prev = prevClose'[s]
          /\ e.vix \in Nat /\ b.day <= e.vix /\ (e.vix > b.day => e.at > b.day)
      BY <1>1, <1>b DEF Entry
    <2>2. FirstOpeningBar(s, b) /\ prevClose'[s] # 0 /\ prevClose'[s] < b.day
      BY <1>8, <1>5, <1>2 DEF MayEnter, SessionsInOrder
    <2> HIDE DEF e
    <2>3. entries[s] \in Seq(Entry) /\ entries'[s] = Append(entries[s], e)
      BY <1>8, <1>t DEF e
    <2>4. /\ entries'[s] \in Seq(Entry)
          /\ Len(entries'[s]) = Len(entries[s]) + 1
          /\ DOMAIN entries'[s] = 1..(Len(entries[s]) + 1)
          /\ DOMAIN entries[s] = 1..Len(entries[s])
          /\ entries'[s][Len(entries[s]) + 1] = e
          /\ \A i \in 1..Len(entries[s]) : entries'[s][i] = entries[s][i]
          /\ Len(entries[s]) \in Nat
      BY <2>1, <2>3, AppendProperties, LenProperties
    <2>5. \A o \in Stocks \ {s} : entries'[o] = entries[o] /\ short'[o] = short[o]
      BY <1>8, <1>t
    <2>6. entries' \in [Stocks -> Seq(Entry)] /\ short' \in [Stocks -> BOOLEAN]
      BY <2>1, <2>3, <1>8, <1>t, AppendProperties DEF e
    \* Every entry before is of an earlier session.
    <2>7. \A i \in DOMAIN entries[s] : entries[s][i].day \in Nat /\ entries[s][i].day < b.day
      <3> TAKE i \in DOMAIN entries[s]
      <3>1. entries[s][i].day \in Nat /\ shown[s].day \in Nat
        BY <1>0, <1>t, EntriesTyped DEF Stamp
      <3>2. entries[s][i].day <= shown[s].day
        BY <1>0 DEF EntriesBehind
      <3>3. entries[s][i].day # b.day
        <4> SUFFICES ASSUME entries[s][i].day = b.day PROVE FALSE
          OBVIOUS
        <4>1. CASE session[s] = 0
          BY <4>1, <2>2, <1>0, <1>3 DEF SessionsInOrder
        <4>2. CASE session[s] # 0
          <5>1. session[s] = b.day
            BY <3>1, <3>2, <4>2, <1>0, <1>t, <1>b DEF SessionsInOrder, EntriesBehind, Stamp
          <5> QED BY <5>1, <2>2, <1>0, <1>3 DEF EntriesBehind, FirstOpeningBar, NewSession
        <4> QED BY <4>1, <4>2
      <3> QED BY <3>1, <3>2, <3>3, <1>b
    <2>8. EntriesBehind'
      <3> SUFFICES ASSUME NEW o \in Stocks, NEW i \in DOMAIN entries'[o]
                   PROVE  /\ entries'[o][i].day <= shown'[o].day
                          /\ session'[o] # 0 => entries'[o][i].day <= session'[o]
                          /\ session'[o] = entries'[o][i].day => evaluated'[o] \/ prevClose'[o] = 0
        BY DEF EntriesBehind
      <3>1. CASE o # s
        BY <3>1, <2>5, <1>0, <1>2 DEF EntriesBehind
      <3>2. CASE o = s
        <4>1. entries'[s][i].day \in Nat /\ entries'[s][i].day <= b.day
          BY <3>2, <2>1, <2>4, <2>7, <1>b, SMTT(20)
        <4> QED BY <4>1, <3>2, <2>2, <1>2, <1>4
      <3> QED BY <3>1, <3>2
    <2>9. OneEntryPerSession'
      <3> SUFFICES ASSUME NEW o \in Stocks, NEW i \in DOMAIN entries'[o], NEW j \in DOMAIN entries'[o],
                          i < j
                   PROVE  entries'[o][i].day < entries'[o][j].day
        BY DEF OneEntryPerSession
      <3>1. CASE o # s
        BY <3>1, <2>5, <1>0 DEF OneEntryPerSession
      <3>2. CASE o = s /\ j = Len(entries[s]) + 1
        BY <3>2, <2>1, <2>4, <2>7
      <3>3. CASE o = s /\ j # Len(entries[s]) + 1
        BY <3>3, <2>4, <1>0, SMTT(20) DEF OneEntryPerSession
      <3> QED BY <3>1, <3>2, <3>3
    <2>10. JudgedByFreshVix'
      <3> SUFFICES ASSUME NEW o \in Stocks, NEW i \in DOMAIN entries'[o]
                   PROVE  /\ entries'[o][i].vix >= entries'[o][i].day
                          /\ entries'[o][i].vix > entries'[o][i].day => entries'[o][i].at > entries'[o][i].day
                          /\ entries'[o][i].prev < entries'[o][i].day
        BY DEF JudgedByFreshVix
      <3>1. CASE o # s
        BY <3>1, <2>5, <1>0 DEF JudgedByFreshVix
      <3>2. CASE o = s /\ i = Len(entries[s]) + 1
        BY <3>2, <2>1, <2>2, <2>4
      <3>3. CASE o = s /\ i # Len(entries[s]) + 1
        BY <3>3, <2>4, <1>0 DEF JudgedByFreshVix
      <3> QED BY <3>1, <3>2, <3>3
    <2>11. BelievesOwnEntry'
      <3>1. entries'[s] # <<>> /\ entries'[s][Len(entries'[s])].day = b.day
        BY <2>1, <2>4
      <3> QED BY <3>1, <2>5, <1>0, <1>2 DEF BelievesOwnEntry
    <2> QED BY <2>6, <2>8, <2>9, <2>10, <2>11, <1>1, <1>5
  <1> QED BY <1>7, <1>8 DEF OnBar

\* Every step keeps the invariant.
LEMMA NextGapInv == GapInv /\ [GapNext]_gapVars => GapInv'
  <1> SUFFICES ASSUME GapInv, [GapNext]_gapVars PROVE GapInv'
    OBVIOUS
  <1> USE StocksAssumption, GapBoundsAssumption
  <1> USE DEF None
  <1>0. GapTypeOK /\ Asleep /\ InHand /\ VixMarked
    BY DEF GapInv
  <1>s. Stamps \subseteq Stamp
    BY DEF Stamps, Stamp
  \* Steps that neither touch the memory nor the entries.
  <1>f. ASSUME UNCHANGED <<memory, entries, shown>>,
               clock' \in Stamp, alive' \in BOOLEAN, task' \in [Stocks -> TaskStates],
               bar' \in [Stocks -> Stamp], deaths' \in Nat, Asleep', InHand', VixMarked'
        PROVE  GapInv'
    BY <1>f DEF GapInv, GapTypeOK, SessionsInOrder, EntriesBehind, OneEntryPerSession,
                JudgedByFreshVix, BelievesOwnEntry, memory
  <1>1. CASE MarketMoves
    <2>1. clock' \in Stamp /\ clock.day \in Nat /\ clock.day <= clock'.day
      BY <1>0, <1>1 DEF MarketMoves, GapTypeOK, Stamp, Opening, Stopping
    <2>2. \A s \in Stocks : shown[s].day \in Nat
      BY <1>0 DEF GapTypeOK, Stamp
    <2>3. InHand'
      BY <2>1, <2>2, <1>0, <1>1 DEF MarketMoves, InHand, Stamp
    <2>4. VixMarked'
      BY <2>1, <1>0, <1>1 DEF MarketMoves, VixMarked, GapTypeOK, Stamp, memory
    <2> QED BY <2>1, <2>3, <2>4, <1>0, <1>1, <1>f DEF MarketMoves, GapTypeOK, Asleep, memory
  <1>2. CASE Start
    <2>1. GapTypeOK'
      BY <1>0, <1>2 DEF Start, GapTypeOK
    <2>2. \A s \in Stocks : session'[s] = 0
      BY <1>0, <1>2 DEF Start, Asleep
    <2>3. /\ SessionsInOrder' /\ EntriesBehind' /\ OneEntryPerSession' /\ JudgedByFreshVix'
          /\ VixMarked' /\ InHand' /\ Asleep'
      BY <1>2 DEF Start, GapInv, SessionsInOrder, EntriesBehind, OneEntryPerSession, JudgedByFreshVix,
                  VixMarked, InHand, Asleep
    <2> QED BY <2>1, <2>2, <2>3 DEF GapInv, BelievesOwnEntry
  <1>3. CASE Die
    <2>1. GapTypeOK'
      <3>1. vix' \in [of : Nat, allows : BOOLEAN] /\ vixDate' \in Nat /\ deaths' \in Nat
        BY <1>0, <1>3 DEF Die, GapTypeOK
      <3>2. /\ lastClose' \in [Stocks -> Nat] /\ prevClose' \in [Stocks -> Nat]
            /\ session' \in [Stocks -> Nat] /\ evaluated' \in [Stocks -> BOOLEAN]
            /\ short' \in [Stocks -> BOOLEAN] /\ task' \in [Stocks -> TaskStates]
        BY <1>3 DEF Die, TaskStates
      <3>3. UNCHANGED <<clock, bar, shown, entries>> /\ alive' \in BOOLEAN
        BY <1>3 DEF Die
      <3> QED BY <3>1, <3>2, <3>3, <1>0 DEF GapTypeOK
    <2>2. \A s \in Stocks : session'[s] = 0 /\ lastClose'[s] = 0 /\ prevClose'[s] = 0 /\ ~short'[s]
                            /\ task'[s] = "asleep"
      BY <1>3 DEF Die
    <2>3. SessionsInOrder'
      BY <2>1, <2>2 DEF SessionsInOrder, GapTypeOK, Stamp
    <2>4. EntriesBehind' /\ OneEntryPerSession' /\ JudgedByFreshVix'
      BY <2>2, <1>3 DEF Die, GapInv, EntriesBehind, OneEntryPerSession, JudgedByFreshVix
    <2>5. VixMarked' /\ InHand' /\ Asleep' /\ BelievesOwnEntry'
      <3>1. clock'.day \in Nat
        BY <2>1 DEF GapTypeOK, Stamp
      <3> QED BY <3>1, <2>2, <1>0, <1>3 DEF Die, VixMarked, InHand, Asleep, BelievesOwnEntry
    <2> QED BY <2>1, <2>3, <2>4, <2>5 DEF GapInv
  <1>4. ASSUME NEW s \in Stocks, Connect(s) PROVE GapInv'
    <2>1. task' \in [Stocks -> TaskStates]
      BY <1>0, <1>4 DEF Connect, GapTypeOK, TaskStates
    <2>2. Asleep' /\ InHand'
      BY <1>0, <1>4 DEF Connect, GapTypeOK, Asleep, InHand
    <2>3. VixMarked'
      BY <1>0, <1>4 DEF Connect, VixMarked, memory
    <2> QED BY <2>1, <2>2, <2>3, <1>0, <1>4, <1>f DEF Connect, GapTypeOK, memory
  <1>5. ASSUME NEW s \in Stocks, Disconnect(s) PROVE GapInv'
    <2>1. task' \in [Stocks -> TaskStates]
      BY <1>0, <1>5 DEF Disconnect, GapTypeOK, TaskStates
    <2>2. Asleep' /\ InHand'
      BY <1>0, <1>5 DEF Disconnect, GapTypeOK, Asleep, InHand, memory
    <2>3. VixMarked'
      BY <1>0, <1>5 DEF Disconnect, VixMarked, memory
    <2> QED BY <2>1, <2>2, <2>3, <1>0, <1>5, <1>f DEF Disconnect, GapTypeOK, memory
  <1>6. ASSUME NEW s \in Stocks, NEW b \in Stamps, AskVix(s, b) PROVE GapInv'
    <2>0. b \in Stamp /\ shown[s] \in Stamp /\ shown[s].day <= b.day
      BY <1>0, <1>6, <1>s DEF AskVix, Gives, UpTo, GapTypeOK, Stamp
    <2>1. GapTypeOK'
      BY <2>0, <1>0, <1>6 DEF AskVix, Gives, GapTypeOK, TaskStates, memory
    <2>2. \A o \in Stocks : shown[o].day <= shown'[o].day /\ shown[o].day \in Nat /\ shown'[o].day \in Nat
      <3>1. shown \in [Stocks -> Stamp] /\ shown' = [shown EXCEPT ![s] = b]
        BY <1>0, <1>6 DEF AskVix, Gives, GapTypeOK
      <3>2. \A o \in Stocks : shown'[o] = IF o = s THEN b ELSE shown[o]
        BY <3>1
      <3>3. \A o \in Stocks : shown[o].day \in Nat
        BY <3>1 DEF Stamp
      <3> QED BY <3>2, <3>3, <2>0 DEF Stamp
    <2>3. Asleep' /\ InHand' /\ VixMarked'
      <3>1. b.day <= clock.day
        BY <2>0, <1>0, <1>6 DEF AskVix, Gives, UpTo, GapTypeOK, Stamp
      <3> QED BY <3>1, <1>0, <1>6 DEF AskVix, Gives, GapTypeOK, Asleep, InHand, VixMarked, memory
    <2>4. OneEntryPerSession' /\ JudgedByFreshVix' /\ BelievesOwnEntry'
      BY <1>6 DEF AskVix, GapInv, OneEntryPerSession, JudgedByFreshVix, BelievesOwnEntry, memory
    <2>5. SessionsInOrder'
      <3>1. session \in [Stocks -> Nat] /\ SessionsInOrder /\ UNCHANGED memory
        BY <1>0, <1>6 DEF AskVix, GapInv, GapTypeOK
      <3>2. \A o \in Stocks : session[o] \in Nat /\ session[o] <= shown'[o].day
        BY <3>1, <2>2 DEF SessionsInOrder
      <3> QED BY <3>1, <3>2 DEF SessionsInOrder, memory
    <2>6. EntriesBehind'
      <3>1. \A o \in Stocks : \A i \in DOMAIN entries[o] : entries[o][i].day \in Nat
        BY <1>0, EntriesTyped
      <3> QED BY <3>1, <2>2, <1>6 DEF AskVix, GapInv, EntriesBehind, memory
    <2> QED BY <2>1, <2>3, <2>4, <2>5, <2>6 DEF GapInv
  <1>7. ASSUME NEW s \in Stocks, NEW b \in Stamps, BarHandled(s, b) PROVE GapInv'
    <2>0. /\ b \in Stamp /\ shown[s].day <= b.day /\ shown' = [shown EXCEPT ![s] = b]
          /\ vix \in [of : Nat, allows : BOOLEAN]
          /\ b.day <= vix.of /\ vix.of <= clock.day /\ OnBar(s, b, vix)
      BY <1>0, <1>7, <1>s DEF BarHandled, Gives, UpTo, GapTypeOK, Stamp, VixMarked
    <2>1. /\ session' \in [Stocks -> Nat] /\ lastClose' \in [Stocks -> Nat]
          /\ prevClose' \in [Stocks -> Nat] /\ evaluated' \in [Stocks -> BOOLEAN]
          /\ short' \in [Stocks -> BOOLEAN] /\ entries' \in [Stocks -> Seq(Entry)]
          /\ SessionsInOrder' /\ EntriesBehind' /\ OneEntryPerSession' /\ JudgedByFreshVix'
          /\ BelievesOwnEntry'
      BY <2>0, OnBarKeeps
    <2>2. GapTypeOK'
      BY <2>0, <2>1, <1>0, <1>7 DEF BarHandled, GapTypeOK
    <2>3. Asleep' /\ InHand' /\ VixMarked'
      <3>1. alive
        BY <1>0, <1>7 DEF BarHandled, Gives, Asleep
      <3>2. b.day <= clock.day
        BY <2>0, <1>0, <1>7 DEF BarHandled, Gives, UpTo, GapTypeOK, Stamp
      <3> QED BY <3>1, <3>2, <2>0, <1>0, <1>7 DEF BarHandled, Gives, GapTypeOK, Asleep, InHand, VixMarked
    <2> QED BY <2>1, <2>2, <2>3 DEF GapInv
  <1>8. ASSUME NEW s \in Stocks, NEW allows \in BOOLEAN, VixAnswered(s, allows) PROVE GapInv'
    <2>0. /\ bar[s] \in Stamp /\ shown[s] = bar[s] /\ bar[s].day \in Nat
          /\ shown \in [Stocks -> Stamp]
      BY <1>0, <1>8 DEF VixAnswered, InHand, GapTypeOK, Stamp
    <2>1. shown' = [shown EXCEPT ![s] = bar[s]] /\ shown[s].day <= bar[s].day
      BY <2>0, <1>8 DEF VixAnswered
    <2>2. /\ vix' \in [of : Nat, allows : BOOLEAN]
          /\ bar[s].day <= vix'.of /\ vix'.of <= clock.day /\ OnBar(s, bar[s], vix')
      <3>1. bar[s].day <= clock.day /\ clock.day \in Nat
        BY <2>0, <1>0 DEF InHand, GapTypeOK, Stamp
      <3> QED BY <3>1, <2>0, <1>8 DEF VixAnswered
    <2>3. /\ session' \in [Stocks -> Nat] /\ lastClose' \in [Stocks -> Nat]
          /\ prevClose' \in [Stocks -> Nat] /\ evaluated' \in [Stocks -> BOOLEAN]
          /\ short' \in [Stocks -> BOOLEAN] /\ entries' \in [Stocks -> Seq(Entry)]
          /\ SessionsInOrder' /\ EntriesBehind' /\ OneEntryPerSession' /\ JudgedByFreshVix'
          /\ BelievesOwnEntry'
      BY <2>0, <2>1, <2>2, OnBarKeeps
    <2>4. GapTypeOK'
      BY <2>0, <2>2, <2>3, <1>0, <1>8 DEF VixAnswered, GapTypeOK, TaskStates
    <2>5. Asleep' /\ InHand' /\ VixMarked'
      <3>1. alive
        BY <1>0, <1>8 DEF VixAnswered, Asleep
      <3> QED BY <3>1, <2>0, <2>2, <1>0, <1>8 DEF VixAnswered, GapTypeOK, Asleep, InHand, VixMarked
    <2> QED BY <2>3, <2>4, <2>5 DEF GapInv
  <1>9. CASE UNCHANGED gapVars
    BY <1>0, <1>9, <1>f DEF gapVars, GapTypeOK, Asleep, InHand, VixMarked, memory
  <1> QED BY <1>1, <1>2, <1>3, <1>4, <1>5, <1>6, <1>7, <1>8, <1>9 DEF GapNext

LEMMA GapInvHolds == GapSpec => []GapInv
  BY InitGapInv, NextGapInv, PTL DEF GapSpec

-----------------------------------------------------------------------------
\* Every variable has its type.
THEOREM GapTypeCorrect == GapSpec => []GapTypeOK
  <1>1. GapInv => GapTypeOK
    BY DEF GapInv
  <1> QED BY <1>1, GapInvHolds, PTL

\* A symbol is traded at most once in a session, whatever bars are repeated, whenever
\* connections end and the process dies, and however many tasks await the VIX.
THEOREM EntersOnce == GapSpec => []OneEntryPerSession
  <1>1. GapInv => OneEntryPerSession
    BY DEF GapInv
  <1> QED BY <1>1, GapInvHolds, PTL

\* An entry is judged by no VIX older than its bar, by a newer one only if the bar came
\* after its session, and by an earlier session's close.
THEOREM JudgedRightly == GapSpec => []JudgedByFreshVix
  <1>1. GapInv => JudgedByFreshVix
    BY DEF GapInv
  <1> QED BY <1>1, GapInvHolds, PTL

\* After the first bar the strategy believes only in positions it entered in the running
\* session: it never covers what a start restored.
THEOREM BelievesOwn == GapSpec => []BelievesOwnEntry
  <1>1. GapInv => BelievesOwnEntry
    BY DEF GapInv
  <1> QED BY <1>1, GapInvHolds, PTL

-----------------------------------------------------------------------------
(* Strategy 006: FuturesSession *)

\* What is remembered of a bar is of the session that runs.
OfSession(value) == value # Unknown => value.day = session_date

\* An entry of the running life left its side in memory.
SideRemembered ==
  \A s \in Contracts : \A i \in DOMAIN entered[s] :
    /\ entered[s][i].life <= lives
    /\ running /\ entered[s][i].life = lives => positions[s] # "none"

\* The inductive invariant of FuturesSession.
FuturesInv == /\ FuturesTypeOK
        /\ OfSession(prev_close)
        /\ OfSession(bands)
        /\ SideRemembered
        /\ BandsOfSession
        /\ OneEntryPerLife

-----------------------------------------------------------------------------
\* The initial states satisfy the invariant.
LEMMA InitFuturesInv == FuturesInit => FuturesInv
  <1> SUFFICES ASSUME FuturesInit PROVE FuturesInv
    OBVIOUS
  <1>1. FuturesTypeOK
    <2>1. entered \in [Contracts -> Seq(Entry006)]
      <3>1. <<>> \in Seq(Entry006)
        BY EmptySeq
      <3> QED BY <3>1 DEF FuturesInit
    <2>2. prev_close \in Reading006 \cup {Unknown} /\ bands \in Reading006 \cup {Unknown}
      BY DEF FuturesInit
    <2>4. running \in BOOLEAN
      BY DEF FuturesInit
    <2>5. /\ today \in Nat \ {NoDay} /\ lives \in Nat /\ session_date \in Nat /\ tr_buffer \in Nat
      BY DEF FuturesInit, NoDay
    <2>3. /\ given006 \in [Contracts -> Nat \ {NoDay}] /\ routing \in [Contracts -> BOOLEAN]
          /\ bar_count \in [Contracts -> Nat] /\ positions \in [Contracts -> Sides006]
      BY DEF FuturesInit, NoDay, Sides006
    <2> QED BY <2>1, <2>2, <2>3, <2>4, <2>5 DEF FuturesTypeOK
  <1>2. \A s \in Contracts : DOMAIN entered[s] = {}
    BY DEF FuturesInit
  <1>3. SideRemembered /\ BandsOfSession /\ OneEntryPerLife
    BY <1>2 DEF SideRemembered, BandsOfSession, OneEntryPerLife
  <1> QED BY <1>1, <1>3 DEF FuturesInit, OfSession, FuturesInv

\* Entries have their type.
LEMMA EnteredTyped ==
  ASSUME FuturesTypeOK, NEW s \in Contracts, NEW i \in DOMAIN entered[s]
  PROVE  entered[s][i].life \in Nat
  <1>1. entered[s] \in Seq(Entry006)
    BY DEF FuturesTypeOK
  <1>2. i \in 1..Len(entered[s])
    BY <1>1
  <1>3. entered[s][i] \in Entry006
    BY <1>1, <1>2, ElementOfSeq
  <1> QED BY <1>3 DEF Entry006

\* What every bar keeps, whatever is decided on it.
LEMMA BarKeeps ==
  ASSUME FuturesTypeOK, NEW s \in Contracts, NEW d \in 1..Days, Bar(s, d)
  PROVE  /\ given006' \in [Contracts -> Nat \ {NoDay}]
         /\ session_date' \in Nat /\ session_date' = d
         /\ bar_count' \in [Contracts -> Nat]
         /\ prev_close' \in Reading006 /\ prev_close'.day = d
         /\ today' = today /\ lives' = lives /\ running' = running /\ running
         /\ d \in Nat \ {NoDay}
  <1>1. d \in Nat \ {NoDay}
    BY FuturesBoundsAssumption DEF NoDay
  <1>2. bar_count' \in [Contracts -> Nat]
    <2>1. Counted(s, d) \in [Contracts -> Nat]
      BY DEF Counted, FuturesTypeOK
    <2>2. UpToLimit(Counted(s, d)[s] + 1, WarmUp) \in Nat
      BY <2>1, FuturesBoundsAssumption DEF UpToLimit
    <2> QED BY <2>1, <2>2 DEF Bar
  <1>3. given006' \in [Contracts -> Nat \ {NoDay}]
    BY <1>1 DEF Bar, FuturesTypeOK
  <1> QED BY <1>1, <1>2, <1>3 DEF Bar, Reading006

\* What is kept of a reading is of the date of the bar.
LEMMA KeptOfSession ==
  ASSUME NEW d, NEW value, OfSession(value), Kept(d, value) # Unknown
  PROVE  Kept(d, value) = value /\ value.day = d
  BY DEF OfSession, Kept

\* Every step keeps the invariant.
LEMMA NextFuturesInv == FuturesInv /\ [FuturesNext]_futuresVars => FuturesInv'
  <1> SUFFICES ASSUME FuturesInv, [FuturesNext]_futuresVars PROVE FuturesInv'
    OBVIOUS
  <1> USE FuturesBoundsAssumption
  <1>0. /\ FuturesTypeOK /\ OfSession(prev_close) /\ OfSession(bands) /\ SideRemembered
        /\ BandsOfSession /\ OneEntryPerLife
    BY DEF FuturesInv
  <1>e. ASSUME entered' = entered PROVE BandsOfSession' /\ OneEntryPerLife'
    BY <1>e, <1>0 DEF BandsOfSession, OneEntryPerLife
  <1>1. CASE Midnight
    <2>1. FuturesTypeOK'
      BY <1>0, <1>1 DEF Midnight, FuturesTypeOK, strategy006, NoDay
    <2> QED BY <2>1, <1>0, <1>1, <1>e DEF Midnight, FuturesInv, OfSession, SideRemembered, strategy006
  <1>2. CASE StartLife
    <2>1. FuturesTypeOK'
      BY <1>0, <1>2 DEF StartLife, FuturesTypeOK
    <2>2. SideRemembered'
      <3> SUFFICES ASSUME NEW s \in Contracts, NEW i \in DOMAIN entered[s]
                   PROVE  entered[s][i].life <= lives' /\ entered[s][i].life # lives'
        BY <1>2 DEF StartLife, SideRemembered
      <3>1. entered[s][i].life \in Nat /\ entered[s][i].life <= lives /\ lives \in Nat
        BY <1>0, EnteredTyped DEF SideRemembered, FuturesTypeOK
      <3> QED BY <3>1, <1>2 DEF StartLife
    <2> QED BY <2>1, <2>2, <1>0, <1>2, <1>e DEF StartLife, FuturesInv, OfSession
  <1>3. CASE EndLife
    <2>1. FuturesTypeOK'
      BY <1>0, <1>3 DEF EndLife, Forgotten, FuturesTypeOK, Sides006, NoDay
    <2> QED BY <2>1, <1>0, <1>3, <1>e DEF EndLife, Forgotten, FuturesInv, OfSession, SideRemembered
  <1>4. ASSUME NEW s \in Contracts, OrderRouted(s) PROVE FuturesInv'
    <2>1. FuturesTypeOK'
      BY <1>0, <1>4 DEF OrderRouted, FuturesTypeOK, strategy006
    <2> QED BY <2>1, <1>0, <1>4, <1>e DEF OrderRouted, FuturesInv, OfSession, SideRemembered, strategy006
  <1>5. ASSUME NEW s \in Contracts, NEW d \in 1..Days, BarRemembered(s, d) \/ BarMeasured(s, d)
        PROVE  FuturesInv'
    <2>0. Bar(s, d)
      BY <1>5 DEF BarRemembered, BarMeasured
    <2>1. /\ given006' \in [Contracts -> Nat \ {NoDay}]
          /\ session_date' \in Nat /\ session_date' = d /\ bar_count' \in [Contracts -> Nat]
          /\ prev_close' \in Reading006 /\ prev_close'.day = d
          /\ today' = today /\ lives' = lives /\ running' = running /\ d \in Nat \ {NoDay}
      BY <2>0, <1>0, BarKeeps
    <2>2. UNCHANGED <<routing, positions, entered>>
      BY <1>5 DEF BarRemembered, BarMeasured
    <2>3. tr_buffer' \in Nat
      BY <1>0, <1>5 DEF BarRemembered, BarMeasured, TrueRanges, UpToLimit, FuturesTypeOK
    <2>4. bands' = Kept(d, bands) \/ bands' = [day |-> d, of |-> s]
      BY <1>5 DEF BarRemembered, BarMeasured
    <2>5. bands' \in Reading006 \cup {Unknown} /\ OfSession(bands)'
      <3>1. CASE bands' = Kept(d, bands)
        BY <3>1, <2>1, <1>0 DEF Kept, OfSession, FuturesTypeOK
      <3>2. CASE bands' = [day |-> d, of |-> s]
        BY <3>2, <2>1 DEF Reading006, OfSession
      <3> QED BY <2>4, <3>1, <3>2
    <2>6. FuturesTypeOK'
      BY <2>1, <2>2, <2>3, <2>5, <1>0 DEF FuturesTypeOK
    <2>7. SideRemembered'
      BY <2>1, <2>2, <1>0 DEF SideRemembered
    <2> QED BY <2>1, <2>2, <2>5, <2>6, <2>7, <1>e DEF FuturesInv, OfSession
  <1>6. ASSUME NEW s \in Contracts, NEW d \in 1..Days, NEW side \in {"long", "short"},
               BarEnters(s, d, side)
        PROVE  FuturesInv'
    <2>0. Bar(s, d)
      BY <1>6 DEF BarEnters
    <2>1. /\ given006' \in [Contracts -> Nat \ {NoDay}]
          /\ session_date' \in Nat /\ session_date' = d /\ bar_count' \in [Contracts -> Nat]
          /\ prev_close' \in Reading006 /\ prev_close'.day = d
          /\ today' = today /\ lives' = lives /\ running' = running /\ running /\ d \in Nat \ {NoDay}
      BY <2>0, <1>0, BarKeeps
    <2> DEFINE e == [day |-> d, life |-> lives, close |-> Kept(d, prev_close),
                     bands |-> Kept(d, bands), warm |-> bar_count'[s] >= WarmUp]
    <2>2. /\ Kept(d, prev_close) = prev_close /\ prev_close.day = d /\ prev_close \in Reading006
          /\ Kept(d, bands) = bands /\ bands.day = d /\ bands \in Reading006
      <3>1. Kept(d, prev_close) # Unknown /\ Kept(d, bands) # Unknown
        BY <1>6 DEF BarEnters
      <3>2. /\ Kept(d, prev_close) = prev_close /\ prev_close.day = d
            /\ Kept(d, bands) = bands /\ bands.day = d
        BY <3>1, <1>0, KeptOfSession
      <3> QED BY <3>1, <3>2, <1>0 DEF FuturesTypeOK
    <2>w. bar_count'[s] >= WarmUp
      BY <1>6 DEF BarEnters, WarmedUp
    <2>3. /\ e \in Entry006 /\ e.day = d /\ e.life = lives
          /\ e.close.day = d /\ e.bands.day = d /\ e.warm
      <3>1. lives \in Nat /\ (bar_count'[s] >= WarmUp) \in BOOLEAN
        BY <2>w, <1>0 DEF FuturesTypeOK
      <3> QED BY <3>1, <2>1, <2>2, <2>w DEF Entry006
    <2>4. /\ entered' = [entered EXCEPT ![s] = Append(@, e)]
          /\ positions[s] = "none" /\ positions' = [positions EXCEPT ![s] = side]
      BY <1>6 DEF BarEnters
    <2> HIDE DEF e
    <2>5. entered[s] \in Seq(Entry006) /\ entered \in [Contracts -> Seq(Entry006)]
      BY <1>0 DEF FuturesTypeOK
    <2>6. /\ entered' \in [Contracts -> Seq(Entry006)]
          /\ entered'[s] = Append(entered[s], e)
          /\ \A o \in Contracts \ {s} : entered'[o] = entered[o] /\ positions'[o] = positions[o]
      <3>1. Append(entered[s], e) \in Seq(Entry006)
        BY <2>3, <2>5, AppendProperties
      <3>2. positions \in [Contracts -> Sides006]
        BY <1>0 DEF FuturesTypeOK
      <3> QED BY <3>1, <3>2, <2>4, <2>5
    <2>7. /\ DOMAIN entered'[s] = 1..(Len(entered[s]) + 1)
          /\ DOMAIN entered[s] = 1..Len(entered[s])
          /\ entered'[s][Len(entered[s]) + 1] = e
          /\ \A i \in 1..Len(entered[s]) : entered'[s][i] = entered[s][i]
          /\ Len(entered[s]) \in Nat
      BY <2>3, <2>5, <2>6, AppendProperties, LenProperties
    <2>8. \A i \in DOMAIN entered[s] : entered[s][i].life \in Nat /\ entered[s][i].life < lives
      <3> TAKE i \in DOMAIN entered[s]
      <3>1. entered[s][i].life \in Nat /\ entered[s][i].life <= lives /\ entered[s][i].life # lives
        BY <1>0, <2>1, <2>4, EnteredTyped DEF SideRemembered
      <3> QED BY <3>1, <1>0 DEF FuturesTypeOK
    <2>9. FuturesTypeOK'
      <3>1. bands' \in Reading006
        BY <2>1, <1>6 DEF BarEnters, Reading006
      <3>2. tr_buffer' \in Nat
        BY <1>0, <1>6 DEF BarEnters, TrueRanges, UpToLimit, FuturesTypeOK
      <3>3. routing' \in [Contracts -> BOOLEAN] /\ positions' \in [Contracts -> Sides006]
        BY <1>0, <1>6 DEF BarEnters, FuturesTypeOK, Sides006
      <3> QED BY <3>1, <3>2, <3>3, <2>1, <2>6, <1>0 DEF FuturesTypeOK
    <2>10. OfSession(prev_close)' /\ OfSession(bands)'
      BY <2>1, <1>6 DEF BarEnters, OfSession
    <2>11. SideRemembered'
      <3> SUFFICES ASSUME NEW o \in Contracts, NEW i \in DOMAIN entered'[o]
                   PROVE  /\ entered'[o][i].life <= lives
                          /\ entered'[o][i].life = lives => positions'[o] # "none"
        BY <2>1 DEF SideRemembered
      <3>1. CASE o # s
        BY <3>1, <2>1, <2>6, <1>0 DEF SideRemembered
      <3>2. CASE o = s
        <4>1. positions'[s] # "none"
          BY <2>4, <1>0 DEF FuturesTypeOK
        <4>2. lives \in Nat /\ i \in DOMAIN entered'[s]
          BY <3>2, <1>0 DEF FuturesTypeOK
        <4>3. CASE i = Len(entered[s]) + 1
          <5>1. entered'[s][i].life = lives
            BY <4>3, <2>3, <2>7
          <5> QED BY <3>2, <4>1, <4>2, <5>1
        <4>4. CASE i # Len(entered[s]) + 1
          <5>1. i \in DOMAIN entered[s] /\ entered'[s][i] = entered[s][i]
            BY <4>2, <4>4, <2>7
          <5>2. entered'[s][i].life \in Nat /\ entered'[s][i].life < lives
            BY <5>1, <2>8
          <5> QED BY <3>2, <4>1, <4>2, <5>2
        <4> QED BY <4>3, <4>4
      <3> QED BY <3>1, <3>2
    <2>12. BandsOfSession'
      <3> SUFFICES ASSUME NEW o \in Contracts, NEW i \in DOMAIN entered'[o]
                   PROVE  /\ entered'[o][i].close.day = entered'[o][i].day
                          /\ entered'[o][i].bands.day = entered'[o][i].day
                          /\ entered'[o][i].warm
        BY DEF BandsOfSession
      <3>1. CASE o # s
        BY <3>1, <2>6, <1>0 DEF BandsOfSession
      <3>2. CASE o = s /\ i = Len(entered[s]) + 1
        BY <3>2, <2>3, <2>7
      <3>3. CASE o = s /\ i # Len(entered[s]) + 1
        BY <3>3, <2>7, <1>0 DEF BandsOfSession
      <3> QED BY <3>1, <3>2, <3>3
    <2>13. OneEntryPerLife'
      <3> SUFFICES ASSUME NEW o \in Contracts, NEW i \in DOMAIN entered'[o],
                          NEW j \in DOMAIN entered'[o], i < j
                   PROVE  entered'[o][i].life < entered'[o][j].life
        BY DEF OneEntryPerLife
      <3>1. CASE o # s
        BY <3>1, <2>6, <1>0 DEF OneEntryPerLife
      <3>2. CASE o = s /\ j = Len(entered[s]) + 1
        BY <3>2, <2>3, <2>7, <2>8
      <3>3. CASE o = s /\ j # Len(entered[s]) + 1
        BY <3>3, <2>7, <1>0 DEF OneEntryPerLife
      <3> QED BY <3>1, <3>2, <3>3
    <2> QED BY <2>9, <2>10, <2>11, <2>12, <2>13 DEF FuturesInv
  <1>7. CASE UNCHANGED futuresVars
    BY <1>0, <1>7, <1>e DEF futuresVars, strategy006, FuturesInv, FuturesTypeOK, OfSession, SideRemembered
  <1> QED BY <1>1, <1>2, <1>3, <1>4, <1>5, <1>6, <1>7 DEF FuturesNext

LEMMA FuturesInvHolds == FuturesSpec => []FuturesInv
  BY InitFuturesInv, NextFuturesInv, PTL DEF FuturesSpec

-----------------------------------------------------------------------------
\* Every variable has its type.
THEOREM FuturesTypeCorrect == FuturesSpec => []FuturesTypeOK
  <1>1. FuturesInv => FuturesTypeOK
    BY DEF FuturesInv
  <1> QED BY <1>1, FuturesInvHolds, PTL

\* An entry is judged by a close and bands of its own session, whatever the two streams
\* do to the session they share.
THEOREM BandsAreOfSession == FuturesSpec => []BandsOfSession
  <1>1. FuturesInv => BandsOfSession
    BY DEF FuturesInv
  <1> QED BY <1>1, FuturesInvHolds, PTL

\* The strategy enters a contract once in a life of the platform.
THEOREM EntersOncePerLife == FuturesSpec => []OneEntryPerLife
  <1>1. FuturesInv => OneEntryPerLife
    BY DEF FuturesInv
  <1> QED BY <1>1, FuturesInvHolds, PTL

-----------------------------------------------------------------------------
(* The simulation *)

\* A position that is open after the last bar of a session was entered on it.
OpenAtEnd == pos # 0 /\ is_last => since.sess = sess /\ since.last

\* The inductive invariant of FuturesBacktest.
SimInv == SimTypeOK /\ OpenAtEnd /\ OvernightOnlyFromLastBar /\ TripsMatchEntries

LEMMA SimInvariantHolds == SimSpec => []SimInv
  <1>1. SimInit => SimInv
    BY DEF SimInit, SimInv, SimTypeOK, OpenAtEnd, OvernightOnlyFromLastBar, TripsMatchEntries
  <1>2. SimInv /\ [SimBar]_simVars => SimInv'
    <2> SUFFICES ASSUME SimInv, [SimBar]_simVars PROVE SimInv'
      OBVIOUS
    <2>1. CASE UNCHANGED simVars
      BY <2>1 DEF simVars, SimInv, SimTypeOK, OpenAtEnd, OvernightOnlyFromLastBar, TripsMatchEntries
    <2>2. CASE SimBar
      <3> PICK closes \in BOOLEAN, signal \in {-1, 0, 1} :
            /\ NextBar
            /\ round_trips' = round_trips + (IF Exited(closes) THEN 1 ELSE 0)
            /\ IF (pos = 0 \/ Exited(closes)) /\ signal # 0
                 THEN /\ pos' = signal
                      /\ since' = [sess |-> sess', last |-> is_last']
                      /\ entries006' = entries006 + 1
                 ELSE /\ pos' = IF pos = 0 \/ Exited(closes) THEN 0 ELSE pos
                      /\ UNCHANGED <<since, entries006>>
        BY <2>2 DEF SimBar
      <3>0. SimTypeOK /\ OpenAtEnd /\ OvernightOnlyFromLastBar /\ TripsMatchEntries
        BY DEF SimInv
      <3>1. /\ sess \in Nat /\ sess' \in Nat /\ nth' \in Nat /\ is_last' \in BOOLEAN
            /\ sess' = IF is_last THEN sess + 1 ELSE sess
        BY <3>0 DEF NextBar, SimTypeOK
      <3>2. CASE (pos = 0 \/ Exited(closes)) /\ signal # 0
        <4>1. /\ pos' = signal /\ since' = [sess |-> sess', last |-> is_last']
              /\ entries006' = entries006 + 1
          BY <3>2
        <4>2. SimTypeOK'
          BY <4>1, <3>0, <3>1 DEF SimTypeOK
        <4>3. OpenAtEnd' /\ OvernightOnlyFromLastBar'
          BY <4>1 DEF OpenAtEnd, OvernightOnlyFromLastBar
        <4>4. TripsMatchEntries'
          BY <4>1, <3>0, <3>2 DEF TripsMatchEntries, SimTypeOK, Exited
        <4> QED BY <4>2, <4>3, <4>4 DEF SimInv
      <3>3. CASE (pos = 0 \/ Exited(closes)) /\ signal = 0
        <4>1. pos' = 0 /\ UNCHANGED <<since, entries006>>
          BY <3>3
        <4>2. SimTypeOK'
          BY <4>1, <3>0, <3>1 DEF SimTypeOK
        <4>3. TripsMatchEntries'
          BY <4>1, <3>0, <3>3 DEF TripsMatchEntries, SimTypeOK, Exited
        <4> QED BY <4>1, <4>2, <4>3 DEF SimInv, OpenAtEnd, OvernightOnlyFromLastBar
      <3>4. CASE pos # 0 /\ ~Exited(closes)
        <4>1. pos' = pos /\ ~is_last' /\ round_trips' = round_trips /\ UNCHANGED <<since, entries006>>
          BY <3>0, <3>4 DEF Exited, MustExit, SimTypeOK
        <4>2. SimTypeOK'
          BY <4>1, <3>0, <3>1 DEF SimTypeOK
        <4>3. OvernightOnlyFromLastBar'
          BY <4>1, <3>0, <3>1, <3>4 DEF OpenAtEnd, OvernightOnlyFromLastBar, SimTypeOK
        <4> QED BY <4>1, <4>2, <4>3, <3>0 DEF SimInv, OpenAtEnd, TripsMatchEntries
      <3> QED BY <3>2, <3>3, <3>4
    <2> QED BY <2>1, <2>2
  <1> QED BY <1>1, <1>2, PTL DEF SimSpec

\* Only a position entered on a session's last bar is held over the night, and then for
\* one night.
THEOREM OvernightIsTheException == SimSpec => []OvernightOnlyFromLastBar
  <1>1. SimInv => OvernightOnlyFromLastBar
    BY DEF SimInv
  <1> QED BY <1>1, SimInvariantHolds, PTL

\* The trades the simulation reports are all its entries but the open one.
THEOREM TripsAreEntries == SimSpec => []TripsMatchEntries
  <1>1. SimInv => TripsMatchEntries
    BY DEF SimInv
  <1> QED BY <1>1, SimInvariantHolds, PTL

-----------------------------------------------------------------------------
(* The simulations of daily strategies: DailyBacktest *)

\* A day on which orders are taken has an index.
DayBegun == ~at_close => di \in Nat

\* The inductive invariant.
DailyInv == BacktestTypeOK /\ DayBegun /\ CashCoversEntries /\ GapFillsOnly

\* The names are finitely many, and so is what is held of them.
LEMMA OpenFinite ==
  /\ IsFiniteSet(Names002)
  /\ Open \in SUBSET Names002
  /\ IsFiniteSet(Open)
  /\ Cardinality(Open) \in Nat
<1>1. IsFiniteSet(Names002)
  BY PricesAssumption, FS_Interval DEF Names002
<1>2. Open \in SUBSET Names002
  BY DEF Open
<1> QED BY <1>1, <1>2, FS_Subset, FS_CardinalityType

\* A row's prices, and the shares of a position or of none.
LEMMA RowPrices ==
  ASSUME BacktestTypeOK, NEW s \in Names002
  PROVE  /\ HasRow(s) => /\ row[s] \in Rows
                         /\ row[s].open \in Prices /\ row[s].close \in Prices
                         /\ row[s].high \in Prices /\ row[s].low \in Prices
                         /\ row[s].low <= row[s].open /\ row[s].open <= row[s].high
                         /\ row[s].low <= row[s].close /\ row[s].close <= row[s].high
         /\ held[s].shares \in Nat
         /\ s \in Open => held[s] \in Position /\ held[s].p0 \in Prices
<1>1. HasRow(s) => row[s] \in Rows
  BY DEF BacktestTypeOK, HasRow
<1>2. held[s] \in Position \/ held[s] = NoPos
  BY DEF BacktestTypeOK
<1>3. held[s].shares \in Nat
  BY <1>2 DEF Position, NoPos
<1>4. s \in Open => held[s] \in Position /\ held[s].p0 \in Prices
  BY <1>2 DEF Open, Position
<1>5. \A r \in Rows : /\ r.open \in Prices /\ r.close \in Prices /\ r.high \in Prices /\ r.low \in Prices
                      /\ r.low <= r.open /\ r.open <= r.high /\ r.low <= r.close /\ r.close <= r.high
  BY DEF Rows
<1> QED BY <1>1, <1>3, <1>4, <1>5

\* What a sale at prices that are naturals brings in is one.
LEMMA ProceedsNat ==
  ASSUME BacktestTypeOK, NEW out \in SUBSET Names002,
         NEW price, price = [s \in out |-> price[s]], \A s \in out : price[s] \in Nat
  PROVE  Proceeds(price) \in Nat
<1> DEFINE f == [s \in DOMAIN price |-> held[s].shares * price[s]]
<1>1. DOMAIN price = out
  OBVIOUS
<1>2. \A s \in out : held[s].shares \in Nat
  BY RowPrices
<1>3. \A s \in out : f[s] = held[s].shares * price[s]
  BY <1>1
<1>4. \A s \in out : f[s] \in Nat
  <2> SUFFICES ASSUME NEW s \in out PROVE f[s] \in Nat
    OBVIOUS
  <2>1. f[s] = held[s].shares * price[s] /\ held[s].shares \in Nat /\ price[s] \in Nat
    BY <1>2, <1>3
  <2>2. \A a, b \in Nat : a * b \in Nat
    OBVIOUS
  <2> HIDE DEF f
  <2> QED BY <2>1, <2>2
<1>5. IsFiniteSet(out)
  BY OpenFinite, FS_Subset
<1> HIDE DEF f
<1>6. SumFunctionOnSet(f, out) \in Nat
  BY <1>4, <1>5, SumNat
<1> QED BY <1>1, <1>6 DEF Proceeds, f

\* What a slot has room for.
LEMMA SharesType ==
  ASSUME BacktestTypeOK, NEW s \in Names002, HasRow(s)
  PROVE  SharesFor(s) \in Int /\ SharesFor(s) * row[s].open \in Int
<1> USE SizesAssumption, PricesAssumption
<1> DEFINE f == [t \in Names002 |-> IF HasRow(t) THEN held[t].shares * row[t].open ELSE 0]
<1>1. \A t \in Open : f[t] \in Int
  <2> SUFFICES ASSUME NEW t \in Open PROVE f[t] \in Int
    OBVIOUS
  <2>1. t \in Names002
    BY OpenFinite
  <2>2. held[t].shares \in Nat /\ (HasRow(t) => row[t].open \in Nat)
    BY <2>1, RowPrices
  <2>3. f[t] = IF HasRow(t) THEN held[t].shares * row[t].open ELSE 0
    BY <2>1
  <2>4. \A a, b \in Nat : a * b \in Int
    OBVIOUS
  <2> HIDE DEF f
  <2> QED BY <2>2, <2>3, <2>4
<1> HIDE DEF f
<1>2. SumFunctionOnSet(f, Open) \in Int
  BY <1>1, OpenFinite, SumInt
<1>3. Used \in Int
  BY <1>2 DEF Used, f
<1>4. Slot \in Int
  BY <1>3 DEF Slot, SmallerOf
<1>5. row[s].open \in Nat \ {0}
  BY RowPrices
<1>6. \A a \in Int, b \in Nat \ {0} : a \div b \in Int
  OBVIOUS
<1>7. SharesFor(s) \in Int
  BY <1>4, <1>5, <1>6 DEF SharesFor
<1>8. \A a, b \in Int : a * b \in Int
  OBVIOUS
<1> QED BY <1>5, <1>7, <1>8

\* The stop is below the price of the entry, the target above it.
LEMMA StopAndTarget ==
  ASSUME BacktestTypeOK, NEW s \in Open
  PROVE  /\ Stop(s) \in Nat /\ Stop(s) < held[s].p0
         /\ Target(s) \in Nat /\ held[s].p0 < Target(s)
<1> DEFINE p == held[s].p0
<1>1. s \in Names002
  BY OpenFinite
<1>2. p \in Nat \ {0} /\ p % 25 = 0
  BY <1>1, RowPrices, PricesAssumption
<1>3. Stop(s) = (p * StopPercent) \div 100 /\ Target(s) = (p * 108) \div 100
  BY DEF Stop, Target
<1> HIDE DEF p
<1>4. (p * 108) \div 100 \in Nat /\ p < (p * 108) \div 100
  BY <1>2
<1>5. StopPercent \in Nat /\ StopPercent <= 99
  BY SizesAssumption
<1>6. p * StopPercent \in Nat /\ p * StopPercent <= p * 99
  BY <1>2, <1>5
<1>7. \A x \in Nat : x <= p * 99 => x \div 100 \in Nat /\ x \div 100 < p
  BY <1>2
<1> QED BY <1>3, <1>4, <1>6, <1>7 DEF p

\* The orders of the night at the open, one after the other.
LEMMA OpeningKeeps ==
  ASSUME DailyInv, ExitsAtOpen \/ EntryAtOpen
  PROVE  DailyInv'
<1> USE SizesAssumption, PricesAssumption
<1>0. BacktestTypeOK /\ DayBegun /\ CashCoversEntries /\ GapFillsOnly
  BY DEF DailyInv
<1>d. DayBegun'
  BY <1>0 DEF DayBegun, ExitsAtOpen, EntryAtOpen
<1>n. cash \in Int /\ cash >= 0 /\ Cardinality(Open) <= MaxPos /\ held \in [Names002 -> Position \cup {NoPos}]
  BY <1>0 DEF BacktestTypeOK, CashCoversEntries
<1>1. CASE ExitsAtOpen
  <2> DEFINE out == Due(leaving)  price == [s \in out |-> row[s].open]
  <2>1. out \in SUBSET Names002 /\ \A s \in out : HasRow(s)
    BY <1>0 DEF Due, BacktestTypeOK
  <2>2. \A s \in out : price[s] \in Nat
    <3> SUFFICES ASSUME NEW s \in out PROVE row[s].open \in Nat
      OBVIOUS
    <3> QED BY <2>1, <1>0, RowPrices
  <2>3. Proceeds(price) \in Nat
    BY <2>1, <2>2, <1>0, ProceedsNat
  <2>4. cash' = cash + Proceeds(price)
    BY <1>1 DEF ExitsAtOpen
  <2>5. held' = [s \in Names002 |-> IF s \in out THEN NoPos ELSE held[s]]
    BY <1>1 DEF ExitsAtOpen
  <2>6. held' \in [Names002 -> Position \cup {NoPos}]
    BY <2>5, <1>n
  <2>7. /\ leaving' \in SUBSET Names002
        /\ UNCHANGED <<sim, di, row, at_close, pending>>
    BY <1>1, <1>0 DEF ExitsAtOpen, BacktestTypeOK
  <2> HIDE DEF price
  <2>8. cash' \in Int /\ cash' >= 0
    BY <2>3, <2>4, <1>n
  <2>9. BacktestTypeOK'
    BY <2>6, <2>7, <2>8, <1>0 DEF BacktestTypeOK
  <2>10. Open' \in SUBSET Open
    BY <2>5 DEF Open
  <2>11. Cardinality(Open') \in Nat /\ Cardinality(Open') <= Cardinality(Open)
    BY <2>10, OpenFinite, FS_Subset, FS_CardinalityType
  <2>12. CashCoversEntries'
    BY <2>8, <2>11, <1>n, OpenFinite DEF CashCoversEntries
  <2>13. GapFillsOnly'
    <3> SUFFICES ASSUME NEW e \in exits' PROVE e.row.low <= e.price /\ e.price <= e.row.high
      BY DEF GapFillsOnly
    <3>1. PICK s \in out : e = [row |-> row[s], price |-> row[s].open, p0 |-> held[s].p0]
      BY <1>1 DEF ExitsAtOpen
    <3>2. e.row = row[s] /\ e.price = row[s].open
      BY <3>1
    <3>3. row[s].low <= row[s].open /\ row[s].open <= row[s].high
      BY <2>1, <1>0, RowPrices
    <3> QED BY <3>2, <3>3
  <2> QED BY <2>9, <2>12, <2>13, <1>d DEF DailyInv
<1>2. CASE EntryAtOpen
  <2>1. PICK s \in Ordered :
          /\ pending' = pending \ {s}
          /\ IF Enters(s)
               THEN /\ cash' = cash - SharesFor(s) * row[s].open
                    /\ held' = [held EXCEPT ![s] =
                                  [shares |-> SharesFor(s), p0 |-> row[s].open, entry_idx |-> di]]
               ELSE UNCHANGED <<cash, held>>
    BY <1>2 DEF EntryAtOpen
  <2>2. UNCHANGED <<sim, di, row, at_close, leaving, exits>> /\ at_close = FALSE
    BY <1>2, <1>0 DEF EntryAtOpen, BacktestTypeOK
  <2>3. s \in Names002 /\ pending' \in SUBSET Names002
    BY <2>1, <1>0 DEF Ordered, Due, BacktestTypeOK
  <2>4. GapFillsOnly'
    BY <2>2, <1>0 DEF GapFillsOnly
  <2>5. CASE ~Enters(s)
    <3>1. UNCHANGED <<cash, held>>
      BY <2>1, <2>5
    <3>2. Open' = Open
      BY <3>1 DEF Open
    <3> QED BY <2>2, <2>3, <2>4, <3>1, <3>2, <1>0, <1>d DEF DailyInv, BacktestTypeOK, CashCoversEntries
  <2>6. CASE Enters(s)
    <3> DEFINE n == SharesFor(s)  new == [shares |-> n, p0 |-> row[s].open, entry_idx |-> di]
    <3>1. /\ cash' = cash - n * row[s].open /\ held' = [held EXCEPT ![s] = new]
          /\ Cardinality(Open) < MaxPos /\ HasRow(s) /\ n > 0 /\ n * row[s].open <= cash
          /\ s \notin Open
      BY <2>1, <2>6 DEF Enters, Affords
    <3>2. n \in Int /\ n * row[s].open \in Int /\ row[s].open \in Prices
      BY <3>1, <2>3, <1>0, SharesType, RowPrices
    <3>3. cash' \in Int /\ cash' >= 0
      BY <3>1, <3>2, <1>n
    <3> HIDE DEF n
    <3>4. new \in Position
      <4>1. n \in Nat \ {0} /\ di \in Nat
        BY <3>1, <3>2, <1>0, <1>2 DEF DayBegun, EntryAtOpen
      <4> QED BY <4>1, <3>2 DEF Position
    <3> HIDE DEF new
    <3>5. held' \in [Names002 -> Position \cup {NoPos}]
      BY <3>1, <3>4, <2>3, <1>n
    <3>6. BacktestTypeOK'
      BY <3>3, <3>5, <2>2, <2>3, <1>0 DEF BacktestTypeOK
    <3>7. Open' \in SUBSET (Open \cup {s})
      BY <3>1, <1>n DEF Open
    <3>8. Cardinality(Open \cup {s}) = Cardinality(Open) + 1 /\ IsFiniteSet(Open \cup {s})
      BY <3>1, OpenFinite, FS_AddElement
    <3>9. Cardinality(Open') \in Nat /\ Cardinality(Open') <= Cardinality(Open) + 1
      BY <3>7, <3>8, FS_Subset, FS_CardinalityType
    <3>10. CashCoversEntries'
      BY <3>1, <3>3, <3>9, <1>n, OpenFinite DEF CashCoversEntries
    <3> QED BY <3>6, <3>10, <2>4, <1>d DEF DailyInv
  <2> QED BY <2>5, <2>6
<1> QED BY <1>1, <1>2


\* The stops and the other exits of the day.
LEMMA ClosingKeeps ==
  ASSUME DailyInv, CloseOfDay
  PROVE  DailyInv'
<1> USE SizesAssumption, PricesAssumption
<1>0. BacktestTypeOK /\ DayBegun /\ CashCoversEntries /\ GapFillsOnly
  BY DEF DailyInv
<1>n. cash \in Int /\ cash >= 0 /\ Cardinality(Open) <= MaxPos /\ held \in [Names002 -> Position \cup {NoPos}]
  BY <1>0 DEF BacktestTypeOK, CashCoversEntries
<1>1. PICK crossed \in SUBSET MayCross :
        LET out == Stopped \cup Reached \cup TimedOut \cup crossed
        IN  /\ cash' = cash + Proceeds([s \in out |-> Price(s)])
            /\ held' = [s \in Names002 |-> IF s \in out THEN NoPos ELSE held[s]]
            /\ exits' = exits \cup {[row |-> row[s], price |-> Price(s), p0 |-> held[s].p0] : s \in out}
  BY DEF CloseOfDay
<1> DEFINE out == Stopped \cup Reached \cup TimedOut \cup crossed
           price == [s \in out |-> Price(s)]
<1>2. /\ cash' = cash + Proceeds(price)
      /\ held' = [s \in Names002 |-> IF s \in out THEN NoPos ELSE held[s]]
      /\ exits' = exits \cup {[row |-> row[s], price |-> Price(s), p0 |-> held[s].p0] : s \in out}
  BY <1>1
<1>3. at_close' = TRUE /\ UNCHANGED <<sim, di, row, pending, leaving>>
  BY DEF CloseOfDay
<1>4. out \in SUBSET Open /\ \A s \in out : HasRow(s)
  BY DEF Stopped, Reached, TimedOut, MayCross
<1>5. out \in SUBSET Names002
  BY <1>4, OpenFinite
<1> HIDE DEF out
\* The price of an exit, and where it lies.
<1>6. ASSUME NEW s \in out
      PROVE  /\ Price(s) \in Nat
             /\ \/ row[s].low <= Price(s) /\ Price(s) <= row[s].high
                \/ Price(s) < held[s].p0 /\ row[s].high < Price(s)
                \/ Price(s) > held[s].p0 /\ row[s].low > Price(s)
  <2>1. /\ row[s].low \in Nat /\ row[s].high \in Nat /\ row[s].close \in Nat
        /\ row[s].low <= row[s].close /\ row[s].close <= row[s].high /\ held[s].p0 \in Nat
    BY <1>0, <1>4, <1>5, RowPrices
  <2>2. /\ Stop(s) \in Nat /\ Stop(s) < held[s].p0
        /\ Target(s) \in Nat /\ held[s].p0 < Target(s)
    BY <1>0, <1>4, StopAndTarget
  <2>3. CASE s \in Stopped
    <3>1. Price(s) = Stop(s) /\ row[s].low <= Stop(s)
      BY <2>3 DEF Price, Stopped
    <3> QED BY <3>1, <2>1, <2>2
  <2>4. CASE s \notin Stopped /\ s \in Reached
    <3>1. Price(s) = Target(s) /\ row[s].high >= Target(s)
      BY <2>4 DEF Price, Reached
    <3> QED BY <3>1, <2>1, <2>2
  <2>5. CASE s \notin Stopped /\ s \notin Reached
    <3>1. Price(s) = row[s].close
      BY <2>5 DEF Price
    <3> QED BY <3>1, <2>1
  <2> QED BY <2>3, <2>4, <2>5
<1>7. \A s \in out : price[s] \in Nat
  BY <1>6
<1>8. Proceeds(price) \in Nat
  BY <1>0, <1>5, <1>7, ProceedsNat
<1> HIDE DEF price
<1>9. cash' \in Int /\ cash' >= 0
  BY <1>2, <1>8, <1>n
<1>10. BacktestTypeOK'
  <2>1. held' \in [Names002 -> Position \cup {NoPos}]
    BY <1>2, <1>n
  <2> QED BY <2>1, <1>0, <1>3, <1>9 DEF BacktestTypeOK
<1>11. CashCoversEntries'
  <2>1. Open' \in SUBSET Open
    BY <1>2 DEF Open
  <2>2. Cardinality(Open') \in Nat /\ Cardinality(Open') <= Cardinality(Open)
    BY <2>1, OpenFinite, FS_Subset, FS_CardinalityType
  <2> QED BY <2>2, <1>9, <1>n, OpenFinite DEF CashCoversEntries
<1>12. GapFillsOnly'
  <2> SUFFICES ASSUME NEW e \in exits'
               PROVE  \/ e.row.low <= e.price /\ e.price <= e.row.high
                      \/ e.price < e.p0 /\ e.row.high < e.price
                      \/ e.price > e.p0 /\ e.row.low > e.price
    BY DEF GapFillsOnly
  <2>1. CASE e \in exits
    BY <2>1, <1>0 DEF GapFillsOnly
  <2>2. CASE e \notin exits
    <3>1. PICK s \in out : e = [row |-> row[s], price |-> Price(s), p0 |-> held[s].p0]
      BY <2>2, <1>2
    <3>2. e.row = row[s] /\ e.price = Price(s) /\ e.p0 = held[s].p0
      BY <3>1
    <3> QED BY <3>2, <1>6
  <2> QED BY <2>1, <2>2
<1>13. DayBegun'
  BY <1>3 DEF DayBegun
<1> QED BY <1>10, <1>11, <1>12, <1>13 DEF DailyInv

\* The evening.
LEMMA EveningKeeps ==
  ASSUME DailyInv, NextDate
  PROVE  DailyInv'
<1>0. BacktestTypeOK /\ CashCoversEntries
  BY DEF DailyInv
<1>1. /\ di' = di + 1 /\ row' \in [Names002 -> Rows \cup {NoRow}] /\ at_close' = FALSE
      /\ exits' = {} /\ UNCHANGED <<sim, cash, held>>
  BY DEF NextDate
<1>2. pending' \in SUBSET Names002 /\ leaving' \in SUBSET Names002
  <2>1. PICK ins \in SUBSET MaySignal, outs \in SUBSET MayLeave :
          pending' = pending \cup ins /\ leaving' = leaving \cup outs
    BY DEF NextDate
  <2>2. MaySignal \in SUBSET Names002 /\ MayLeave \in SUBSET Names002
    BY DEF MaySignal, MayLeave, Open
  <2> QED BY <2>1, <2>2, <1>0 DEF BacktestTypeOK
<1>3. di' \in Nat
  BY <1>0, <1>1 DEF BacktestTypeOK
<1>4. Open' = Open
  BY <1>1 DEF Open
<1>5. BacktestTypeOK'
  BY <1>0, <1>1, <1>2, <1>3 DEF BacktestTypeOK
<1> QED BY <1>0, <1>1, <1>3, <1>4, <1>5 DEF DailyInv, DayBegun, CashCoversEntries, GapFillsOnly

LEMMA InitDailyInv == BacktestInit => DailyInv
<1> SUFFICES ASSUME BacktestInit PROVE DailyInv
  OBVIOUS
<1> USE SizesAssumption
<1>1. row \in [Names002 -> Rows \cup {NoRow}] /\ held \in [Names002 -> Position \cup {NoPos}]
  BY DEF BacktestInit
<1>2. BacktestTypeOK
  BY <1>1 DEF BacktestInit, BacktestTypeOK
<1>3. Open = {}
  BY DEF BacktestInit, Open
<1>4. Cardinality(Open) = 0
  BY <1>3, FS_EmptySet
<1>5. CashCoversEntries
  BY <1>4 DEF BacktestInit, CashCoversEntries
<1> QED BY <1>2, <1>5 DEF BacktestInit, DailyInv, DayBegun, GapFillsOnly

LEMMA DailyInvHolds == BacktestSpec => []DailyInv
<1>1. DailyInv /\ UNCHANGED backtestVars => DailyInv'
  BY DEF DailyInv, BacktestTypeOK, DayBegun, CashCoversEntries, GapFillsOnly, Open, backtestVars
<1>2. DailyInv /\ [BacktestNext]_backtestVars => DailyInv'
  BY <1>1, OpeningKeeps, ClosingKeeps, EveningKeeps DEF BacktestNext
<1> QED BY <1>2, InitDailyInv, PTL DEF BacktestSpec

-----------------------------------------------------------------------------
\* Every variable has its type.
THEOREM BacktestTypeCorrect == BacktestSpec => []BacktestTypeOK
<1>1. DailyInv => BacktestTypeOK
  BY DEF DailyInv
<1> QED BY <1>1, DailyInvHolds, PTL

\* No simulation spends more than it has or holds more positions than it may, whatever
\* rows are missing when it sizes an entry.
THEOREM EntriesCovered == BacktestSpec => []CashCoversEntries
<1>1. DailyInv => CashCoversEntries
  BY DEF DailyInv
<1> QED BY <1>1, DailyInvHolds, PTL

\* Only the stops of a day that traded below them, and the targets of a day that traded
\* above them, are filled at a price the day did not trade at.
THEOREM FillsInsideTheDay == BacktestSpec => []GapFillsOnly
<1>1. DailyInv => GapFillsOnly
  BY DEF DailyInv
<1> QED BY <1>1, DailyInvHolds, PTL

=============================================================================
