-------------------------- MODULE BacktestsProofs --------------------------
(***************************************************************************)
(* What the backtests promise for histories of any length, any prices and  *)
(* any settings.                                                           *)
(***************************************************************************)
EXTENDS Backtests, SeriesProofs, FunctionTheorems

-----------------------------------------------------------------------------
(* The invariant of the specification: the candles and the minutes are in  *)
(* order, and the report is always that of the current history.            *)

BacktestsInv ==
    /\ part \in Parts
    /\ IsHistory(bars)
    /\ IsHistory(minutes)
    /\ report = Report(part, bars, minutes)

\* No candle at all is a history too.
LEMMA EmptyHistory == IsHistory(<< >>)
<1>1. << >> \in Seq(CandleSet) /\ Len(<< >>) = 0
  OBVIOUS
<1> QED
  BY <1>1 DEF IsHistory

\* Another minute of the ambiguous candle.
LEMMA NextMinuteIs ==
    ASSUME IsHistory(minutes), NextMinute
    PROVE  IsHistory(minutes') /\ UNCHANGED <<part, bars>>
<1>1. PICK m \in Minutes, k \in LastDay(minutes) + 1 .. MaxMinutes :
          minutes' = Append(minutes, [m EXCEPT !.day = k])
  BY DEF NextMinute
<1> DEFINE x == [m EXCEPT !.day = k]
<1>2. m \in CandleSet /\ LastDay(minutes) \in Nat /\ MaxMinutes \in Nat
  BY BreakoutAssumption, HistoryIs
<1>3. k \in Nat /\ LastDay(minutes) < k
  BY <1>2
<1>4. x \in CandleSet /\ x.day = k
  BY <1>2, <1>3 DEF CandleSet
<1> HIDE DEF x
<1>5. minutes' = Append(minutes, x)
  BY <1>1 DEF x
<1>6. IsHistory(minutes')
  BY <1>3, <1>4, <1>5, NextCandleContinues
<1> QED
  BY <1>6 DEF NextMinute

\* The report of every engine is that of its history.
THEOREM BacktestsHistory == BacktestsSpec => []BacktestsInv
<1>1. BacktestsInit => BacktestsInv
  BY SeriesAssumption, EmptyHistory DEF BacktestsInit, Init, BreakoutInit, BacktestsInv
<1>2. BacktestsInv /\ [BacktestsNext]_vars => BacktestsInv'
  <2> SUFFICES ASSUME BacktestsInv, [BacktestsNext]_vars
               PROVE  BacktestsInv'
    OBVIOUS
  <2>1. CASE CandleComes
    BY <2>1, NextCandleIs DEF CandleComes, BacktestsInv
  <2>2. CASE MinuteComes
    <3>1. IsHistory(minutes') /\ part' = part /\ bars' = bars
      BY <2>2, NextMinuteIs DEF MinuteComes, BacktestsInv
    <3> QED
      BY <2>2, <3>1 DEF MinuteComes, BacktestsInv
  <2>3. CASE UNCHANGED vars
    BY <2>3 DEF vars, BacktestsInv
  <2> QED
    BY <2>1, <2>2, <2>3 DEF BacktestsNext
<1> QED
  BY <1>1, <1>2, PTL DEF BacktestsSpec

-----------------------------------------------------------------------------
(* Top-Bottom: the engine, one candle after the other.                     *)

\* The latest confirmed swing is a close that was known by then.
LEMMA LevelIs ==
    ASSUME NEW c \in Seq(Nat), NEW i \in 0 .. Len(c), NEW kind
    PROVE  LatestLevel(c, i, kind) \in Nat
<1> DEFINE S == ConfirmedBy(c, i, kind)
<1>1. S \in SUBSET (1 .. i) /\ i \in Nat /\ 1 .. i \in SUBSET (1 .. Len(c))
  BY TopBottomAssumption DEF ConfirmedBy
<1>2. CASE S = {}
  BY <1>2 DEF LatestLevel, NoLevel
<1>3. CASE S # {}
  <2> HIDE DEF S
  <2>1. IsFiniteSet(S) /\ S \in SUBSET Nat
    BY <1>1, Places
  <2>2. Max(S) \in S
    BY <1>3, <2>1, MaxIs
  <2>3. Max(S) \in 1 .. Len(c)
    BY <1>1, <2>2
  <2>4. c[Max(S)] \in Nat
    BY <2>3
  <2> QED
    BY <1>3, <2>4 DEF LatestLevel, S
<1> QED
  BY <1>2, <1>3

\* Later closes do not change what was known.
LEMMA LevelStays ==
    ASSUME NEW c \in Seq(Nat), NEW e \in Seq(Nat), Continues(e, c), NEW i \in 0 .. Len(c), NEW kind
    PROVE  LatestLevel(e, i, kind) = LatestLevel(c, i, kind)
<1>1. Len(c) \in Nat /\ Len(e) \in Nat /\ Len(c) <= Len(e) /\ \A k \in 1 .. Len(c) : e[k] = c[k]
  <2>1. Len(c) \in Nat /\ Len(e) \in Nat
    OBVIOUS
  <2> QED
    BY <2>1 DEF Continues
<1>2. SwingBars \in Nat
  BY TopBottomAssumption
<1>3. ASSUME NEW p \in 1 + SwingBars .. i - SwingBars
      PROVE  IsSwing(e, p, kind) <=> IsSwing(c, p, kind)
  <2>1. \A j \in p - SwingBars .. p + SwingBars : j \in 1 .. Len(c)
    BY <1>1, <1>2
  <2>2. p \in 1 .. Len(c)
    BY <1>1, <1>2
  <2>3. \A j \in p - SwingBars .. p + SwingBars : e[j] = c[j]
    BY <1>1, <2>1
  <2>4. e[p] = c[p]
    BY <1>1, <2>2
  <2> QED
    BY <2>3, <2>4 DEF IsSwing
<1>4. ConfirmedBy(e, i, kind) = ConfirmedBy(c, i, kind)
  BY <1>3 DEF ConfirmedBy
<1> DEFINE S == ConfirmedBy(c, i, kind)
<1>5. S \in SUBSET (1 .. i) /\ i \in Nat /\ 1 .. i \in SUBSET (1 .. Len(c))
  BY <1>2 DEF ConfirmedBy
<1>6. S # {} => Max(S) \in 1 .. Len(c)
  <2> HIDE DEF S
  <2>1. IsFiniteSet(S) /\ S \in SUBSET Nat
    BY <1>5, Places
  <2> QED
    BY <1>5, <2>1, MaxIs
<1>7. S # {} => e[Max(S)] = c[Max(S)]
  BY <1>1, <1>6
<1> QED
  BY <1>4, <1>7 DEF LatestLevel

\* The trades and the states of the engine.
TbReason == {"OPEN", "TRAILING_STOP_REVERSAL"}
TbTrade ==
    [side : {"BUY", "SELL"}, entryAt : Nat, entry : Nat, stop : Nat, stops : Seq(Nat),
     exitAt : Nat, exit : Nat, reason : TbReason]
TbState ==
    {s \in [open : SUBSET TbTrade, closed : Seq(TbTrade), signals : Nat] :
        s.open = {} \/ \E t \in TbTrade : s.open = {t} /\ t.exitAt = 0}

\* Trade u is trade t later on.
Same(t, u) ==
    /\ u.side = t.side /\ u.entryAt = t.entryAt /\ u.entry = t.entry
    /\ IF t.side = "BUY" THEN u.stop >= t.stop ELSE u.stop <= t.stop

\* What a candle may do to the book of the engine.
TbStays(s, r) == r.open = s.open /\ r.closed = s.closed
TbEnters(s, r, i) ==
    /\ s.open = {} /\ r.closed = s.closed
    /\ \E t \in TbTrade : t.entryAt = i /\ t.exitAt = 0 /\ r.open = {t}
TbTrails(s, r) ==
    /\ r.closed = s.closed
    /\ \E t, u \in TbTrade : s.open = {t} /\ r.open = {u} /\ Same(t, u) /\ u.exitAt = 0
TbExits(s, r, i) ==
    \E t, u \in TbTrade :
        /\ s.open = {t} /\ Same(t, u) /\ u.exitAt = i /\ r.closed = Append(s.closed, u)
        /\ \/ r.open = {}
           \/ \E v \in TbTrade : r.open = {v} /\ v.entryAt = i /\ v.exitAt = 0 /\ v.side # u.side
TbMoves(s, r, i) == TbStays(s, r) \/ TbEnters(s, r, i) \/ TbTrails(s, r) \/ TbExits(s, r, i)

Bar(c, s, i) ==
    IF s.open = {} THEN FlatBar(s, i, c[i], LatestLevel(c, i, "TOP"), LatestLevel(c, i, "BOTTOM"))
                   ELSE HeldBar(s, i, c[i], LatestLevel(c, i, "TOP"), LatestLevel(c, i, "BOTTOM"))

\* A new trade.
LEMMA OpenTradeIs ==
    ASSUME NEW side \in {"BUY", "SELL"}, NEW level \in Nat, NEW stop \in Nat, NEW i \in Nat
    PROVE  LET t == OpenTrade(side, level, stop, i)
           IN t \in TbTrade /\ t.side = side /\ t.entryAt = i /\ t.exitAt = 0
<1> DEFINE moves == <<stop>>
<1>1. moves \in Seq(Nat)
  OBVIOUS
<1> HIDE DEF moves
<1>2. OpenTrade(side, level, stop, i) =
          [side |-> side, entryAt |-> i, entry |-> level, stop |-> stop, stops |-> moves,
           exitAt |-> 0, exit |-> 0, reason |-> "OPEN"]
  BY DEF OpenTrade, NoLevel, moves
<1> DEFINE t == OpenTrade(side, level, stop, i)
<1> HIDE DEF t
<1>3. t = [side |-> side, entryAt |-> i, entry |-> level, stop |-> stop, stops |-> moves,
           exitAt |-> 0, exit |-> 0, reason |-> "OPEN"]
  BY <1>2 DEF t
<1>4. t \in TbTrade
  BY <1>1, <1>3 DEF TbTrade, TbReason
<1>5. t.side = side /\ t.entryAt = i /\ t.exitAt = 0
  BY <1>3
<1> QED
  BY <1>4, <1>5 DEF t

\* The stop moves in favour of the trade only.
LEMMA TrailIs ==
    ASSUME NEW t \in TbTrade, NEW level \in Nat
    PROVE  LET u == Trail(t, level)
           IN u \in TbTrade /\ u.exitAt = t.exitAt /\ Same(t, u)
<1> DEFINE moved == IF level = NoLevel THEN t.stop ELSE Better(t.side, t.stop, level)
           u == [t EXCEPT !.stop = moved, !.stops = Append(@, moved)]
<1>1. t.stop \in Nat /\ t.side \in {"BUY", "SELL"} /\ t.stops \in Seq(Nat)
  BY DEF TbTrade
<1>2. moved \in Nat /\ IF t.side = "BUY" THEN moved >= t.stop ELSE moved <= t.stop
  BY <1>1 DEF Better, MaxOf, MinOf
<1>3. Same(t, t)
  BY <1>1 DEF Same
<1> HIDE DEF moved
<1>4. Append(t.stops, moved) \in Seq(Nat)
  BY <1>1, <1>2
<1>5. u \in TbTrade /\ u.exitAt = t.exitAt /\ u.side = t.side /\ u.entryAt = t.entryAt /\ u.entry = t.entry
      /\ u.stop = moved
  BY <1>2, <1>4 DEF TbTrade
<1> HIDE DEF u
<1>6. Same(t, u)
  BY <1>2, <1>5 DEF Same
<1>7. Trail(t, level) = IF moved = t.stop THEN t ELSE u
  BY DEF Trail, moved, u
<1> QED
  BY <1>3, <1>5, <1>6, <1>7

\* Closing a trade leaves what it was.
LEMMA CloseTradeIs ==
    ASSUME NEW t \in TbTrade, NEW i \in Nat, NEW price \in Nat, NEW why \in TbReason
    PROVE  LET u == CloseTrade(t, i, price, why)
           IN /\ u \in TbTrade /\ u.exitAt = i
              /\ u.side = t.side /\ u.entryAt = t.entryAt /\ u.entry = t.entry /\ u.stop = t.stop
BY DEF CloseTrade, TbTrade

\* Without a position the candle may open one.
LEMMA FlatBarIs ==
    ASSUME NEW s \in TbState, s.open = {}, NEW i \in Nat, NEW close \in Nat, NEW top \in Nat, NEW bottom \in Nat
    PROVE  LET r == FlatBar(s, i, close, top, bottom)
           IN r \in TbState /\ TbMoves(s, r, i)
<1> DEFINE r == FlatBar(s, i, close, top, bottom)
<1>1. TbMoves(s, s, i)
  BY DEF TbMoves, TbStays
<1>2. ASSUME NEW t \in TbTrade, t.entryAt = i, t.exitAt = 0
      PROVE  Enter(s, t) \in TbState /\ TbMoves(s, Enter(s, t), i)
  <2>1. /\ Enter(s, t).open = {t} /\ Enter(s, t).closed = s.closed
        /\ Enter(s, t) \in [open : SUBSET TbTrade, closed : Seq(TbTrade), signals : Nat]
    <3>1. s \in [open : SUBSET TbTrade, closed : Seq(TbTrade), signals : Nat]
      BY DEF TbState
    <3>2. {t} \in SUBSET TbTrade /\ s.signals + 1 \in Nat
      BY <3>1
    <3> QED
      BY <3>1, <3>2, Zenon DEF Enter
  <2>2. Enter(s, t) \in TbState
    BY <1>2, <2>1 DEF TbState
  <2>3. TbEnters(s, Enter(s, t), i)
    BY <1>2, <2>1 DEF TbEnters
  <2> QED
    BY <2>2, <2>3 DEF TbMoves
<1>3. r = s \/ r = Enter(s, OpenTrade("BUY", top, bottom, i)) \/ r = Enter(s, OpenTrade("SELL", bottom, top, i))
  BY DEF FlatBar
<1> HIDE DEF r
<1>4. /\ OpenTrade("BUY", top, bottom, i) \in TbTrade
      /\ OpenTrade("BUY", top, bottom, i).entryAt = i /\ OpenTrade("BUY", top, bottom, i).exitAt = 0
  BY OpenTradeIs
<1>5. /\ OpenTrade("SELL", bottom, top, i) \in TbTrade
      /\ OpenTrade("SELL", bottom, top, i).entryAt = i /\ OpenTrade("SELL", bottom, top, i).exitAt = 0
  BY OpenTradeIs
<1>6. r \in TbState /\ TbMoves(s, r, i)
  BY <1>1, <1>2, <1>3, <1>4, <1>5
<1> QED
  BY <1>6 DEF r

\* A candle trails the stop of the position, or closes it and may reverse it.
LEMMA HeldBarIs ==
    ASSUME NEW s \in TbState, s.open # {}, NEW i \in Nat, NEW close \in Nat, NEW top \in Nat, NEW bottom \in Nat
    PROVE  LET r == HeldBar(s, i, close, top, bottom)
           IN r \in TbState /\ TbMoves(s, r, i)
<1>1. PICK held \in TbTrade : s.open = {held} /\ held.exitAt = 0
  BY DEF TbState
<1>2. (CHOOSE t \in s.open : TRUE) = held
  BY <1>1
<1> DEFINE level == Protecting(held.side, top, bottom)
           t == Trail(held, level)
           side == Opposite(t.side)
           initial == Protecting(side, top, bottom)
           u == CloseTrade(t, i, t.stop, "TRAILING_STOP_REVERSAL")
           after == [s EXCEPT !.open = {}, !.closed = Append(@, u)]
           v == OpenTrade(side, t.stop, initial, i)
           r == HeldBar(s, i, close, top, bottom)
<1>3. level \in Nat /\ initial \in Nat
  BY DEF Protecting
<1>4. t \in TbTrade /\ t.exitAt = held.exitAt /\ Same(held, t)
  <2> HIDE DEF level
  <2> QED
    BY <1>3, TrailIs
<1>5. \/ r = [s EXCEPT !.open = {t}]
      \/ r = after
      \/ r = Enter(after, v)
  BY <1>2 DEF HeldBar
<1> HIDE DEF level, t, initial, r
<1>6. t.stop \in Nat /\ side \in {"BUY", "SELL"} /\ side # t.side
  BY <1>4 DEF TbTrade, Opposite
<1>7. /\ u \in TbTrade /\ u.exitAt = i
      /\ u.side = t.side /\ u.entryAt = t.entryAt /\ u.entry = t.entry /\ u.stop = t.stop
  <2>1. "TRAILING_STOP_REVERSAL" \in TbReason
    BY DEF TbReason
  <2> DEFINE price == t.stop
             why == "TRAILING_STOP_REVERSAL"
  <2>2. price \in Nat /\ why \in TbReason /\ t \in TbTrade
    BY <1>4, <1>6, <2>1
  <2> HIDE DEF price, why
  <2>3. LET w == CloseTrade(t, i, price, why)
        IN /\ w \in TbTrade /\ w.exitAt = i
           /\ w.side = t.side /\ w.entryAt = t.entryAt /\ w.entry = t.entry /\ w.stop = t.stop
    BY <2>2, CloseTradeIs
  <2> QED
    BY <2>3 DEF price, why
<1>8. v \in TbTrade /\ v.side = side /\ v.entryAt = i /\ v.exitAt = 0
  <2> HIDE DEF side
  <2>1. t.stop \in Nat /\ side \in {"BUY", "SELL"} /\ initial \in Nat /\ i \in Nat
    BY <1>3, <1>6
  <2> DEFINE price == t.stop
  <2> HIDE DEF price
  <2>2. price \in Nat
    BY <2>1 DEF price
  <2>3. LET w == OpenTrade(side, price, initial, i)
        IN w \in TbTrade /\ w.side = side /\ w.entryAt = i /\ w.exitAt = 0
    BY <2>1, <2>2, OpenTradeIs
  <2> QED
    BY <2>3 DEF price
<1>9. Same(held, u)
  BY <1>4, <1>7 DEF Same
<1> HIDE DEF u, v, side
<1>10. s \in [open : SUBSET TbTrade, closed : Seq(TbTrade), signals : Nat]
  BY DEF TbState
<1>11. Append(s.closed, u) \in Seq(TbTrade)
  <2>1. s.closed \in Seq(TbTrade)
    BY <1>10
  <2> QED
    BY <1>7, <2>1
<1>12. CASE r = [s EXCEPT !.open = {t}]
  <2>1. r.open = {t} /\ r.closed = s.closed /\ r \in [open : SUBSET TbTrade, closed : Seq(TbTrade), signals : Nat]
    <3>1. {t} \in SUBSET TbTrade
      BY <1>4
    <3> QED
      BY <1>10, <1>12, <3>1, Zenon
  <2>2. TbTrails(s, r)
    BY <1>1, <1>4, <2>1 DEF TbTrails
  <2>3. r \in TbState
    BY <1>1, <1>4, <2>1 DEF TbState
  <2> QED
    BY <2>2, <2>3 DEF TbMoves, r
<1>13. /\ after.open = {} /\ after.closed = Append(s.closed, u)
       /\ after \in [open : SUBSET TbTrade, closed : Seq(TbTrade), signals : Nat]
  <2>1. {} \in SUBSET TbTrade
    OBVIOUS
  <2> QED
    BY <1>10, <1>11, <2>1, Zenon
<1> HIDE DEF after
<1>14. CASE r = after
  <2>1. TbExits(s, r, i)
    BY <1>1, <1>7, <1>9, <1>13, <1>14 DEF TbExits
  <2>2. r \in TbState
    BY <1>13, <1>14 DEF TbState
  <2> QED
    BY <2>1, <2>2 DEF TbMoves, r
<1>15. CASE r = Enter(after, v)
  <2>1. /\ r.open = {v} /\ r.closed = after.closed
        /\ r \in [open : SUBSET TbTrade, closed : Seq(TbTrade), signals : Nat]
    <3>1. {v} \in SUBSET TbTrade /\ after.signals + 1 \in Nat
      BY <1>8, <1>13
    <3> QED
      BY <1>13, <1>15, <3>1, Zenon DEF Enter
  <2>2. v.side # u.side
    BY <1>6, <1>7, <1>8
  <2>3. TbExits(s, r, i)
    BY <1>1, <1>7, <1>8, <1>9, <1>13, <2>1, <2>2 DEF TbExits
  <2>4. r \in TbState
    BY <1>8, <2>1 DEF TbState
  <2> QED
    BY <2>3, <2>4 DEF TbMoves, r
<1> QED
  BY <1>5, <1>12, <1>14, <1>15

\* Every candle makes one of these moves.
LEMMA BarIs ==
    ASSUME NEW c \in Seq(Nat), NEW i \in 1 .. Len(c), NEW s \in TbState
    PROVE  Bar(c, s, i) \in TbState /\ TbMoves(s, Bar(c, s, i), i)
<1>1. i \in Nat /\ i \in 0 .. Len(c) /\ c[i] \in Nat
  OBVIOUS
<1>2. LatestLevel(c, i, "TOP") \in Nat /\ LatestLevel(c, i, "BOTTOM") \in Nat
  BY <1>1, LevelIs
<1>3. CASE s.open = {}
  BY <1>1, <1>2, <1>3, FlatBarIs DEF Bar
<1>4. CASE s.open # {}
  BY <1>1, <1>2, <1>4, HeldBarIs DEF Bar
<1> QED
  BY <1>3, <1>4

\* The state after each candle.
TbRuns(c) ==
    CHOOSE run : run = [i \in 0 .. Len(c) |-> IF i = 0 THEN Idle ELSE Bar(c, run[i - 1], i)]

LEMMA TbRunsAre ==
    ASSUME NEW c \in Seq(Nat)
    PROVE  /\ \A i \in 0 .. Len(c) : TbRuns(c)[i] \in TbState
           /\ TbRuns(c)[0] = Idle
           /\ \A i \in 1 .. Len(c) : TbRuns(c)[i] = Bar(c, TbRuns(c)[i - 1], i)
           /\ TopBottomRun(c) = TbRuns(c)[Len(c)]
<1> DEFINE n == Len(c)
           Body(f) == [i \in 0 .. n |-> IF i = 0 THEN Idle ELSE Bar(c, f[i - 1], i)]
           step == [q \in TbState \X (0 .. n) |-> IF q[2] = 0 THEN Idle ELSE Bar(c, q[1], q[2])]
           run == TbRuns(c)
<1>0. n \in Nat
  OBVIOUS
<1>1. Idle \in TbState
  <2>1. << >> \in Seq(TbTrade)
    OBVIOUS
  <2> QED
    BY <2>1 DEF Idle, TbState
<1>2. \E f : f = Body(f)
  <2>1. step \in [TbState \X (0 .. n) -> TbState]
    <3> SUFFICES ASSUME NEW s \in TbState, NEW i \in 0 .. n
                 PROVE  (IF i = 0 THEN Idle ELSE Bar(c, s, i)) \in TbState
      OBVIOUS
    <3>1. i # 0 => i \in 1 .. n
      OBVIOUS
    <3> QED
      BY <1>1, <3>1, BarIs
  <2>2. PICK f : IsRun(f, 0, n, TbState, Idle, step)
    <3>1. step \in StepsOn(TbState, 0, n) /\ 0 \in Int /\ n \in Int
      BY <1>0, <2>1 DEF StepsOn
    <3> HIDE DEF n, step
    <3> QED
      BY <1>1, <3>1, Recursion
  <2>3. ASSUME NEW i \in 0 .. n
        PROVE  f[i] = Body(f)[i]
    <3>1. CASE i = 0
      BY <1>0, <2>2, <3>1 DEF IsRun
    <3>2. CASE i # 0
      <4>1. i \in 0 + 1 .. n /\ f[i - 1] \in TbState
        BY <1>0, <3>2, <2>2 DEF IsRun
      <4> QED
        BY <1>0, <2>2, <4>1, <3>2 DEF IsRun
    <3> QED
      BY <3>1, <3>2
  <2>4. f = Body(f)
    BY <1>0, <2>2, <2>3 DEF IsRun
  <2> QED
    BY <2>4
<1>3. run = Body(run)
  <2>1. run = CHOOSE f : f = Body(f)
    BY DEF TbRuns
  <2> HIDE DEF Body, run
  <2> QED
    BY <1>2, <2>1
<1>4. TopBottomRun(c) = run[n]
  BY DEF TopBottomRun, TbRuns, Bar
<1>5. /\ run[0] = Idle
      /\ \A i \in 1 .. n : run[i] = Bar(c, run[i - 1], i)
  <2> HIDE DEF run, n
  <2> QED
    BY <1>0, <1>3
<1>6. \A i \in 0 .. n : run[i] \in TbState
  <2> DEFINE S == {i \in 0 .. n : run[i] \in TbState}
  <2>1. 0 \in S
    BY <1>0, <1>1, <1>5
  <2>2. ASSUME NEW i \in 0 + 1 .. n, i - 1 \in S
        PROVE  i \in S
    <3>1. i \in 1 .. n /\ run[i - 1] \in TbState /\ run[i] = Bar(c, run[i - 1], i)
      BY <1>0, <1>5, <2>2
    <3> HIDE DEF run
    <3> QED
      BY <3>1, BarIs
  <2>3. 0 .. n \subseteq S
    <3>1. 0 \in Int /\ n \in Int
      BY <1>0
    <3> HIDE DEF S, n
    <3> QED
      BY <2>1, <2>2, <3>1, Upward
  <2> QED
    BY <2>3 DEF S
<1> QED
  BY <1>4, <1>5, <1>6

\* With one close more the engine makes one move more.
LEMMA TopBottomContinues ==
    ASSUME NEW c \in Seq(Nat), NEW e \in Seq(Nat), Continues(e, c), Len(e) = Len(c) + 1
    PROVE  /\ TopBottomRun(c) \in TbState /\ TopBottomRun(e) \in TbState
           /\ TbMoves(TopBottomRun(c), TopBottomRun(e), Len(e))
<1> DEFINE n == Len(c)
<1>0. n \in Nat /\ Len(e) = n + 1
  OBVIOUS
<1>1. \A i \in 1 .. n : e[i] = c[i]
  BY DEF Continues
<1>2. \A i \in 0 .. n : TbRuns(e)[i] = TbRuns(c)[i]
  <2> DEFINE S == {i \in 0 .. n : TbRuns(e)[i] = TbRuns(c)[i]}
  <2>1. 0 \in S
    BY <1>0, TbRunsAre
  <2>2. ASSUME NEW i \in 0 + 1 .. n, i - 1 \in S
        PROVE  i \in S
    <3>1. i \in 1 .. n /\ i \in 1 .. Len(e) /\ i \in 0 .. Len(c)
      BY <1>0
    <3>2. TbRuns(e)[i] = Bar(e, TbRuns(e)[i - 1], i) /\ TbRuns(c)[i] = Bar(c, TbRuns(c)[i - 1], i)
      BY <3>1, TbRunsAre
    <3>3. TbRuns(e)[i - 1] = TbRuns(c)[i - 1]
      BY <2>2
    <3>4. /\ LatestLevel(e, i, "TOP") = LatestLevel(c, i, "TOP")
          /\ LatestLevel(e, i, "BOTTOM") = LatestLevel(c, i, "BOTTOM")
      BY <3>1, LevelStays
    <3>5. Bar(e, TbRuns(c)[i - 1], i) = Bar(c, TbRuns(c)[i - 1], i)
      BY <1>1, <3>1, <3>4 DEF Bar
    <3> QED
      BY <3>1, <3>2, <3>3, <3>5
  <2>3. 0 .. n \subseteq S
    <3>1. 0 \in Int /\ n \in Int
      BY <1>0
    <3> HIDE DEF S, n
    <3> QED
      BY <2>1, <2>2, <3>1, Upward
  <2> QED
    BY <2>3 DEF S
<1>3. n \in 0 .. n /\ n + 1 \in 1 .. Len(e) /\ n + 1 - 1 = n
  BY <1>0
<1>4. TbRuns(e)[n + 1] = Bar(e, TbRuns(e)[n + 1 - 1], n + 1)
  BY <1>3, TbRunsAre
<1>5. TopBottomRun(c) = TbRuns(c)[n] /\ TopBottomRun(e) = TbRuns(e)[n + 1] /\ TbRuns(c)[n] \in TbState
  BY <1>0, <1>3, TbRunsAre
<1>6. TopBottomRun(e) = Bar(e, TopBottomRun(c), n + 1)
  BY <1>2, <1>3, <1>4, <1>5
<1> QED
  BY <1>0, <1>3, <1>5, <1>6, BarIs

-----------------------------------------------------------------------------
(* Top-Bottom keeps a trade book.                                          *)

\* What the book knows of a trade.
BookRow ==
    [side : {"BUY", "SELL", "CALL", "PUT", "BOTH"}, entryAt : Nat, entry : Nat, stop : Nat, exitAt : Nat]

\* A sequence that is one longer and begins alike.
LEMMA AppendedIs ==
    ASSUME NEW D, NEW x \in Seq(D), NEW y \in Seq(D), Len(y) = Len(x) + 1, \A k \in 1 .. Len(x) : y[k] = x[k]
    PROVE  y # << >> /\ y = Append(x, y[Len(y)]) /\ y[Len(y)] \in D
<1> DEFINE t == y[Len(y)]
           z == Append(x, t)
<1>1. Len(x) \in Nat /\ Len(y) \in Nat /\ Len(y) \in 1 .. Len(y) /\ y # << >>
  OBVIOUS
<1>2. t \in D
  BY <1>1
<1> HIDE DEF t
<1>3. z \in Seq(D) /\ Len(z) = Len(x) + 1 /\ z[Len(x) + 1] = t /\ \A k \in 1 .. Len(x) : z[k] = x[k]
  BY <1>2
<1>4. \A k \in 1 .. Len(y) : y[k] = z[k]
  <2> TAKE k \in 1 .. Len(y)
  <2>1. CASE k \in 1 .. Len(x)
    BY <2>1, <1>3
  <2>2. CASE k = Len(x) + 1
    BY <2>2, <1>3 DEF t
  <2> QED
    BY <1>1, <2>1, <2>2
<1> HIDE DEF z
<1>5. y = z
  BY <1>3, <1>4, SameSequence
<1> QED
  BY <1>1, <1>2, <1>5 DEF z, t

\* The trades of the engine as rows of the book.
TbRows(c) == [k \in 1 .. Len(c) |-> Row(c[k], c[k].stop)]

LEMMA TbRowIs ==
    ASSUME NEW t \in TbTrade
    PROVE  LET r == Row(t, t.stop)
           IN /\ r \in BookRow
              /\ r.side = t.side /\ r.entryAt = t.entryAt /\ r.entry = t.entry /\ r.stop = t.stop
              /\ r.exitAt = t.exitAt
BY DEF Row, TbTrade, BookRow

LEMMA TbRowsAre ==
    ASSUME NEW c \in Seq(TbTrade)
    PROVE  /\ TbRows(c) \in Seq(BookRow) /\ Len(TbRows(c)) = Len(c)
           /\ \A u \in TbTrade : TbRows(Append(c, u)) = Append(TbRows(c), Row(u, u.stop))
<1>1. ASSUME NEW d \in Seq(TbTrade)
      PROVE  /\ TbRows(d) \in Seq(BookRow) /\ Len(TbRows(d)) = Len(d)
             /\ \A k \in 1 .. Len(d) : TbRows(d)[k] = Row(d[k], d[k].stop)
  <2>1. Len(d) \in Nat /\ \A k \in 1 .. Len(d) : d[k] \in TbTrade
    OBVIOUS
  <2>2. \A k \in 1 .. Len(d) : Row(d[k], d[k].stop) \in BookRow
    BY <2>1, TbRowIs
  <2> QED
    BY <2>1, <2>2 DEF TbRows
<1>2. ASSUME NEW u \in TbTrade
      PROVE  TbRows(Append(c, u)) = Append(TbRows(c), Row(u, u.stop))
  <2> DEFINE d == Append(c, u)
             x == TbRows(c)
             y == TbRows(d)
  <2>1. /\ d \in Seq(TbTrade) /\ Len(d) = Len(c) + 1 /\ Len(c) \in Nat /\ d[Len(c) + 1] = u
        /\ \A k \in 1 .. Len(c) : d[k] = c[k]
    OBVIOUS
  <2> HIDE DEF d
  <2>2. /\ x \in Seq(BookRow) /\ Len(x) = Len(c) /\ \A k \in 1 .. Len(c) : x[k] = Row(c[k], c[k].stop)
        /\ y \in Seq(BookRow) /\ Len(y) = Len(d) /\ \A k \in 1 .. Len(d) : y[k] = Row(d[k], d[k].stop)
    BY <1>1, <2>1
  <2> HIDE DEF x, y
  <2>3. Len(y) = Len(x) + 1 /\ \A k \in 1 .. Len(x) : y[k] = x[k]
    BY <2>1, <2>2
  <2>4. y = Append(x, y[Len(y)])
    BY <2>2, <2>3, AppendedIs
  <2>5. y[Len(y)] = Row(u, u.stop)
    BY <2>1, <2>2
  <2> QED
    BY <2>4, <2>5 DEF x, y, d
<1> QED
  BY <1>1, <1>2

\* Every move of the engine is a step of the book.
LEMMA TopBottomKeepsBook ==
    ASSUME part = "top_bottom", part' = part, report \in TbState, report' \in TbState,
           TbMoves(report, report', Len(bars')), Len(bars') = Len(bars) + 1
    PROVE  Book!Next
<1>1. /\ report.open \in SUBSET TbTrade /\ report.closed \in Seq(TbTrade)
      /\ report'.open \in SUBSET TbTrade /\ report'.closed \in Seq(TbTrade)
  BY DEF TbState
<1>2. BookedTrades = TbRows(report.closed) /\ BookedTrades' = TbRows(report'.closed)
  BY DEF BookedTrades, TbRows
<1>3. /\ Position = {Row(t, t.stop) : t \in report.open}
      /\ Position' = {Row(t, t.stop) : t \in report'.open}
  BY DEF Position
<1>4. BookedTrades \in Seq(BookRow) /\ BookedTrades' \in Seq(BookRow)
  BY <1>1, <1>2, TbRowsAre
<1>5. ASSUME NEW t \in TbTrade, NEW u \in TbTrade, Same(t, u)
      PROVE  Book!SameTrade(Row(t, t.stop), Row(u, u.stop)) /\ Book!Ratchets(Row(t, t.stop), Row(u, u.stop))
  <2>1. t.side \in {"BUY", "SELL"}
    BY DEF TbTrade
  <2> QED
    BY <1>5, <2>1, TbRowIs DEF Same, Book!SameTrade, Book!Ratchets
<1> SUFFICES Book!Hold \/ Book!Enter \/ Book!Trail \/ Book!Exit \/ Book!Reverse
  BY DEF Book!Next
<1>6. CASE TbStays(report, report')
  BY <1>2, <1>3, <1>6 DEF TbStays, Book!Hold
<1>7. CASE TbEnters(report, report', Len(bars'))
  <2>1. PICK t \in TbTrade : t.entryAt = Len(bars') /\ report'.open = {t}
    BY <1>7 DEF TbEnters
  <2>2. Position = {} /\ Position' = {Row(t, t.stop)} /\ BookedTrades' = BookedTrades
    BY <1>2, <1>3, <1>7, <2>1 DEF TbEnters
  <2>3. Row(t, t.stop).entryAt = Len(bars')
    BY <2>1, TbRowIs
  <2> QED
    BY <2>2, <2>3 DEF Book!Enter, Book!Fresh
<1>8. CASE TbTrails(report, report')
  <2>1. PICK t \in TbTrade, u \in TbTrade : report.open = {t} /\ report'.open = {u} /\ Same(t, u)
    BY <1>8 DEF TbTrails
  <2>2. Position = {Row(t, t.stop)} /\ Position' = {Row(u, u.stop)} /\ BookedTrades' = BookedTrades
    BY <1>2, <1>3, <1>8, <2>1 DEF TbTrails
  <2>3. Book!SameTrade(Row(t, t.stop), Row(u, u.stop)) /\ Book!Ratchets(Row(t, t.stop), Row(u, u.stop))
    BY <1>5, <2>1
  <2> QED
    BY <2>2, <2>3 DEF Book!Trail
<1>9. CASE TbExits(report, report', Len(bars'))
  <2>1. PICK t \in TbTrade, u \in TbTrade :
            /\ report.open = {t} /\ Same(t, u) /\ u.exitAt = Len(bars') /\ report'.closed = Append(report.closed, u)
            /\ \/ report'.open = {}
               \/ \E v \in TbTrade :
                      report'.open = {v} /\ v.entryAt = Len(bars') /\ v.exitAt = 0 /\ v.side # u.side
    BY <1>9 DEF TbExits
  <2> DEFINE x == Row(u, u.stop)
  <2>2. Position = {Row(t, t.stop)} /\ BookedTrades' = Append(BookedTrades, x)
    BY <1>1, <1>2, <1>3, <2>1, TbRowsAre
  <2>3. x \in BookRow /\ x.exitAt = Len(bars') /\ x.side = u.side
    BY <2>1, TbRowIs
  <2>4. Book!SameTrade(Row(t, t.stop), x) /\ Book!Ratchets(Row(t, t.stop), x)
    BY <1>5, <2>1
  <2> HIDE DEF x
  <2>5. Book!NewlyBooked = x /\ BookedTrades' # << >>
    BY <1>4, <2>2, <2>3 DEF Book!NewlyBooked
  <2>6. Book!Books(Book!NewlyBooked)
    BY <2>2, <2>3, <2>5 DEF Book!Books
  <2>7. CASE report'.open = {}
    <3>1. Position' = {}
      BY <1>3, <2>7
    <3> QED
      BY <2>2, <2>4, <2>5, <2>6, <3>1 DEF Book!Exit
  <2>8. ASSUME NEW v \in TbTrade, report'.open = {v}, v.entryAt = Len(bars'), v.side # u.side
        PROVE  Book!Reverse
    <3>1. Position' = {Row(v, v.stop)}
      BY <1>3, <2>8
    <3>2. Row(v, v.stop).entryAt = Len(bars') /\ Row(v, v.stop).side # x.side
      BY <2>3, <2>8, TbRowIs
    <3> QED
      BY <2>2, <2>4, <2>5, <2>6, <3>1, <3>2 DEF Book!Reverse, Book!Fresh
  <2> QED
    BY <2>1, <2>7, <2>8
<1> QED
  BY <1>6, <1>7, <1>8, <1>9 DEF TbMoves

-----------------------------------------------------------------------------
(* System One and GFS: the loop over the candles.                          *)

S1Reason ==
    {"OPEN", "GAP_OPEN_BELOW_MA", "STOP_AT_MA", "GAP_OPEN_BELOW_STOP", "STOP_HIT", "WEEKLY_RSI_EXIT"}
S1Trade ==
    [side : {"BUY"}, signalAt : Nat, entryAt : Nat, entry : Nat, stop : Nat, qty : Int,
     exitAt : Nat, exit : Nat, reason : S1Reason, gap : BOOLEAN]
S1Exit == [at : Nat, price : Nat, reason : S1Reason]
S1Skip == [at : Nat, why : {"last candle", "no stop", "not above the stop", "quantity 0"}]
S1State == [trades : Seq(S1Trade), skipped : Seq(S1Skip), next : Nat]

\* Trade u is trade t, ended or not, checked for holes or not.
SameEntry(t, u) ==
    /\ u.side = t.side /\ u.signalAt = t.signalAt /\ u.entryAt = t.entryAt /\ u.entry = t.entry
    /\ u.stop = t.stop /\ u.qty = t.qty

\* A trade as the loop books it.
LEMMA TakenIs ==
    ASSUME NEW s \in Seq(CandleSet), NEW i \in 1 .. Len(s) - 1,
           NEW stop \in [1 .. Len(s) -> Nat], NEW exit \in [1 .. Len(s) -> S1Exit],
           Refused(s, stop, i) = "no"
    PROVE  LET t == Taken(s, stop, exit, i)
               d == s[i + 1].c - stop[i + 1]
           IN /\ t \in S1Trade
              /\ t.side = "BUY" /\ t.signalAt = i /\ t.entryAt = i + 1 /\ t.entry = s[i + 1].c
              /\ t.stop = stop[i + 1] /\ t.qty = Quantity(s[i + 1].c, stop[i + 1])
              /\ t.exitAt = exit[i + 1].at /\ t.exit = exit[i + 1].price /\ t.reason = exit[i + 1].reason
              /\ d \in Nat \ {0} /\ t.qty \in Nat \ {0} /\ t.qty = RiskPerTrade \div d
<1> DEFINE e == i + 1
           d == s[e].c - stop[e]
           q == Quantity(s[e].c, stop[e])
           t == Taken(s, stop, exit, i)
<1>1. Len(s) \in Nat /\ i \in Nat /\ e \in 1 .. Len(s) /\ e \in Nat
  OBVIOUS
<1>2. s[e] \in CandleSet /\ s[e].c \in Nat
  <2>1. s[e] \in CandleSet
    BY <1>1
  <2> QED
    BY <2>1 DEF CandleSet, Price
<1>3. stop[e] \in Nat /\ exit[e] \in S1Exit
  BY <1>1
<1>4. exit[e].at \in Nat /\ exit[e].price \in Nat /\ exit[e].reason \in S1Reason
  BY <1>3 DEF S1Exit
<1> HIDE DEF e
<1>5. ~(s[e].c <= stop[e]) /\ ~(q < 1)
  BY DEF Refused, e
<1>6. d \in Nat \ {0}
  BY <1>2, <1>3, <1>5
<1> HIDE DEF d
<1>7. q = RiskPerTrade \div d /\ RiskPerTrade \in Nat
  BY SystemOneAssumption DEF Quantity, d
<1>8. q \in Int
  BY <1>6, <1>7
<1>9. q \in Nat \ {0}
  BY <1>5, <1>8
<1>10. t = [Long(i, s[e].c, stop[e], q) EXCEPT !.exitAt = exit[e].at, !.exit = exit[e].price, !.reason = exit[e].reason]
  BY DEF Taken, e
<1> HIDE DEF q, t
<1> DEFINE open == Long(i, s[e].c, stop[e], q)
<1>11. /\ open \in S1Trade
       /\ open.side = "BUY" /\ open.signalAt = i /\ open.entryAt = i + 1 /\ open.entry = s[e].c
       /\ open.stop = stop[e] /\ open.qty = q
  <2>1. NoLevel \in Nat /\ i + 1 \in Nat /\ 0 \in Nat
    BY <1>1 DEF NoLevel
  <2>2. "OPEN" \in S1Reason
    BY DEF S1Reason
  <2> QED
    BY <1>1, <1>2, <1>3, <1>8, <2>1, <2>2 DEF Long, S1Trade
<1> HIDE DEF open
<1>12. t = [open EXCEPT !.exitAt = exit[e].at, !.exit = exit[e].price, !.reason = exit[e].reason]
  BY <1>10 DEF open
<1>13. /\ t \in S1Trade
       /\ t.side = open.side /\ t.signalAt = open.signalAt /\ t.entryAt = open.entryAt /\ t.entry = open.entry
       /\ t.stop = open.stop /\ t.qty = open.qty
       /\ t.exitAt = exit[e].at /\ t.exit = exit[e].price /\ t.reason = exit[e].reason
  BY <1>4, <1>11, <1>12 DEF S1Trade
<1> QED
  BY <1>6, <1>7, <1>9, <1>11, <1>13 DEF t, q, d, e

\* What the loop is given: candles, their signals, stops and exits.
LoopData(s, from, signal, stop, exit) ==
    /\ s \in Seq(CandleSet) /\ from \in Nat
    /\ signal \in [1 .. Len(s) -> BOOLEAN]
    /\ stop \in [1 .. Len(s) -> Nat] /\ exit \in [1 .. Len(s) -> S1Exit]

\* When the loop takes a trade.
Takes(s, from, signal, stop, m, i) ==
    /\ ~(i < m.next) /\ ~(s[i].day < from) /\ signal[i]
    /\ i # Len(s) /\ Refused(s, stop, i) = "no"

LEMMA LookIs ==
    ASSUME NEW s, NEW from, NEW signal, NEW stop, NEW exit, LoopData(s, from, signal, stop, exit),
           NEW i \in 1 .. Len(s), NEW m \in S1State
    PROVE  LET r == Look(s, from, signal, stop, exit, m, i)
               t == Taken(s, stop, exit, i)
           IN /\ r \in S1State
              /\ ~Takes(s, from, signal, stop, m, i) => r.trades = m.trades /\ r.next = m.next
              /\ Takes(s, from, signal, stop, m, i) =>
                     /\ i \in 1 .. Len(s) - 1 /\ t \in S1Trade
                     /\ r.trades = Append(m.trades, t)
                     /\ r.next = IF IsOpen(t) THEN Len(s) + 1 ELSE t.exitAt + 1
<1> DEFINE r == Look(s, from, signal, stop, exit, m, i)
           t == Taken(s, stop, exit, i)
<1>1. /\ Len(s) \in Nat /\ i \in Nat
      /\ m.trades \in Seq(S1Trade) /\ m.skipped \in Seq(S1Skip) /\ m.next \in Nat
  BY DEF S1State, LoopData
<1>2. i # Len(s) => i \in 1 .. Len(s) - 1
  BY <1>1
<1>3. ASSUME NEW why \in {"last candle", "no stop", "not above the stop", "quantity 0"}
      PROVE  LET x == [m EXCEPT !.skipped = Append(@, NoTrade(i, why))]
             IN x \in S1State /\ x.trades = m.trades /\ x.next = m.next
  <2> DEFINE skip == NoTrade(i, why)
             list == Append(m.skipped, skip)
             x == [m EXCEPT !.skipped = list]
  <2>1. skip \in S1Skip
    BY <1>1 DEF NoTrade, S1Skip
  <2> HIDE DEF skip
  <2>2. list \in Seq(S1Skip)
    <3>1. m.skipped \in Seq(S1Skip)
      BY <1>1
    <3> QED
      BY <2>1, <3>1, AppendProperties, Zenon
  <2> HIDE DEF list
  <2>3. x \in S1State /\ x.trades = m.trades /\ x.next = m.next
    BY <2>2 DEF S1State
  <2> QED
    BY <2>3 DEF list, skip
<1>4. Refused(s, stop, i) \in {"no", "no stop", "not above the stop", "quantity 0"}
  BY DEF Refused
<1> USE DEF LoopData
<1>5. CASE Takes(s, from, signal, stop, m, i)
  <2>1. i \in 1 .. Len(s) - 1 /\ Refused(s, stop, i) = "no" /\ i # Len(s)
    BY <1>2, <1>5 DEF Takes
  <2>2. t \in S1Trade
    BY <2>1, TakenIs DEF LoopData
  <2> DEFINE list == Append(m.trades, t)
             next == IF IsOpen(t) THEN Len(s) + 1 ELSE t.exitAt + 1
  <2>3. r = [m EXCEPT !.trades = list, !.next = next]
    BY <2>1, <1>5 DEF Look, Takes
  <2> HIDE DEF t, r
  <2>4. list \in Seq(S1Trade)
    BY <1>1, <2>2
  <2>5. next \in Nat
    <3>1. t.exitAt \in Nat
      BY <2>2 DEF S1Trade
    <3> QED
      BY <1>1, <3>1
  <2> HIDE DEF list, next
  <2>6. r \in S1State /\ r.trades = list /\ r.next = next
    BY <2>3, <2>4, <2>5 DEF S1State
  <2> QED
    BY <1>5, <2>1, <2>2, <2>6 DEF t, r, list, next
<1>6. CASE ~Takes(s, from, signal, stop, m, i)
  <2>1. \/ r = m
        \/ r = [m EXCEPT !.skipped = Append(@, NoTrade(i, "last candle"))]
        \/ /\ Refused(s, stop, i) # "no"
           /\ r = [m EXCEPT !.skipped = Append(@, NoTrade(i, Refused(s, stop, i)))]
    BY <1>6 DEF Look, Takes
  <2> HIDE DEF r
  <2>2. r \in S1State /\ r.trades = m.trades /\ r.next = m.next
    BY <1>3, <1>4, <2>1
  <2> QED
    BY <1>6, <2>2 DEF r
<1> QED
  BY <1>5, <1>6

\* A trade that is open keeps the loop from any other candle.
LEMMA LookTakes ==
    ASSUME NEW s, NEW from, NEW signal, NEW stop, NEW exit, LoopData(s, from, signal, stop, exit),
           NEW i \in 1 .. Len(s), NEW m \in S1State, Takes(s, from, signal, stop, m, i)
    PROVE  LET r == Look(s, from, signal, stop, exit, m, i)
               t == Taken(s, stop, exit, i)
           IN /\ t \in S1Trade /\ r.trades = Append(m.trades, t)
              /\ r.next = IF IsOpen(t) THEN Len(s) + 1 ELSE t.exitAt + 1
BY LookIs

\* The loop candle by candle.
Scans(s, from, signal, stop, exit) ==
    CHOOSE scan : scan = [i \in 0 .. Len(s) |->
        IF i = 0 THEN Unscanned ELSE Look(s, from, signal, stop, exit, scan[i - 1], i)]

LEMMA ScansAre ==
    ASSUME NEW s, NEW from, NEW signal, NEW stop, NEW exit, LoopData(s, from, signal, stop, exit)
    PROVE  LET scan == Scans(s, from, signal, stop, exit)
           IN /\ \A i \in 0 .. Len(s) : scan[i] \in S1State
              /\ scan[0] = Unscanned
              /\ \A i \in 1 .. Len(s) : scan[i] = Look(s, from, signal, stop, exit, scan[i - 1], i)
              /\ Scan(s, from, signal, stop, exit) = scan[Len(s)]
<1> DEFINE n == Len(s)
           look(m, i) == Look(s, from, signal, stop, exit, m, i)
           Body(f) == [i \in 0 .. n |-> IF i = 0 THEN Unscanned ELSE look(f[i - 1], i)]
           step == [q \in S1State \X (0 .. n) |-> IF q[2] = 0 THEN Unscanned ELSE look(q[1], q[2])]
           scan == Scans(s, from, signal, stop, exit)
<1>0. n \in Nat
  BY DEF LoopData
<1>1. Unscanned \in S1State
  <2>1. << >> \in Seq(S1Trade) /\ << >> \in Seq(S1Skip)
    OBVIOUS
  <2> QED
    BY <2>1 DEF Unscanned, S1State
<1>2. ASSUME NEW m \in S1State, NEW i \in 1 .. n
      PROVE  look(m, i) \in S1State
  BY LookIs
<1>3. \E f : f = Body(f)
  <2>1. step \in [S1State \X (0 .. n) -> S1State]
    <3> SUFFICES ASSUME NEW m \in S1State, NEW i \in 0 .. n
                 PROVE  (IF i = 0 THEN Unscanned ELSE look(m, i)) \in S1State
      OBVIOUS
    <3>1. i # 0 => i \in 1 .. n
      BY <1>0
    <3> HIDE DEF look
    <3> QED
      BY <1>1, <1>2, <3>1
  <2>2. PICK f : IsRun(f, 0, n, S1State, Unscanned, step)
    <3>1. step \in StepsOn(S1State, 0, n) /\ 0 \in Int /\ n \in Int
      BY <1>0, <2>1 DEF StepsOn
    <3> HIDE DEF n, step
    <3> QED
      BY <1>1, <3>1, Recursion
  <2> HIDE DEF look
  <2>3. ASSUME NEW i \in 0 .. n
        PROVE  f[i] = Body(f)[i]
    <3>1. CASE i = 0
      BY <1>0, <2>2, <3>1 DEF IsRun
    <3>2. CASE i # 0
      <4>1. i \in 0 + 1 .. n /\ i - 1 \in 0 .. n
        BY <1>0, <3>2
      <4>2. f[i - 1] \in S1State /\ f[i] = step[<<f[i - 1], i>>]
        BY <2>2, <4>1 DEF IsRun
      <4> QED
        BY <4>2, <3>2
    <3> QED
      BY <3>1, <3>2
  <2>4. f = Body(f)
    BY <1>0, <2>2, <2>3 DEF IsRun
  <2> QED
    BY <2>4
<1>4. scan = Body(scan)
  <2>1. scan = CHOOSE f : f = Body(f)
    BY DEF Scans
  <2> HIDE DEF Body, scan
  <2> QED
    BY <1>3, <2>1
<1>5. Scan(s, from, signal, stop, exit) = scan[n]
  BY DEF Scan, Scans
<1>6. /\ scan[0] = Unscanned
      /\ \A i \in 1 .. n : scan[i] = look(scan[i - 1], i)
  <2> HIDE DEF scan, n, look
  <2> QED
    BY <1>0, <1>4
<1>7. \A i \in 0 .. n : scan[i] \in S1State
  <2> DEFINE S == {i \in 0 .. n : scan[i] \in S1State}
  <2> HIDE DEF scan, look
  <2>1. 0 \in S
    BY <1>0, <1>1, <1>6
  <2>2. ASSUME NEW i \in 0 + 1 .. n, i - 1 \in S
        PROVE  i \in S
    <3>1. i \in 1 .. n /\ scan[i - 1] \in S1State /\ scan[i] = look(scan[i - 1], i)
      BY <1>0, <1>6, <2>2
    <3> QED
      BY <3>1, <1>2
  <2>3. 0 .. n \subseteq S
    <3>1. 0 \in Int /\ n \in Int
      BY <1>0
    <3> HIDE DEF S, n
    <3> QED
      BY <2>1, <2>2, <3>1, Upward
  <2> QED
    BY <2>3 DEF S
<1> QED
  BY <1>5, <1>6, <1>7

\* A trade that the loop may have taken.
FromSignal(s, signal, stop, exit, t) ==
    \E i \in 1 .. Len(s) - 1 :
        signal[i] /\ Refused(s, stop, i) = "no" /\ t = Taken(s, stop, exit, i)

\* After an open trade the loop looks at no other candle.
LoopInv(s, signal, stop, exit, m) ==
    /\ \A k \in 1 .. Len(m.trades) : FromSignal(s, signal, stop, exit, m.trades[k])
    /\ \A k \in 1 .. Len(m.trades) :
           IsOpen(m.trades[k]) => k = Len(m.trades) /\ m.next = Len(s) + 1

LEMMA LookKeepsInv ==
    ASSUME NEW s, NEW from, NEW signal, NEW stop, NEW exit, LoopData(s, from, signal, stop, exit),
           NEW i \in 1 .. Len(s), NEW m \in S1State, LoopInv(s, signal, stop, exit, m)
    PROVE  LoopInv(s, signal, stop, exit, Look(s, from, signal, stop, exit, m, i))
<1> DEFINE r == Look(s, from, signal, stop, exit, m, i)
           t == Taken(s, stop, exit, i)
<1>1. CASE ~Takes(s, from, signal, stop, m, i)
  <2>1. r.trades = m.trades /\ r.next = m.next
    BY <1>1, LookIs
  <2> HIDE DEF r
  <2>2. LoopInv(s, signal, stop, exit, r)
    BY <2>1 DEF LoopInv
  <2> QED
    BY <2>2 DEF r
<1>2. CASE Takes(s, from, signal, stop, m, i)
  <2>1. /\ i \in 1 .. Len(s) - 1 /\ t \in S1Trade
        /\ r.trades = Append(m.trades, t)
        /\ r.next = IF IsOpen(t) THEN Len(s) + 1 ELSE t.exitAt + 1
    BY <1>2, LookIs
  <2>2. FromSignal(s, signal, stop, exit, t)
    BY <1>2, <2>1 DEF FromSignal, Takes
  <2>3. m.trades \in Seq(S1Trade) /\ Len(s) \in Nat /\ m.next \in Nat /\ i \in Nat /\ ~(i < m.next)
    BY <1>2 DEF S1State, Takes, LoopData
  <2> HIDE DEF r, t
  <2>4. /\ Len(r.trades) = Len(m.trades) + 1 /\ Len(m.trades) \in Nat
        /\ r.trades[Len(m.trades) + 1] = t
        /\ \A k \in 1 .. Len(m.trades) : r.trades[k] = m.trades[k]
    BY <2>1, <2>3
  <2>5. \A k \in 1 .. Len(m.trades) : ~IsOpen(m.trades[k])
    <3>1. i <= Len(s)
      BY <2>1, <2>3
    <3> QED
      BY <2>3, <3>1 DEF LoopInv
  <2>6. LoopInv(s, signal, stop, exit, r)
    <3>1. ASSUME NEW k \in 1 .. Len(r.trades)
          PROVE  /\ FromSignal(s, signal, stop, exit, r.trades[k])
                 /\ IsOpen(r.trades[k]) => k = Len(r.trades) /\ r.next = Len(s) + 1
      <4>1. CASE k \in 1 .. Len(m.trades)
        BY <2>4, <2>5, <4>1 DEF LoopInv
      <4>2. CASE k = Len(m.trades) + 1
        BY <2>1, <2>2, <2>4, <4>2
      <4> QED
        BY <2>4, <4>1, <4>2
    <3> QED
      BY <3>1 DEF LoopInv
  <2> QED
    BY <2>6 DEF r
<1> QED
  BY <1>1, <1>2

\* What the trades of a finished loop are.
LEMMA ScanIs ==
    ASSUME NEW s, NEW from, NEW signal, NEW stop, NEW exit, LoopData(s, from, signal, stop, exit)
    PROVE  /\ \A i \in 0 .. Len(s) : LoopInv(s, signal, stop, exit, Scans(s, from, signal, stop, exit)[i])
           /\ Scan(s, from, signal, stop, exit) \in S1State
           /\ LoopInv(s, signal, stop, exit, Scan(s, from, signal, stop, exit))
<1> DEFINE n == Len(s)
           scan == Scans(s, from, signal, stop, exit)
           S == {i \in 0 .. n : LoopInv(s, signal, stop, exit, scan[i])}
<1>0. n \in Nat
  BY DEF LoopData
<1>1. /\ \A i \in 0 .. n : scan[i] \in S1State
      /\ scan[0] = Unscanned
      /\ \A i \in 1 .. n : scan[i] = Look(s, from, signal, stop, exit, scan[i - 1], i)
      /\ Scan(s, from, signal, stop, exit) = scan[n]
  BY ScansAre
<1> HIDE DEF scan
<1>2. 0 \in S
  <2>1. Len(scan[0].trades) = 0
    BY <1>1 DEF Unscanned
  <2>2. LoopInv(s, signal, stop, exit, scan[0])
    BY <2>1 DEF LoopInv
  <2> QED
    BY <1>0, <2>2
<1>3. ASSUME NEW i \in 0 + 1 .. n, i - 1 \in S
      PROVE  i \in S
  <2>1. i \in 1 .. Len(s) /\ scan[i - 1] \in S1State /\ LoopInv(s, signal, stop, exit, scan[i - 1])
    BY <1>0, <1>1, <1>3
  <2>2. LoopInv(s, signal, stop, exit, scan[i])
    BY <1>1, <2>1, LookKeepsInv
  <2> QED
    BY <2>1, <2>2
<1>4. 0 .. n \subseteq S
  <2>1. 0 \in Int /\ n \in Int
    BY <1>0
  <2> HIDE DEF S, n
  <2> QED
    BY <1>2, <1>3, <2>1, Upward
<1>5. n \in 0 .. n
  BY <1>0
<1> QED
  BY <1>1, <1>4, <1>5 DEF scan

\* The loop over one candle more.
AllEnded(trades) == \A k \in 1 .. Len(trades) : ~IsOpen(trades[k])
StaysOrEnds(t, u, n) == u = t \/ (IsOpen(t) /\ SameEntry(t, u) /\ u.exitAt = n + 1)
ExitStays(x, y, n) == y = x \/ (x.at = 0 /\ y.at = n + 1)
Lockstep(m, w, n) ==
    /\ Len(w.trades) = Len(m.trades)
    /\ \A k \in 1 .. Len(m.trades) : StaysOrEnds(m.trades[k], w.trades[k], n)
    /\ IF AllEnded(m.trades) THEN w.next = m.next ELSE m.next = n + 1 /\ w.next = n + 2

\* What the trades of n candles become with another candle.
TradesContinue(x, y, n) ==
    \/ Len(y) = Len(x) /\ \A k \in 1 .. Len(x) : StaysOrEnds(x[k], y[k], n)
    \/ /\ AllEnded(x)
       /\ \E t \in S1Trade : y = Append(x, t) /\ t.entryAt = n + 1 /\ IsOpen(t)

\* A trade is taken alike, and only its end can be new.
LEMMA TakenStays ==
    ASSUME NEW s \in Seq(CandleSet), NEW t \in Seq(CandleSet), Continues(t, s), NEW i \in 1 .. Len(s) - 1,
           NEW stop \in [1 .. Len(s) -> Nat], NEW later \in [1 .. Len(t) -> Nat],
           later[i + 1] = stop[i + 1],
           NEW exit \in [1 .. Len(s) -> S1Exit], NEW ends \in [1 .. Len(t) -> S1Exit],
           ExitStays(exit[i + 1], ends[i + 1], Len(s))
    PROVE  /\ Refused(t, later, i) = Refused(s, stop, i)
           /\ Refused(s, stop, i) = "no" =>
                  StaysOrEnds(Taken(s, stop, exit, i), Taken(t, later, ends, i), Len(s))
<1>1. Len(s) \in Nat /\ Len(t) \in Nat /\ Len(s) <= Len(t) /\ i + 1 \in 1 .. Len(s) /\ i \in 1 .. Len(t) - 1
  <2>1. Len(s) \in Nat /\ Len(t) \in Nat
    OBVIOUS
  <2> QED
    BY <2>1 DEF Continues
<1>2. t[i + 1] = s[i + 1]
  BY <1>1 DEF Continues
<1>3. Refused(t, later, i) = Refused(s, stop, i)
  BY <1>2 DEF Refused
<1>4. ASSUME Refused(s, stop, i) = "no"
      PROVE  StaysOrEnds(Taken(s, stop, exit, i), Taken(t, later, ends, i), Len(s))
  <2> DEFINE a == Taken(s, stop, exit, i)
             b == Taken(t, later, ends, i)
  <2>1. CASE ends[i + 1] = exit[i + 1]
    BY <1>2, <2>1 DEF Taken, StaysOrEnds
  <2>2. CASE exit[i + 1].at = 0 /\ ends[i + 1].at = Len(s) + 1
    <3>1. /\ a.side = "BUY" /\ a.signalAt = i /\ a.entryAt = i + 1 /\ a.entry = s[i + 1].c
          /\ a.stop = stop[i + 1] /\ a.qty = Quantity(s[i + 1].c, stop[i + 1]) /\ a.exitAt = exit[i + 1].at
      BY <1>4, TakenIs
    <3>2. /\ b.side = "BUY" /\ b.signalAt = i /\ b.entryAt = i + 1 /\ b.entry = t[i + 1].c
          /\ b.stop = later[i + 1] /\ b.qty = Quantity(t[i + 1].c, later[i + 1]) /\ b.exitAt = ends[i + 1].at
      <4>1. Refused(t, later, i) = "no"
        BY <1>3, <1>4
      <4>2. i \in 1 .. Len(t) - 1
        BY <1>1
      <4> QED
        BY <4>1, <4>2, TakenIs
    <3> HIDE DEF a, b
    <3>3. StaysOrEnds(a, b, Len(s))
      BY <1>2, <2>2, <3>1, <3>2 DEF StaysOrEnds, SameEntry, IsOpen
    <3> QED
      BY <3>3 DEF a, b
  <2> QED
    BY <2>1, <2>2 DEF ExitStays
<1> QED
  BY <1>3, <1>4

\* History t is history s with another candle.
OneMore(t, s) == Continues(t, s) /\ Len(t) = Len(s) + 1

\* Both loops pass a candle before the last in step.
LEMMA LookInStep ==
    ASSUME NEW s, NEW from, NEW signal, NEW stop, NEW exit, LoopData(s, from, signal, stop, exit),
           NEW t, NEW signals, NEW later, NEW ends, LoopData(t, from, signals, later, ends),
           OneMore(t, s), NEW i \in 1 .. Len(s) - 1, signals[i] = signal[i],
           later[i + 1] = stop[i + 1], ExitStays(exit[i + 1], ends[i + 1], Len(s)),
           NEW m \in S1State, NEW w \in S1State, Lockstep(m, w, Len(s))
    PROVE  Lockstep(Look(s, from, signal, stop, exit, m, i), Look(t, from, signals, later, ends, w, i), Len(s))
<1> DEFINE n == Len(s)
           a == Taken(s, stop, exit, i)
           b == Taken(t, later, ends, i)
           p == Look(s, from, signal, stop, exit, m, i)
           q == Look(t, from, signals, later, ends, w, i)
<1>1. /\ n \in Nat /\ Len(t) = n + 1 /\ i \in Nat /\ i < n
      /\ i \in 1 .. n /\ i \in 1 .. Len(t) /\ i + 1 \in 1 .. n
  BY DEF LoopData, OneMore
<1>2. t[i] = s[i] /\ signals[i] = signal[i] /\ later[i + 1] = stop[i + 1] /\ ExitStays(exit[i + 1], ends[i + 1], n)
  BY <1>1 DEF Continues, OneMore
<1>3. Refused(t, later, i) = Refused(s, stop, i) /\ (Refused(s, stop, i) = "no" => StaysOrEnds(a, b, n))
  BY <1>1, <1>2, TakenStays DEF LoopData, OneMore
<1>4. Takes(t, from, signals, later, w, i) <=> Takes(s, from, signal, stop, m, i)
  <2>1. CASE AllEnded(m.trades)
    BY <1>1, <1>2, <1>3, <2>1 DEF Takes, Lockstep
  <2>2. CASE ~AllEnded(m.trades)
    BY <1>1, <2>2 DEF Takes, Lockstep
  <2> QED
    BY <2>1, <2>2
<1>5. CASE ~Takes(s, from, signal, stop, m, i)
  <2>1. p.trades = m.trades /\ p.next = m.next
    BY <1>1, <1>5, LookIs
  <2>2. q.trades = w.trades /\ q.next = w.next
    BY <1>1, <1>4, <1>5, LookIs
  <2> HIDE DEF p, q
  <2>3. Lockstep(p, q, n)
    BY <2>1, <2>2 DEF Lockstep
  <2> QED
    BY <2>3 DEF p, q, n
<1>6. CASE Takes(s, from, signal, stop, m, i)
  <2>1. /\ a \in S1Trade /\ p.trades = Append(m.trades, a)
        /\ p.next = IF IsOpen(a) THEN n + 1 ELSE a.exitAt + 1
    BY <1>1, <1>6, LookIs
  <2>2. /\ b \in S1Trade /\ q.trades = Append(w.trades, b)
        /\ q.next = IF IsOpen(b) THEN Len(t) + 1 ELSE b.exitAt + 1
    <3>1. i \in 1 .. Len(t) /\ Takes(t, from, signals, later, w, i)
      BY <1>1, <1>4, <1>6
    <3> QED
      BY <3>1, LookTakes
  <2>3. StaysOrEnds(a, b, n)
    BY <1>3, <1>6 DEF Takes
  <2>4. AllEnded(m.trades) /\ Len(w.trades) = Len(m.trades)
    BY <1>1, <1>6 DEF Takes, Lockstep
  <2>5. m.trades \in Seq(S1Trade) /\ w.trades \in Seq(S1Trade) /\ Len(m.trades) \in Nat
    BY DEF S1State
  <2> HIDE DEF p, q, a, b
  <2>6. /\ Len(p.trades) = Len(m.trades) + 1 /\ Len(q.trades) = Len(m.trades) + 1
        /\ p.trades[Len(m.trades) + 1] = a /\ q.trades[Len(m.trades) + 1] = b
        /\ \A k \in 1 .. Len(m.trades) : p.trades[k] = m.trades[k] /\ q.trades[k] = w.trades[k]
    <3> DEFINE u == m.trades
               v == w.trades
    <3>1. u \in Seq(S1Trade) /\ v \in Seq(S1Trade) /\ Len(v) = Len(u) /\ p.trades = Append(u, a) /\ q.trades = Append(v, b)
      BY <2>1, <2>2, <2>4, <2>5
    <3> HIDE DEF u, v
    <3>2. Len(p.trades) = Len(u) + 1 /\ p.trades[Len(u) + 1] = a /\ \A k \in 1 .. Len(u) : p.trades[k] = u[k]
      BY <3>1
    <3>3. Len(q.trades) = Len(v) + 1 /\ q.trades[Len(v) + 1] = b /\ \A k \in 1 .. Len(v) : q.trades[k] = v[k]
      BY <3>1
    <3> QED
      BY <3>1, <3>2, <3>3 DEF u, v
  <2>7. \A k \in 1 .. Len(p.trades) : StaysOrEnds(p.trades[k], q.trades[k], n)
    <3> TAKE k \in 1 .. Len(p.trades)
    <3>1. CASE k \in 1 .. Len(m.trades)
      <4>1. StaysOrEnds(m.trades[k], w.trades[k], n)
        BY <3>1 DEF Lockstep
      <4> QED
        BY <2>6, <3>1, <4>1
    <3>2. CASE k = Len(m.trades) + 1
      BY <2>3, <2>6, <3>2
    <3> QED
      BY <2>5, <2>6, <3>1, <3>2
  <2>8. AllEnded(p.trades) <=> ~IsOpen(a)
    <3>1. AllEnded(p.trades) => ~IsOpen(a)
      <4>1. Len(m.trades) + 1 \in 1 .. Len(p.trades)
        BY <2>5, <2>6
      <4> QED
        BY <2>6, <4>1 DEF AllEnded
    <3>2. ASSUME ~IsOpen(a), NEW k \in 1 .. Len(p.trades)
          PROVE  ~IsOpen(p.trades[k])
      <4>1. CASE k \in 1 .. Len(m.trades)
        BY <2>4, <2>6, <4>1 DEF AllEnded
      <4>2. CASE k = Len(m.trades) + 1
        BY <2>6, <3>2, <4>2
      <4> QED
        BY <2>5, <2>6, <4>1, <4>2
    <3> QED
      BY <3>1, <3>2 DEF AllEnded
  <2>9. IF AllEnded(p.trades) THEN q.next = p.next ELSE p.next = n + 1 /\ q.next = n + 2
    <3>1. CASE ~IsOpen(a)
      <4>1. b = a
        BY <2>3, <3>1 DEF StaysOrEnds
      <4> QED
        BY <2>1, <2>2, <2>8, <3>1, <4>1
    <3>2. CASE IsOpen(a)
      <4>1. IsOpen(b) \/ b.exitAt = n + 1
        BY <2>3, <3>2 DEF StaysOrEnds
      <4>2. q.next = n + 2
        BY <1>1, <2>2, <4>1
      <4> QED
        BY <2>1, <2>8, <3>2, <4>2
    <3> QED
      BY <3>1, <3>2
  <2>10. Lockstep(p, q, n)
    BY <2>6, <2>7, <2>9 DEF Lockstep
  <2> QED
    BY <2>10 DEF p, q, n
<1> QED
  BY <1>5, <1>6

\* The loop over a history with one candle more takes the same trades; one of
\* them can have ended since, or another one has been entered.
LEMMA ScanContinues ==
    ASSUME NEW s, NEW from, NEW signal, NEW stop, NEW exit, LoopData(s, from, signal, stop, exit),
           NEW t, NEW signals, NEW later, NEW ends, LoopData(t, from, signals, later, ends),
           OneMore(t, s), s # << >>,
           \A k \in 1 .. Len(s) : signals[k] = signal[k],
           \A k \in 1 .. Len(s) : later[k] = stop[k],
           \A k \in 1 .. Len(s) : ExitStays(exit[k], ends[k], Len(s)),
           ends[Len(s) + 1].at = 0
    PROVE  TradesContinue(Scan(s, from, signal, stop, exit).trades, Scan(t, from, signals, later, ends).trades, Len(s))
<1> DEFINE n == Len(s)
           scan == Scans(s, from, signal, stop, exit)
           next == Scans(t, from, signals, later, ends)
           S == {i \in 0 .. n - 1 : Lockstep(scan[i], next[i], n)}
<1>1. n \in Nat \ {0} /\ Len(t) = n + 1
  BY DEF LoopData, OneMore
<1>2. /\ \A i \in 0 .. n : scan[i] \in S1State
      /\ scan[0] = Unscanned
      /\ \A i \in 1 .. n : scan[i] = Look(s, from, signal, stop, exit, scan[i - 1], i)
      /\ Scan(s, from, signal, stop, exit) = scan[n]
      /\ \A i \in 0 .. n : LoopInv(s, signal, stop, exit, scan[i])
  BY ScansAre, ScanIs
<1>3. /\ \A i \in 0 .. n + 1 : next[i] \in S1State
      /\ next[0] = Unscanned
      /\ \A i \in 1 .. n + 1 : next[i] = Look(t, from, signals, later, ends, next[i - 1], i)
      /\ Scan(t, from, signals, later, ends) = next[n + 1]
  <2>1. /\ \A i \in 0 .. Len(t) : next[i] \in S1State
        /\ next[0] = Unscanned
        /\ \A i \in 1 .. Len(t) : next[i] = Look(t, from, signals, later, ends, next[i - 1], i)
        /\ Scan(t, from, signals, later, ends) = next[Len(t)]
    BY ScansAre
  <2> HIDE DEF next
  <2> QED
    BY <1>1, <2>1
<1> HIDE DEF scan, next
<1>4. 0 \in S
  <2>1. Len(Unscanned.trades) = 0
    BY DEF Unscanned
  <2>2. Lockstep(Unscanned, Unscanned, n)
    BY <2>1 DEF Lockstep, AllEnded
  <2> QED
    BY <1>1, <1>2, <1>3, <2>2
<1>5. ASSUME NEW i \in 0 + 1 .. n - 1, i - 1 \in S
      PROVE  i \in S
  <2>1. i \in 1 .. n - 1 /\ i \in 1 .. n /\ i \in 1 .. n + 1 /\ i + 1 \in 1 .. n /\ i - 1 \in 0 .. n /\ i - 1 \in 0 .. n + 1
    BY <1>1
  <2>2. Lockstep(scan[i - 1], next[i - 1], n)
    BY <1>5
  <2>3. /\ signals[i] = signal[i] /\ later[i + 1] = stop[i + 1]
        /\ ExitStays(exit[i + 1], ends[i + 1], n)
    BY <2>1
  <2>4. /\ scan[i - 1] \in S1State /\ scan[i] = Look(s, from, signal, stop, exit, scan[i - 1], i)
        /\ next[i - 1] \in S1State /\ next[i] = Look(t, from, signals, later, ends, next[i - 1], i)
    BY <1>2, <1>3, <2>1
  <2>5. Lockstep(Look(s, from, signal, stop, exit, scan[i - 1], i), Look(t, from, signals, later, ends, next[i - 1], i), n)
    BY <2>1, <2>2, <2>3, <2>4, LookInStep
  <2>6. Lockstep(scan[i], next[i], n)
    BY <2>4, <2>5
  <2> QED
    BY <2>6
<1>6. n - 1 \in S
  <2>1. 0 .. n - 1 \subseteq S
    <3>1. 0 \in Int /\ n - 1 \in Int
      BY <1>1
    <3> HIDE DEF S, n
    <3> QED
      BY <1>4, <1>5, <3>1, Upward
  <2> QED
    BY <1>1, <2>1
<1> DEFINE m == scan[n - 1]
           w == next[n - 1]
           p == next[n]
           b == Taken(t, later, ends, n)
<1>7. /\ m \in S1State /\ w \in S1State /\ p \in S1State /\ Lockstep(m, w, n)
      /\ scan[n] = Look(s, from, signal, stop, exit, m, n)
      /\ p = Look(t, from, signals, later, ends, w, n)
      /\ next[n + 1] = Look(t, from, signals, later, ends, p, n + 1)
  <2>1. n - 1 \in 0 .. n /\ n - 1 \in 0 .. n + 1 /\ n \in 1 .. n /\ n \in 0 .. n + 1 /\ n \in 1 .. n + 1 /\ n + 1 \in 1 .. n + 1 /\ n + 1 - 1 = n
    BY <1>1
  <2> QED
    BY <1>2, <1>3, <1>6, <2>1
<1> HIDE DEF m, w, p
<1>8. scan[n].trades = m.trades
  <2>1. n \in 1 .. Len(s) /\ ~Takes(s, from, signal, stop, m, n)
    BY <1>1 DEF Takes
  <2> QED
    BY <1>7, <2>1, LookIs
<1>9. next[n + 1].trades = p.trades
  <2>1. n + 1 \in 1 .. Len(t) /\ ~Takes(t, from, signals, later, p, n + 1)
    BY <1>1 DEF Takes
  <2> HIDE DEF n
  <2> QED
    BY <1>7, <2>1, LookIs
<1>10. n \in 1 .. Len(t)
  BY <1>1
<1> HIDE DEF n
<1>11. CASE ~Takes(t, from, signals, later, w, n)
  <2>1. p.trades = w.trades
    BY <1>7, <1>10, <1>11, LookIs
  <2>2. TradesContinue(m.trades, p.trades, n)
    BY <1>7, <2>1 DEF Lockstep, TradesContinue
  <2> QED
    BY <1>2, <1>3, <1>8, <1>9, <2>2 DEF n
<1>12. CASE Takes(t, from, signals, later, w, n)
  <2>1. n \in 1 .. Len(t) - 1 /\ b \in S1Trade /\ p.trades = Append(w.trades, b)
    BY <1>7, <1>10, <1>12, LookIs
  <2>2. AllEnded(m.trades) /\ Len(w.trades) = Len(m.trades)
    <3>1. ~(n < w.next) /\ w.next \in Nat
      BY <1>7, <1>12 DEF Takes, S1State
    <3> QED
      BY <1>1, <1>7, <3>1 DEF Lockstep
  <2>3. w.trades = m.trades
    <3>1. w.trades \in Seq(S1Trade) /\ m.trades \in Seq(S1Trade)
      BY <1>7 DEF S1State
    <3>2. \A k \in 1 .. Len(m.trades) : w.trades[k] = m.trades[k]
      BY <1>7, <2>2 DEF Lockstep, StaysOrEnds, AllEnded
    <3> QED
      BY <2>2, <3>1, <3>2, SameSequence
  <2>4. b.entryAt = n + 1 /\ IsOpen(b)
    <3>1. t \in Seq(CandleSet) /\ later \in [1 .. Len(t) -> Nat] /\ ends \in [1 .. Len(t) -> S1Exit]
      BY DEF LoopData
    <3>2. Refused(t, later, n) = "no"
      BY <1>12 DEF Takes
    <3>3. b.entryAt = n + 1 /\ b.exitAt = ends[n + 1].at
      BY <2>1, <3>1, <3>2, TakenIs
    <3> QED
      BY <3>3 DEF IsOpen, n
  <2>5. TradesContinue(m.trades, p.trades, n)
    <3> HIDE DEF b
    <3> QED
      BY <2>1, <2>2, <2>3, <2>4 DEF TradesContinue
  <2> QED
    BY <1>2, <1>3, <1>8, <1>9, <2>5 DEF n
<1> QED
  BY <1>11, <1>12

-----------------------------------------------------------------------------
(* The long trades of System One and GFS in the book.                      *)

\* Only the last row may be that of an open position.
OnlyLastOpen(x) == \A k \in 1 .. Len(x) : x[k].exitAt = 0 => k = Len(x)

\* Row y is row x with another candle.
RowStays(x, y, n) ==
    \/ y = x
    \/ /\ x.exitAt = 0 /\ y.exitAt \in {0, n + 1}
       /\ y.side = x.side /\ x.side = "BUY" /\ y.entryAt = x.entryAt /\ y.entry = x.entry /\ y.stop >= x.stop

RowsContinue(x, y, n) ==
    \/ Len(y) = Len(x) /\ \A k \in 1 .. Len(x) : RowStays(x[k], y[k], n)
    \/ /\ \A k \in 1 .. Len(x) : x[k].exitAt # 0
       /\ \E r \in BookRow : y = Append(x, r) /\ r.entryAt = n + 1 /\ r.exitAt = 0

BookedOf(x) == Pick(x, {k \in 1 .. Len(x) : x[k].exitAt # 0})
OpenOf(x) == {t \in {x[k] : k \in 1 .. Len(x)} : t.exitAt = 0}

\* The rows are the booked ones, and at most one more.
LEMMA BookOfRows ==
    ASSUME NEW x \in Seq(BookRow), OnlyLastOpen(x)
    PROVE  /\ BookedOf(x) \in Seq(BookRow)
           /\ \/ OpenOf(x) = {} /\ BookedOf(x) = x /\ \A k \in 1 .. Len(x) : x[k].exitAt # 0
              \/ /\ Len(x) \in Nat \ {0} /\ x[Len(x)].exitAt = 0 /\ OpenOf(x) = {x[Len(x)]}
                 /\ Len(BookedOf(x)) = Len(x) - 1
                 /\ \A k \in 1 .. Len(x) - 1 : BookedOf(x)[k] = x[k]
<1> DEFINE n == Len(x)
           S == {k \in 1 .. n : x[k].exitAt # 0}
<1>1. n \in Nat
  OBVIOUS
<1>2. BookedOf(x) = Pick(x, S)
  BY DEF BookedOf
<1>3. CASE S = 1 .. n
  <2>1. BookedOf(x) = x
    BY <1>2, <1>3, PickAll
  <2>2. OpenOf(x) = {}
    BY <1>3 DEF OpenOf
  <2>3. \A k \in 1 .. n : x[k].exitAt # 0
    BY <1>3
  <2> QED
    BY <2>1, <2>2, <2>3
<1>4. CASE S # 1 .. n
  <2>1. PICK j \in 1 .. n : x[j].exitAt = 0
    BY <1>4
  <2>2. j = n /\ n \in Nat \ {0}
    BY <1>1, <2>1 DEF OnlyLastOpen
  <2>3. S = 1 .. n - 1
    <3>1. \A k \in 1 .. n : x[k].exitAt # 0 <=> k # n
      BY <2>1, <2>2 DEF OnlyLastOpen
    <3>2. \A k : k \in 1 .. n /\ k # n <=> k \in 1 .. n - 1
      BY <2>2
    <3> QED
      BY <3>1, <3>2
  <2>4. OpenOf(x) = {x[n]}
    <3>1. \A k \in 1 .. n : x[k].exitAt = 0 <=> k = n
      BY <2>1, <2>2 DEF OnlyLastOpen
    <3> QED
      BY <2>2, <3>1 DEF OpenOf
  <2>5. n - 1 \in 0 .. Len(x)
    BY <2>2
  <2>6. /\ BookedOf(x) \in Seq(BookRow) /\ Len(BookedOf(x)) = n - 1
        /\ \A k \in 1 .. n - 1 : BookedOf(x)[k] = x[k]
    <3> DEFINE m == n - 1
    <3>1. m \in 0 .. Len(x) /\ BookedOf(x) = Pick(x, 1 .. m)
      BY <1>2, <2>3, <2>5
    <3> HIDE DEF m, n, S
    <3>2. Pick(x, 1 .. m) \in Seq(BookRow) /\ Len(Pick(x, 1 .. m)) = m /\ \A k \in 1 .. m : Pick(x, 1 .. m)[k] = x[k]
      BY <3>1, PickBeginning
    <3> QED
      BY <3>1, <3>2 DEF m
  <2> QED
    BY <2>1, <2>2, <2>4, <2>6
<1> QED
  BY <1>3, <1>4

\* What an engine does to its rows is a step of the book.
LEMMA LongsKeepBook ==
    ASSUME part \in {"system_one", "gfs"}, part' = part, Rows \in Seq(BookRow), Rows' \in Seq(BookRow),
           OnlyLastOpen(Rows), OnlyLastOpen(Rows'), RowsContinue(Rows, Rows', Len(bars)),
           bars \in Seq(CandleSet), Len(bars') = Len(bars) + 1
    PROVE  Book!Next
<1> DEFINE n == Len(bars)
           x == Rows
           y == Rows'
<1>1. BookedTrades = BookedOf(x) /\ Position = OpenOf(x)
  BY DEF BookedTrades, Position, BookedOf, OpenOf
<1>2. BookedTrades' = BookedOf(y) /\ Position' = OpenOf(y)
  BY DEF BookedTrades, Position, BookedOf, OpenOf
<1>3. n \in Nat /\ Len(bars') = n + 1
  OBVIOUS
<1>4. x \in Seq(BookRow) /\ y \in Seq(BookRow) /\ OnlyLastOpen(x) /\ OnlyLastOpen(y) /\ RowsContinue(x, y, n)
  OBVIOUS
<1> HIDE DEF n, x, y
<1> SUFFICES Book!Hold \/ Book!Enter \/ Book!Trail \/ Book!Exit
  BY <1>3 DEF Book!Next, n
<1>5. Len(x) \in Nat /\ Len(y) \in Nat
  BY <1>4
<1>6. ASSUME \A k \in 1 .. Len(x) : x[k].exitAt # 0, NEW r \in BookRow, y = Append(x, r),
             r.entryAt = n + 1, r.exitAt = 0
      PROVE  Book!Enter
  <2>1. BookedOf(x) = x /\ OpenOf(x) = {}
    <3>1. Len(x) # 0 => x[Len(x)].exitAt # 0
      BY <1>5, <1>6
    <3> QED
      BY <1>4, <3>1, BookOfRows
  <2>2. /\ Len(y) = Len(x) + 1 /\ y[Len(x) + 1] = r /\ \A k \in 1 .. Len(x) : y[k] = x[k]
    BY <1>4, <1>6
  <2>3. /\ OpenOf(y) = {r} /\ Len(BookedOf(y)) = Len(x) /\ BookedOf(y) \in Seq(BookRow)
        /\ \A k \in 1 .. Len(x) : BookedOf(y)[k] = y[k]
    <3>1. ~(\A k \in 1 .. Len(y) : y[k].exitAt # 0)
      BY <1>5, <1>6, <2>2
    <3>2. /\ BookedOf(y) \in Seq(BookRow) /\ OpenOf(y) = {y[Len(y)]} /\ Len(BookedOf(y)) = Len(y) - 1
          /\ \A k \in 1 .. Len(y) - 1 : BookedOf(y)[k] = y[k]
      BY <1>4, <3>1, BookOfRows
    <3> QED
      BY <1>5, <2>2, <3>2
  <2>4. BookedOf(y) = x
    BY <1>4, <2>2, <2>3, SameSequence
  <2> QED
    BY <1>1, <1>2, <1>3, <1>6, <2>1, <2>3, <2>4 DEF Book!Enter, Book!Fresh, n
<1>7. ASSUME Len(y) = Len(x), \A k \in 1 .. Len(x) : RowStays(x[k], y[k], n)
      PROVE  Book!Hold \/ Book!Trail \/ Book!Exit
  <2>1. CASE OpenOf(x) = {} /\ BookedOf(x) = x /\ \A k \in 1 .. Len(x) : x[k].exitAt # 0
    <3>1. \A k \in 1 .. Len(x) : y[k] = x[k]
      BY <1>7, <2>1 DEF RowStays
    <3>2. y = x
      BY <1>4, <1>7, <3>1, SameSequence
    <3> QED
      BY <1>1, <1>2, <3>2 DEF Book!Hold
  <2>2. CASE /\ Len(x) \in Nat \ {0} /\ x[Len(x)].exitAt = 0 /\ OpenOf(x) = {x[Len(x)]}
             /\ Len(BookedOf(x)) = Len(x) - 1
             /\ \A k \in 1 .. Len(x) - 1 : BookedOf(x)[k] = x[k]
    <3> DEFINE m == Len(x)
               a == x[m]
               b == y[m]
    <3>1. m \in 1 .. Len(x) /\ m \in Nat \ {0} /\ a \in BookRow /\ b \in BookRow
      BY <1>4, <1>7, <2>2
    <3>2. RowStays(a, b, n)
      BY <1>7, <3>1
    <3>3. Book!SameTrade(a, b) /\ Book!Ratchets(a, b)
      <4>1. a.stop \in Nat /\ a.side \in {"BUY", "SELL", "CALL", "PUT", "BOTH"}
        BY <3>1 DEF BookRow
      <4>2. CASE b = a
        BY <4>1, <4>2 DEF Book!SameTrade, Book!Ratchets
      <4>3. CASE b # a
        BY <3>2, <4>3 DEF RowStays, Book!SameTrade, Book!Ratchets
      <4> QED
        BY <4>2, <4>3
    <3>4. \A k \in 1 .. m - 1 : y[k] = x[k]
      <4> TAKE k \in 1 .. m - 1
      <4>1. k \in 1 .. Len(x) /\ k # Len(x)
        BY <3>1
      <4> QED
        BY <1>4, <1>7, <4>1 DEF RowStays, OnlyLastOpen
    <3>5. BookedOf(x) \in Seq(BookRow) /\ BookedOf(y) \in Seq(BookRow)
      BY <1>4, BookOfRows
    <3> HIDE DEF a, b
    <3>6. CASE b.exitAt = 0
      <4>1. OpenOf(y) = {b} /\ Len(BookedOf(y)) = m - 1 /\ \A k \in 1 .. m - 1 : BookedOf(y)[k] = y[k]
        <5>1. ~(\A k \in 1 .. Len(y) : y[k].exitAt # 0)
          BY <1>7, <3>1, <3>6 DEF b
        <5>2. /\ OpenOf(y) = {y[Len(y)]} /\ Len(BookedOf(y)) = Len(y) - 1
              /\ \A k \in 1 .. Len(y) - 1 : BookedOf(y)[k] = y[k]
          BY <1>4, <5>1, BookOfRows
        <5> QED
          BY <1>7, <5>2 DEF b
      <4>2. BookedOf(y) = BookedOf(x)
        <5>1. Len(BookedOf(x)) = Len(BookedOf(y))
          BY <2>2, <4>1
        <5>2. \A k \in 1 .. Len(BookedOf(x)) : BookedOf(x)[k] = BookedOf(y)[k]
          BY <2>2, <3>4, <4>1
        <5> QED
          BY <3>5, <5>1, <5>2, SameSequence
      <4>3. OpenOf(x) = {a}
        BY <2>2 DEF a
      <4> QED
        BY <1>1, <1>2, <3>3, <4>1, <4>2, <4>3 DEF Book!Trail
    <3>7. CASE b.exitAt # 0
      <4>1. OpenOf(y) = {} /\ BookedOf(y) = y
        <5>1. ~(y[Len(y)].exitAt = 0)
          BY <1>7, <3>7 DEF b
        <5> QED
          BY <1>4, <5>1, BookOfRows
      <4>2. b.exitAt = n + 1
        <5>1. a.exitAt = 0
          BY <2>2 DEF a
        <5> QED
          BY <3>2, <3>7, <5>1 DEF RowStays
      <4>3. y # << >> /\ y = Append(BookedOf(x), y[Len(y)])
        <5>1. Len(y) = Len(BookedOf(x)) + 1
          BY <1>7, <2>2
        <5>2. \A k \in 1 .. Len(BookedOf(x)) : y[k] = BookedOf(x)[k]
          BY <2>2, <3>4
        <5> QED
          BY <1>4, <3>5, <5>1, <5>2, AppendedIs
      <4>4. OpenOf(x) = {a} /\ y[Len(y)] = b
        BY <1>7, <2>2 DEF a, b
      <4>5. Book!NewlyBooked = b
        BY <1>2, <4>1, <4>4 DEF Book!NewlyBooked
      <4>6. Book!Books(b)
        BY <1>1, <1>2, <1>3, <4>1, <4>2, <4>3, <4>4 DEF Book!Books, n
      <4> QED
        BY <1>1, <1>2, <3>3, <4>1, <4>3, <4>4, <4>5, <4>6 DEF Book!Exit
    <3> QED
      BY <3>6, <3>7
  <2> QED
    BY <1>4, <2>1, <2>2, BookOfRows
<1> QED
  BY <1>4, <1>6, <1>7 DEF RowsContinue

-----------------------------------------------------------------------------
(* System One.                                                             *)

\* The whole history lies before its last day.
LEMMA BeforeAll ==
    ASSUME NEW s, IsHistory(s)
    PROVE  Before(s, LastDay(s)) = s
<1>1. s \in Seq(CandleSet) /\ \A i \in 1 .. Len(s) : s[i].day <= LastDay(s)
  BY HistoryIs
<1>2. {i \in 1 .. Len(s) : s[i].day <= LastDay(s)} = 1 .. Len(s)
  BY <1>1
<1> QED
  BY <1>1, <1>2, PickAll DEF Before

\* A stretch of a sequence of numbers.
LEMMA StretchIs ==
    ASSUME NEW c \in Seq(Nat), NEW a \in 1 .. Len(c) + 1, NEW b \in 0 .. Len(c), a <= b + 1
    PROVE  /\ SubSeq(c, a, b) \in Seq(Nat) /\ Len(SubSeq(c, a, b)) = b - a + 1
           /\ \A k \in 1 .. b - a + 1 : SubSeq(c, a, b)[k] = c[a + k - 1]
BY SubSeqProperties

\* The moving average of the last closes.
LEMMA SmaIs ==
    ASSUME NEW c \in Seq(Nat), NEW i \in 1 .. Len(c), NEW p \in Nat \ {0}
    PROVE  Sma(c, i, p) \in Nat
<1>1. CASE i < p
  BY <1>1 DEF Sma, NoLevel
<1>2. CASE ~(i < p)
  <2> DEFINE x == SubSeq(c, i - p + 1, i)
  <2>1. x \in Seq(Nat)
    <3> DEFINE a == i - p + 1
    <3>1. a \in 1 .. Len(c) + 1 /\ i \in 0 .. Len(c) /\ a <= i + 1
      BY <1>2
    <3> HIDE DEF a
    <3>2. SubSeq(c, a, i) \in Seq(Nat)
      BY <3>1, StretchIs
    <3> QED
      BY <3>2 DEF a
  <2>2. Total(x) \in Nat
    <3> HIDE DEF x
    <3> QED
      BY <2>1, TotalIs
  <2> HIDE DEF x
  <2>3. Total(x) \div p \in Nat
    <3> DEFINE y == Total(x)
    <3>1. y \in Nat
      BY <2>2
    <3> HIDE DEF y
    <3>2. y \div p \in Nat
      BY <3>1
    <3> QED
      BY <3>2 DEF y
  <2> QED
    BY <1>2, <2>3 DEF Sma, x
<1> QED
  BY <1>1, <1>2

LEMMA SmaStays ==
    ASSUME NEW c \in Seq(Nat), NEW e \in Seq(Nat), Continues(e, c), NEW i \in 1 .. Len(c), NEW p \in Nat \ {0}
    PROVE  Sma(e, i, p) = Sma(c, i, p)
<1>1. Len(c) \in Nat /\ Len(e) \in Nat /\ Len(c) <= Len(e) /\ \A k \in 1 .. Len(c) : e[k] = c[k]
  <2>1. Len(c) \in Nat /\ Len(e) \in Nat
    OBVIOUS
  <2> QED
    BY <2>1 DEF Continues
<1>2. CASE i < p
  BY <1>2 DEF Sma
<1>3. CASE ~(i < p)
  <2> DEFINE a == i - p + 1
             x == SubSeq(c, a, i)
             y == SubSeq(e, a, i)
  <2>1. a \in 1 .. i /\ a \in 1 .. Len(c) + 1 /\ i \in 0 .. Len(c) /\ a \in 1 .. Len(e) + 1 /\ i \in 0 .. Len(e)
        /\ a \in Int /\ i \in Int /\ a <= i + 1
    BY <1>1, <1>3
  <2> HIDE DEF a
  <2>2. x \in Seq(Nat) /\ Len(x) = i - a + 1 /\ \A k \in 1 .. i - a + 1 : x[k] = c[a + k - 1]
    BY <2>1, StretchIs
  <2>3. y \in Seq(Nat) /\ Len(y) = i - a + 1 /\ \A k \in 1 .. i - a + 1 : y[k] = e[a + k - 1]
    BY <2>1, StretchIs
  <2> HIDE DEF x, y
  <2>4. \A k \in 1 .. Len(x) : x[k] = y[k]
    <3> TAKE k \in 1 .. Len(x)
    <3>1. k \in 1 .. i - a + 1 /\ a + k - 1 \in 1 .. Len(c)
      BY <1>1, <2>1, <2>2
    <3> QED
      BY <1>1, <2>2, <2>3, <3>1
  <2>5. x = y
    BY <2>2, <2>3, <2>4, SameNumbers
  <2> QED
    BY <1>3, <2>5 DEF Sma, x, y, a
<1> QED
  BY <1>2, <1>3

\* The stop, the signal and the exit of every candle.
S1Ma(s) == [i \in 1 .. Len(s) |-> Sma(Closes(s), i, MaPeriod)]
S1Signal(s) == RsiCross(Rsi(Closes(s), RsiPeriod))
S1Ends(s) == [e \in 1 .. Len(s) |-> MaStopExit(s, S1Ma(s), e)]
S1Scan(s) == Scan(s, 0, S1Signal(s), S1Ma(s), S1Ends(s))

\* The candles that end a trade entered on candle e.
MaHit(s, ma, e) == {j \in e + 1 .. Len(s) : ma[j - 1] # NoLevel /\ (s[j].o < ma[j - 1] \/ s[j].l <= ma[j - 1])}

\* The closes of a continuation continue the closes.
LEMMA ClosesContinue ==
    ASSUME NEW s \in Seq(CandleSet), NEW t \in Seq(CandleSet), Continues(t, s)
    PROVE  Continues(Closes(t), Closes(s))
<1>1. /\ Len(Closes(s)) = Len(s) /\ Len(Closes(t)) = Len(t)
      /\ \A i \in 1 .. Len(s) : Closes(s)[i] = s[i].c
      /\ \A i \in 1 .. Len(t) : Closes(t)[i] = t[i].c
  BY ClosesAre
<1>2. Len(s) \in Nat /\ Len(t) \in Nat
  OBVIOUS
<1> QED
  BY <1>1, <1>2 DEF Continues

LEMMA MaStopExitIs ==
    ASSUME NEW s \in Seq(CandleSet), NEW ma \in [1 .. Len(s) -> Nat], NEW e \in 1 .. Len(s)
    PROVE  /\ MaStopExit(s, ma, e) \in S1Exit
           /\ MaHit(s, ma, e) = {} => MaStopExit(s, ma, e) = NotYet
           /\ MaHit(s, ma, e) # {} =>
                  /\ MaStopExit(s, ma, e).at = Min(MaHit(s, ma, e))
                  /\ Min(MaHit(s, ma, e)) \in MaHit(s, ma, e) /\ Min(MaHit(s, ma, e)) \in e + 1 .. Len(s)
<1> DEFINE H == MaHit(s, ma, e)
           j == Min(H)
           x == MaStopExit(s, ma, e)
<1>1. e \in Nat /\ e >= 1 /\ Len(s) \in Nat /\ H \in SUBSET (e + 1 .. Len(s)) /\ H \in SUBSET Nat
  BY DEF MaHit
<1>2. CASE H = {}
  <2>1. x = NotYet
    BY <1>2 DEF MaStopExit, MaHit
  <2>2. NotYet \in S1Exit
    BY DEF NotYet, NoLevel, S1Exit, S1Reason
  <2> QED
    BY <1>2, <2>1, <2>2
<1>3. CASE H # {}
  <2>1. x = IF s[j].o < ma[j - 1] THEN ExitAt(j, s[j].o, "GAP_OPEN_BELOW_MA") ELSE ExitAt(j, ma[j - 1], "STOP_AT_MA")
    BY <1>3 DEF MaStopExit, MaHit
  <2> HIDE DEF H, x
  <2>2. j \in H
    BY <1>1, <1>3, MinIs
  <2> HIDE DEF j
  <2>3. j \in e + 1 .. Len(s) /\ j \in 1 .. Len(s) /\ j - 1 \in 1 .. Len(s) /\ j \in Nat
    BY <1>1, <2>2
  <2>4. s[j].o \in Nat
    <3>1. s[j] \in CandleSet
      BY <2>3
    <3> QED
      BY <3>1 DEF CandleSet, Price
  <2>5. ma[j - 1] \in Nat
    BY <2>3
  <2>6. x \in S1Exit /\ x.at = j
    BY <2>1, <2>3, <2>4, <2>5 DEF ExitAt, S1Exit, S1Reason
  <2> QED
    BY <1>3, <2>2, <2>3, <2>6 DEF x, H, j
<1> QED
  BY <1>2, <1>3

\* A trade that has ended ends the same way with another candle.
LEMMA MaStopExitStays ==
    ASSUME NEW s \in Seq(CandleSet), NEW t \in Seq(CandleSet), OneMore(t, s),
           NEW ma \in [1 .. Len(s) -> Nat], NEW later \in [1 .. Len(t) -> Nat],
           \A k \in 1 .. Len(s) : later[k] = ma[k],
           NEW e \in 1 .. Len(s)
    PROVE  ExitStays(MaStopExit(s, ma, e), MaStopExit(t, later, e), Len(s))
<1> DEFINE n == Len(s)
           H == MaHit(s, ma, e)
           G == MaHit(t, later, e)
<1>1. n \in Nat /\ Len(t) = n + 1 /\ e \in Nat /\ e >= 1 /\ \A k \in 1 .. n : t[k] = s[k]
  BY DEF OneMore, Continues
<1>2. H \in SUBSET (e + 1 .. n) /\ G \in SUBSET (e + 1 .. n + 1) /\ H \in SUBSET Nat /\ G \in SUBSET Nat
  BY <1>1 DEF MaHit
<1>3. ASSUME NEW j \in e + 1 .. n
      PROVE  j \in G <=> j \in H
  <2>1. j \in 1 .. n /\ j - 1 \in 1 .. n /\ j \in e + 1 .. Len(t)
    BY <1>1
  <2>2. t[j] = s[j] /\ later[j - 1] = ma[j - 1]
    BY <1>1, <2>1
  <2> QED
    BY <2>1, <2>2 DEF MaHit
<1>4. e \in 1 .. Len(t)
  BY <1>1
<1>5. /\ H = {} => MaStopExit(s, ma, e) = NotYet
      /\ H # {} => MaStopExit(s, ma, e).at = Min(H) /\ Min(H) \in H
  BY MaStopExitIs
<1>6. /\ G = {} => MaStopExit(t, later, e) = NotYet
      /\ G # {} => MaStopExit(t, later, e).at = Min(G) /\ Min(G) \in G
  BY <1>4, MaStopExitIs
<1>7. CASE H = {}
  <2>1. MaStopExit(s, ma, e) = NotYet /\ NotYet.at = 0
    BY <1>5, <1>7 DEF NotYet
  <2>2. CASE G = {}
    BY <1>6, <2>1, <2>2 DEF ExitStays
  <2>3. CASE G # {}
    <3>1. \A j \in G : j = n + 1
      <4> TAKE j \in G
      <4>1. j \in e + 1 .. n + 1 /\ j \notin e + 1 .. n
        BY <1>2, <1>3, <1>7
      <4> QED
        BY <1>1, <4>1
    <3>2. MaStopExit(t, later, e).at = n + 1
      BY <1>6, <2>3, <3>1
    <3> QED
      BY <2>1, <3>2 DEF ExitStays
  <2> QED
    BY <2>2, <2>3
<1>8. CASE H # {}
  <2>1. Min(H) \in H /\ \A x \in H : Min(H) <= x
    <3> HIDE DEF H
    <3> QED
      BY <1>2, <1>8, MinIs
  <2>2. Min(H) \in e + 1 .. n /\ Min(H) \in G
    BY <1>2, <1>3, <2>1
  <2>3. Min(G) \in G /\ \A x \in G : Min(G) <= x
    <3>1. G # {}
      BY <2>2
    <3> HIDE DEF G
    <3> QED
      BY <1>2, <3>1, MinIs
  <2> DEFINE j == Min(H)
  <2>4. Min(G) = j
    <3> HIDE DEF G, H
    <3>1. Min(G) <= Min(H) /\ Min(G) \in Nat /\ Min(H) \in Nat
      BY <1>2, <2>1, <2>2, <2>3
    <3>2. Min(G) \in e + 1 .. n
      BY <1>1, <1>2, <2>2, <2>3, <3>1
    <3>3. Min(G) \in H
      BY <1>3, <2>3, <3>2
    <3> QED
      BY <2>1, <3>1, <3>3
  <2>5. G # {}
    BY <2>2
  <2>6. t[j] = s[j] /\ later[j - 1] = ma[j - 1]
    <3>1. j \in 1 .. n /\ j - 1 \in 1 .. n
      BY <1>1, <2>2
    <3> HIDE DEF j
    <3> QED
      BY <1>1, <3>1
  <2>7. MaStopExit(s, ma, e) = IF s[j].o < ma[j - 1] THEN ExitAt(j, s[j].o, "GAP_OPEN_BELOW_MA")
                                                     ELSE ExitAt(j, ma[j - 1], "STOP_AT_MA")
    BY <1>8 DEF MaStopExit, MaHit
  <2>8. MaStopExit(t, later, e) = IF t[Min(G)].o < later[Min(G) - 1] THEN ExitAt(Min(G), t[Min(G)].o, "GAP_OPEN_BELOW_MA")
                                                     ELSE ExitAt(Min(G), later[Min(G) - 1], "STOP_AT_MA")
    BY <2>5 DEF MaStopExit, MaHit
  <2> HIDE DEF G, H, j
  <2>9. MaStopExit(t, later, e) = MaStopExit(s, ma, e)
    BY <2>4, <2>6, <2>7, <2>8
  <2> QED
    BY <2>9 DEF ExitStays
<1> QED
  BY <1>7, <1>8

\* The loop is given what it needs; a signal needs an RSI on two candles.
LEMMA S1DataIs ==
    ASSUME NEW s, IsHistory(s)
    PROVE  /\ LoopData(s, 0, S1Signal(s), S1Ma(s), S1Ends(s))
           /\ \A i \in 1 .. Len(s) : S1Signal(s)[i] => i >= RsiPeriod + 2
<1> DEFINE c == Closes(s)
           r == Rsi(c, RsiPeriod)
           n == Len(s)
<1>1. s \in Seq(CandleSet) /\ n \in Nat /\ c \in Seq(Nat) /\ Len(c) = n /\ RsiPeriod \in Nat \ {0} /\ MaPeriod \in Nat \ {0}
  BY HistoryIs, ClosesAre, SystemOneAssumption
<1>2. r \in Seq(Int) /\ Len(r) = n /\ \A i \in 1 .. n : i <= RsiPeriod => r[i] = NoRsi
  <2> HIDE DEF c, n
  <2> QED
    BY <1>1, RsiIs
<1> HIDE DEF c, r
<1>3. S1Signal(s) = [i \in 1 .. n |-> i > 1 /\ r[i - 1] # NoRsi /\ r[i - 1] <= RsiEntry /\ RsiEntry < r[i]]
  BY <1>1, <1>2 DEF S1Signal, RsiCross, r, c
<1>4. S1Signal(s) \in [1 .. n -> BOOLEAN]
  BY <1>3
<1>5. \A i \in 1 .. n : S1Signal(s)[i] => i >= RsiPeriod + 2
  <2> SUFFICES ASSUME NEW i \in 1 .. n, S1Signal(s)[i]
               PROVE  i >= RsiPeriod + 2
    OBVIOUS
  <2>1. i > 1 /\ r[i - 1] # NoRsi
    BY <1>3
  <2>2. i - 1 \in 1 .. n /\ i \in Nat
    BY <1>1, <2>1
  <2>3. ~(i - 1 <= RsiPeriod)
    BY <1>2, <2>1, <2>2
  <2> QED
    BY <1>1, <2>2, <2>3
<1>6. S1Ma(s) \in [1 .. n -> Nat]
  <2>1. \A i \in 1 .. n : Sma(c, i, MaPeriod) \in Nat
    BY <1>1, SmaIs
  <2> QED
    BY <2>1 DEF S1Ma, c
<1>7. S1Ends(s) \in [1 .. n -> S1Exit]
  <2>1. \A e \in 1 .. n : MaStopExit(s, S1Ma(s), e) \in S1Exit
    BY <1>1, <1>6, MaStopExitIs
  <2> QED
    BY <2>1 DEF S1Ends
<1> QED
  BY <1>1, <1>4, <1>5, <1>6, <1>7 DEF LoopData

\* With another candle only the last candle is new to the loop.
LEMMA S1DataStays ==
    ASSUME NEW s, IsHistory(s), NEW t, IsHistory(t), OneMore(t, s), s # << >>
    PROVE  TradesContinue(S1Scan(s).trades, S1Scan(t).trades, Len(s))
<1> DEFINE n == Len(s)
           c == Closes(s)
           e == Closes(t)
<1>1. /\ s \in Seq(CandleSet) /\ n \in Nat /\ c \in Seq(Nat) /\ Len(c) = n
      /\ t \in Seq(CandleSet) /\ e \in Seq(Nat) /\ Len(e) = Len(t) /\ Len(t) = n + 1
      /\ RsiPeriod \in Nat \ {0} /\ MaPeriod \in Nat \ {0}
  BY HistoryIs, ClosesAre, SystemOneAssumption DEF OneMore
<1>2. Continues(e, c)
  BY <1>1, ClosesContinue DEF OneMore
<1>3. /\ LoopData(s, 0, S1Signal(s), S1Ma(s), S1Ends(s))
      /\ LoopData(t, 0, S1Signal(t), S1Ma(t), S1Ends(t))
  BY S1DataIs
<1> HIDE DEF c, e, n
<1>4. \A k \in 1 .. n : S1Ma(t)[k] = S1Ma(s)[k]
  <2>1. \A k \in 1 .. n : Sma(e, k, MaPeriod) = Sma(c, k, MaPeriod)
    BY <1>1, <1>2, SmaStays
  <2> QED
    BY <1>1, <2>1 DEF S1Ma, c, e, n
<1>5. \A k \in 1 .. n : S1Signal(t)[k] = S1Signal(s)[k]
  <2> DEFINE r == Rsi(c, RsiPeriod)
             q == Rsi(e, RsiPeriod)
  <2>1. r \in Seq(Int) /\ Len(r) = n /\ q \in Seq(Int) /\ Len(q) = n + 1
    BY <1>1, RsiIs
  <2>2. \A k \in 1 .. n : q[k] = r[k]
    <3>1. Continues(q, r)
      BY <1>1, <1>2, RsiStays
    <3> QED
      BY <2>1, <3>1 DEF Continues
  <2> HIDE DEF q, r
  <2>3. /\ S1Signal(s) = [i \in 1 .. n |-> i > 1 /\ r[i - 1] # NoRsi /\ r[i - 1] <= RsiEntry /\ RsiEntry < r[i]]
        /\ S1Signal(t) = [i \in 1 .. n + 1 |-> i > 1 /\ q[i - 1] # NoRsi /\ q[i - 1] <= RsiEntry /\ RsiEntry < q[i]]
    BY <2>1 DEF S1Signal, RsiCross, q, r, c, e
  <2> TAKE k \in 1 .. n
  <2>4. k \in 1 .. n + 1 /\ (k > 1 => k - 1 \in 1 .. n)
    BY <1>1
  <2> QED
    BY <2>2, <2>3, <2>4
<1>6. S1Ma(s) \in [1 .. n -> Nat] /\ S1Ma(t) \in [1 .. Len(t) -> Nat]
  BY <1>3 DEF LoopData, n
<1>7. \A k \in 1 .. n : ExitStays(S1Ends(s)[k], S1Ends(t)[k], n)
  <2>1. \A k \in 1 .. n : ExitStays(MaStopExit(s, S1Ma(s), k), MaStopExit(t, S1Ma(t), k), n)
    BY <1>1, <1>4, <1>6, MaStopExitStays DEF n
  <2>2. \A k \in 1 .. n : S1Ends(s)[k] = MaStopExit(s, S1Ma(s), k) /\ S1Ends(t)[k] = MaStopExit(t, S1Ma(t), k)
    BY <1>1 DEF S1Ends, n
  <2> QED
    BY <2>1, <2>2
<1>8. S1Ends(t)[n + 1].at = 0
  <2>1. n + 1 \in 1 .. Len(t)
    BY <1>1
  <2>2. S1Ends(t)[n + 1] = MaStopExit(t, S1Ma(t), n + 1)
    BY <2>1 DEF S1Ends
  <2>3. MaHit(t, S1Ma(t), n + 1) = {}
    BY <1>1 DEF MaHit
  <2>4. MaStopExit(t, S1Ma(t), n + 1) = NotYet
    BY <1>1, <1>6, <2>1, <2>3, MaStopExitIs
  <2> QED
    BY <2>2, <2>4 DEF NotYet
<1> HIDE DEF S1Ma, S1Ends, S1Signal
<1> QED
  BY <1>3, <1>4, <1>5, <1>7, <1>8, ScanContinues DEF n, S1Scan

\* A history on which the least number of candles asks for no more than the
\* first trade needs.
LongEnough(s) == MaPeriod <= RsiPeriod + 2 \/ Len(s) > MaPeriod

\* A history that is refused has no trade to show.
LEMMA S1RunIs ==
    ASSUME NEW s, IsHistory(s), LongEnough(s)
    PROVE  SystemOneRun(s, 0, LastDay(s)).trades = S1Scan(s).trades
<1> DEFINE x == S1Scan(s).trades
<1>1. s \in Seq(CandleSet) /\ Len(s) \in Nat /\ RsiPeriod \in Nat \ {0} /\ MaPeriod \in Nat \ {0}
  BY HistoryIs, SystemOneAssumption
<1>2. SystemOneRun(s, 0, LastDay(s)) = IF Len(s) < MaxOf(RsiPeriod + 2, MaPeriod + 1) THEN Unscanned ELSE S1Scan(s)
  BY BeforeAll DEF SystemOneRun, S1Scan, S1Signal, S1Ma, S1Ends
<1>3. LoopData(s, 0, S1Signal(s), S1Ma(s), S1Ends(s)) /\ \A i \in 1 .. Len(s) : S1Signal(s)[i] => i >= RsiPeriod + 2
  BY S1DataIs
<1>4. S1Scan(s) \in S1State /\ LoopInv(s, S1Signal(s), S1Ma(s), S1Ends(s), S1Scan(s))
  BY <1>3, ScanIs DEF S1Scan
<1>5. x \in Seq(S1Trade)
  BY <1>4 DEF S1State
<1>6. ASSUME NEW k \in 1 .. Len(x)
      PROVE  Len(s) >= RsiPeriod + 3
  <2>1. FromSignal(s, S1Signal(s), S1Ma(s), S1Ends(s), x[k])
    BY <1>4 DEF LoopInv
  <2>2. PICK i \in 1 .. Len(s) - 1 : S1Signal(s)[i]
    BY <2>1 DEF FromSignal
  <2>3. i \in 1 .. Len(s) /\ i \in Nat /\ i < Len(s)
    BY <1>1
  <2>4. i >= RsiPeriod + 2
    BY <1>3, <2>2, <2>3
  <2> QED
    BY <1>1, <2>3, <2>4
<1> HIDE DEF x
<1>7. CASE Len(s) < MaxOf(RsiPeriod + 2, MaPeriod + 1)
  <2>1. ~(Len(s) >= RsiPeriod + 3)
    BY <1>1, <1>7 DEF MaxOf, LongEnough
  <2>2. Len(x) \in Nat /\ ~(1 \in 1 .. Len(x))
    BY <1>5, <1>6, <2>1
  <2>3. x = << >>
    BY <1>5, <2>2
  <2>4. SystemOneRun(s, 0, LastDay(s)).trades = << >>
    BY <1>2, <1>7 DEF Unscanned
  <2> QED
    BY <2>3, <2>4 DEF x
<1>8. CASE ~(Len(s) < MaxOf(RsiPeriod + 2, MaPeriod + 1))
  BY <1>2, <1>8
<1> QED
  BY <1>7, <1>8

\* A whole history is answered.
LEMMA AnsweredIs ==
    ASSUME NEW s, IsHistory(s), s # << >>, NEW answer
    PROVE  Answered(s, 0, LastDay(s), answer) = answer
<1>1. /\ Len(s) \in Nat \ {0} /\ 1 \in 1 .. Len(s) /\ LastDay(s) \in Nat
      /\ \A i \in 1 .. Len(s) : s[i].day \in Nat \ {0} /\ s[i].day <= LastDay(s)
  <2>1. s \in Seq(CandleSet)
    BY HistoryIs
  <2>2. Len(s) \in Nat \ {0}
    BY <2>1
  <2> QED
    BY <2>2, HistoryIs
<1>2. s[1].day \in Nat /\ s[1].day <= LastDay(s)
  BY <1>1
<1>3. ~(0 > LastDay(s)) /\ ~(LastDay(s) < 0) /\ ~(s[1].day > LastDay(s))
  BY <1>1, <1>2
<1> QED
  BY <1>3 DEF Answered

\* The holes found do not change the trades.
LEMMA FlagGapsIs ==
    ASSUME NEW all, NEW last, NEW x \in Seq(S1Trade)
    PROVE  LET y == FlagGaps(all, last, x)
           IN /\ y \in Seq(S1Trade) /\ Len(y) = Len(x)
              /\ \A k \in 1 .. Len(x) : SameEntry(x[k], y[k]) /\ y[k].exitAt = x[k].exitAt
<1> DEFINE y == FlagGaps(all, last, x)
           end(t) == IF IsOpen(t) THEN last ELSE t.exitAt
           in(t) == \E i \in DataGaps(all) : t.entryAt <= i + 1 /\ end(t) >= i
<1>1. Len(x) \in Nat /\ \A k \in 1 .. Len(x) : x[k] \in S1Trade
  OBVIOUS
<1>2. y = [k \in 1 .. Len(x) |-> [x[k] EXCEPT !.gap = in(x[k])]]
  BY DEF FlagGaps
<1>3. ASSUME NEW t \in S1Trade
      PROVE  /\ [t EXCEPT !.gap = in(t)] \in S1Trade
             /\ SameEntry(t, [t EXCEPT !.gap = in(t)]) /\ [t EXCEPT !.gap = in(t)].exitAt = t.exitAt
  <2>1. in(t) \in BOOLEAN
    OBVIOUS
  <2> DEFINE g == in(t)
  <2> HIDE DEF g
  <2>2. /\ [t EXCEPT !.gap = g] \in S1Trade
        /\ SameEntry(t, [t EXCEPT !.gap = g]) /\ [t EXCEPT !.gap = g].exitAt = t.exitAt
    BY <2>1 DEF g, S1Trade, SameEntry
  <2> QED
    BY <2>2 DEF g
<1> HIDE DEF y, in
<1>4. \A k \in 1 .. Len(x) : y[k] \in S1Trade /\ SameEntry(x[k], y[k]) /\ y[k].exitAt = x[k].exitAt
  BY <1>1, <1>2, <1>3
<1>5. y \in Seq(S1Trade) /\ Len(y) = Len(x)
  BY <1>1, <1>2, <1>4
<1> QED
  BY <1>4, <1>5 DEF y

\* The rows of long trades, each with a stop.
RowsWith(x, u) == [k \in 1 .. Len(x) |-> Row(x[k], u[k])]

LEMMA LongRowIs ==
    ASSUME NEW t \in S1Trade, NEW stop \in Nat
    PROVE  LET r == Row(t, stop)
           IN /\ r \in BookRow /\ r.side = "BUY" /\ r.entryAt = t.entryAt /\ r.entry = t.entry /\ r.stop = stop
              /\ r.exitAt = t.exitAt
BY DEF Row, S1Trade, BookRow

LEMMA LongRowsAre ==
    ASSUME NEW x \in Seq(S1Trade), NEW u \in [1 .. Len(x) -> Nat]
    PROVE  /\ RowsWith(x, u) \in Seq(BookRow) /\ Len(RowsWith(x, u)) = Len(x)
           /\ \A k \in 1 .. Len(x) : RowsWith(x, u)[k] = Row(x[k], u[k])
<1>1. Len(x) \in Nat /\ \A k \in 1 .. Len(x) : x[k] \in S1Trade /\ u[k] \in Nat
  OBVIOUS
<1>2. \A k \in 1 .. Len(x) : Row(x[k], u[k]) \in BookRow
  BY <1>1, LongRowIs
<1> QED
  BY <1>1, <1>2 DEF RowsWith

\* The rows go on as the trades do, when a stop is raised only while its trade
\* is open.
LEMMA LongRowsContinue ==
    ASSUME NEW x \in Seq(S1Trade), NEW y \in Seq(S1Trade), NEW n \in Nat, TradesContinue(x, y, n),
           NEW u \in [1 .. Len(x) -> Nat], NEW v \in [1 .. Len(y) -> Nat],
           \A k \in 1 .. Len(x) : v[k] >= u[k] /\ (~IsOpen(x[k]) => v[k] = u[k])
    PROVE  RowsContinue(RowsWith(x, u), RowsWith(y, v), n)
<1> DEFINE p == RowsWith(x, u)
           q == RowsWith(y, v)
<1>1. p \in Seq(BookRow) /\ Len(p) = Len(x) /\ \A k \in 1 .. Len(x) : p[k] = Row(x[k], u[k])
  BY LongRowsAre
<1>2. q \in Seq(BookRow) /\ Len(q) = Len(y) /\ \A k \in 1 .. Len(y) : q[k] = Row(y[k], v[k])
  BY LongRowsAre
<1>3. Len(x) \in Nat /\ Len(y) \in Nat
  OBVIOUS
<1> HIDE DEF p, q
<1>4. CASE Len(y) = Len(x) /\ \A k \in 1 .. Len(x) : StaysOrEnds(x[k], y[k], n)
  <2>1. ASSUME NEW k \in 1 .. Len(x)
        PROVE  RowStays(p[k], q[k], n)
    <3> DEFINE a == x[k]
               b == y[k]
    <3>1. a \in S1Trade /\ b \in S1Trade /\ StaysOrEnds(a, b, n) /\ u[k] \in Nat /\ v[k] \in Nat
      BY <1>4
    <3>2. v[k] >= u[k] /\ (~IsOpen(a) => v[k] = u[k])
      OBVIOUS
    <3>3. p[k] = Row(a, u[k]) /\ q[k] = Row(b, v[k])
      BY <1>1, <1>2, <1>4
    <3> HIDE DEF a, b
    <3>4. /\ p[k].side = "BUY" /\ p[k].entryAt = a.entryAt /\ p[k].entry = a.entry /\ p[k].stop = u[k] /\ p[k].exitAt = a.exitAt
          /\ q[k].side = "BUY" /\ q[k].entryAt = b.entryAt /\ q[k].entry = b.entry /\ q[k].stop = v[k] /\ q[k].exitAt = b.exitAt
      BY <3>1, <3>3, LongRowIs
    <3>5. CASE ~IsOpen(a)
      BY <3>1, <3>2, <3>3, <3>5 DEF StaysOrEnds, RowStays
    <3>6. CASE IsOpen(a)
      <4>1. b.entryAt = a.entryAt /\ b.entry = a.entry /\ b.exitAt \in {0, n + 1}
        BY <3>1, <3>6 DEF StaysOrEnds, SameEntry, IsOpen
      <4> QED
        BY <3>2, <3>4, <3>6, <4>1 DEF RowStays, IsOpen
    <3> QED
      BY <3>5, <3>6
  <2> QED
    BY <1>1, <1>2, <1>4, <2>1 DEF RowsContinue, p, q
<1>5. ASSUME AllEnded(x), NEW t \in S1Trade, y = Append(x, t), t.entryAt = n + 1, IsOpen(t)
      PROVE  RowsContinue(p, q, n)
  <2> DEFINE last == Len(x) + 1
             r == Row(t, v[last])
  <2>1. /\ Len(y) = last /\ last \in 1 .. Len(y) /\ y[last] = t /\ last = Len(x) + 1
        /\ \A k \in 1 .. Len(x) : y[k] = x[k] /\ k \in 1 .. Len(y)
    BY <1>3, <1>5
  <2> HIDE DEF last
  <2>2. v[last] \in Nat
    BY <2>1
  <2>3. r \in BookRow /\ r.entryAt = n + 1 /\ r.exitAt = 0
    <3>1. r \in BookRow /\ r.entryAt = t.entryAt /\ r.exitAt = t.exitAt
      BY <1>5, <2>2, LongRowIs
    <3> QED
      BY <1>5, <3>1 DEF IsOpen
  <2>4. \A k \in 1 .. Len(x) : q[k] = p[k]
    BY <1>1, <1>2, <1>5, <2>1 DEF AllEnded
  <2>5. q[Len(q)] = r
    BY <1>2, <2>1
  <2> HIDE DEF r
  <2>6. q = Append(p, r)
    <3>1. Len(q) = Len(p) + 1 /\ \A k \in 1 .. Len(p) : q[k] = p[k]
      BY <1>1, <1>2, <2>1, <2>4
    <3> QED
      BY <1>1, <1>2, <2>5, <3>1, AppendedIs
  <2>7. \A k \in 1 .. Len(p) : p[k].exitAt # 0
    <3> TAKE k \in 1 .. Len(p)
    <3>1. k \in 1 .. Len(x) /\ x[k] \in S1Trade /\ u[k] \in Nat
      <4>1. k \in 1 .. Len(x)
        BY <1>1
      <4> QED
        BY <4>1
    <3>2. ~IsOpen(x[k])
      BY <1>5, <3>1 DEF AllEnded
    <3>3. Row(x[k], u[k]).exitAt = x[k].exitAt
      BY <3>1, LongRowIs
    <3> QED
      BY <1>1, <3>1, <3>2, <3>3 DEF IsOpen
  <2> QED
    BY <2>3, <2>6, <2>7 DEF RowsContinue
<1> QED
  BY <1>4, <1>5 DEF TradesContinue, p, q

\* What a loop leaves open is the last of its rows.
LEMMA LongRowsOpen ==
    ASSUME NEW s, NEW signal, NEW stop, NEW exit, NEW m \in S1State, LoopInv(s, signal, stop, exit, m),
           NEW u \in [1 .. Len(m.trades) -> Nat]
    PROVE  OnlyLastOpen(RowsWith(m.trades, u))
<1> DEFINE x == m.trades
           p == RowsWith(x, u)
<1>1. x \in Seq(S1Trade)
  BY DEF S1State
<1>2. p \in Seq(BookRow) /\ Len(p) = Len(x) /\ \A k \in 1 .. Len(x) : p[k] = Row(x[k], u[k])
  BY <1>1, LongRowsAre
<1> HIDE DEF p
<1> SUFFICES ASSUME NEW k \in 1 .. Len(p), p[k].exitAt = 0
             PROVE  k = Len(p)
  BY DEF OnlyLastOpen, p
<1>3. k \in 1 .. Len(x) /\ x[k] \in S1Trade /\ u[k] \in Nat
  BY <1>1, <1>2
<1>4. x[k].exitAt = 0
  <2>1. Row(x[k], u[k]).exitAt = x[k].exitAt
    BY <1>3, LongRowIs
  <2> QED
    BY <1>2, <1>3, <2>1
<1> QED
  BY <1>2, <1>3, <1>4 DEF LoopInv, IsOpen

\* The rows of System One.
S1Stops(x) == [k \in 1 .. Len(x) |-> x[k].stop]
S1Rows(s) == RowsWith(S1Scan(s).trades, S1Stops(S1Scan(s).trades))

LEMMA S1ScanIs ==
    ASSUME NEW s, IsHistory(s)
    PROVE  /\ S1Scan(s) \in S1State /\ S1Scan(s).trades \in Seq(S1Trade)
           /\ S1Stops(S1Scan(s).trades) \in [1 .. Len(S1Scan(s).trades) -> Nat]
           /\ S1Rows(s) \in Seq(BookRow) /\ OnlyLastOpen(S1Rows(s))
<1> DEFINE x == S1Scan(s).trades
<1>1. LoopData(s, 0, S1Signal(s), S1Ma(s), S1Ends(s))
  BY S1DataIs
<1>2. S1Scan(s) \in S1State /\ LoopInv(s, S1Signal(s), S1Ma(s), S1Ends(s), S1Scan(s))
  BY <1>1, ScanIs DEF S1Scan
<1>3. x \in Seq(S1Trade)
  BY <1>2 DEF S1State
<1>4. S1Stops(x) \in [1 .. Len(x) -> Nat]
  <2> HIDE DEF x
  <2>1. \A k \in 1 .. Len(x) : x[k] \in S1Trade
    BY <1>3
  <2>2. \A k \in 1 .. Len(x) : x[k].stop \in Nat
    BY <2>1 DEF S1Trade
  <2> QED
    BY <2>2 DEF S1Stops
<1>5. S1Rows(s) \in Seq(BookRow)
  BY <1>3, <1>4, LongRowsAre DEF S1Rows
<1>6. OnlyLastOpen(S1Rows(s))
  BY <1>2, <1>4, LongRowsOpen DEF S1Rows
<1> QED
  BY <1>2, <1>3, <1>4, <1>5, <1>6

\* The rows of the report are those of the loop.
LEMMA S1RowsAre ==
    ASSUME NEW s, IsHistory(s), s # << >>, LongEnough(s)
    PROVE  LET r == SystemOneReport(s, 0, LastDay(s))
           IN /\ r.outcome = "done" /\ r.trades \in Seq(S1Trade)
              /\ [k \in 1 .. Len(r.trades) |-> Row(r.trades[k], r.trades[k].stop)] = S1Rows(s)
<1> DEFINE r == SystemOneReport(s, 0, LastDay(s))
           x == S1Scan(s).trades
           y == FlagGaps(s, Len(s), x)
<1>1. r.outcome = "done" /\ r.trades = y
  BY S1RunIs, AnsweredIs, BeforeAll DEF SystemOneReport
<1>2. x \in Seq(S1Trade)
  BY S1ScanIs
<1> HIDE DEF x
<1>3. /\ y \in Seq(S1Trade) /\ Len(y) = Len(x)
      /\ \A k \in 1 .. Len(x) : SameEntry(x[k], y[k]) /\ y[k].exitAt = x[k].exitAt
  BY <1>2, FlagGapsIs
<1> HIDE DEF y, r
<1>4. \A k \in 1 .. Len(x) : Row(y[k], y[k].stop) = Row(x[k], x[k].stop)
  BY <1>3 DEF Row, SameEntry
<1>5. S1Rows(s) = [k \in 1 .. Len(x) |-> Row(x[k], S1Stops(x)[k])]
  BY DEF S1Rows, RowsWith, x
<1>6. \A k \in 1 .. Len(x) : S1Stops(x)[k] = x[k].stop
  BY DEF S1Stops
<1>7. S1Rows(s) = [k \in 1 .. Len(y) |-> Row(y[k], y[k].stop)]
  BY <1>3, <1>4, <1>5, <1>6
<1> QED
  BY <1>1, <1>3, <1>7 DEF r

\* Every candle is a step of the book.
LEMMA SystemOneKeepsBook ==
    ASSUME part = "system_one", part' = part, IsHistory(bars), IsHistory(bars'), OneMore(bars', bars),
           bars # << >>, LongEnough(bars),
           report = Report(part, bars, minutes), report' = Report(part, bars', minutes')
    PROVE  Book!Next /\ LongEnough(bars') /\ bars' # << >>
<1> DEFINE s == bars
           t == bars'
           x == S1Scan(s).trades
           y == S1Scan(t).trades
           u == S1Stops(x)
           v == S1Stops(y)
<1>1. Len(s) \in Nat /\ Len(t) = Len(s) + 1 /\ s \in Seq(CandleSet) /\ t \in Seq(CandleSet) /\ MaPeriod \in Nat
  BY HistoryIs, SystemOneAssumption DEF OneMore
<1>2. LongEnough(t) /\ t # << >>
  BY <1>1 DEF LongEnough
<1>3. report = SystemOneReport(s, 0, LastDay(s)) /\ report' = SystemOneReport(t, 0, LastDay(t))
  BY DEF Report
<1>4. Rows = S1Rows(s)
  <2>1. Rows = [k \in 1 .. Len(report.trades) |-> Row(report.trades[k], report.trades[k].stop)]
    BY DEF Rows, Stop
  <2> QED
    BY <1>3, <2>1, S1RowsAre
<1>5. Rows' = S1Rows(t)
  <2>1. Rows' = [k \in 1 .. Len(report'.trades) |-> Row(report'.trades[k], report'.trades[k].stop)]
    BY DEF Rows, Stop
  <2> QED
    BY <1>2, <1>3, <2>1, S1RowsAre
<1> HIDE DEF s, t
<1>6. IsHistory(s) /\ IsHistory(t) /\ OneMore(t, s) /\ s # << >>
  BY DEF s, t
<1>7. /\ x \in Seq(S1Trade) /\ u \in [1 .. Len(x) -> Nat] /\ S1Rows(s) \in Seq(BookRow) /\ OnlyLastOpen(S1Rows(s))
      /\ y \in Seq(S1Trade) /\ v \in [1 .. Len(y) -> Nat] /\ S1Rows(t) \in Seq(BookRow) /\ OnlyLastOpen(S1Rows(t))
  BY <1>6, S1ScanIs
<1>8. TradesContinue(x, y, Len(s))
  BY <1>6, S1DataStays
<1>9. S1Rows(s) = RowsWith(x, u) /\ S1Rows(t) = RowsWith(y, v)
  BY DEF S1Rows
<1> HIDE DEF x, y
<1>10. \A k \in 1 .. Len(x) : v[k] = u[k]
  <2>1. ASSUME NEW k \in 1 .. Len(x)
        PROVE  k \in 1 .. Len(y) /\ y[k].stop = x[k].stop
    <3>1. CASE Len(y) = Len(x) /\ \A j \in 1 .. Len(x) : StaysOrEnds(x[j], y[j], Len(s))
      BY <3>1 DEF StaysOrEnds, SameEntry
    <3>2. ASSUME NEW a \in S1Trade, y = Append(x, a)
          PROVE  k \in 1 .. Len(y) /\ y[k] = x[k]
      BY <1>7, <3>2
    <3> QED
      BY <1>8, <3>1, <3>2 DEF TradesContinue
  <2> QED
    BY <2>1 DEF S1Stops
<1> HIDE DEF u, v
<1>11. \A k \in 1 .. Len(x) : v[k] >= u[k] /\ (~IsOpen(x[k]) => v[k] = u[k])
  <2> TAKE k \in 1 .. Len(x)
  <2>1. u[k] \in Nat /\ v[k] = u[k]
    BY <1>7, <1>10
  <2> QED
    BY <2>1
<1>12. RowsContinue(S1Rows(s), S1Rows(t), Len(s))
  BY <1>1, <1>7, <1>8, <1>9, <1>11, LongRowsContinue
<1>13. Rows \in Seq(BookRow) /\ Rows' \in Seq(BookRow) /\ OnlyLastOpen(Rows) /\ OnlyLastOpen(Rows')
       /\ RowsContinue(Rows, Rows', Len(bars)) /\ bars \in Seq(CandleSet) /\ Len(bars') = Len(bars) + 1
  BY <1>1, <1>4, <1>5, <1>7, <1>12 DEF s, t
<1>14. Book!Next
  BY <1>13, LongsKeepBook
<1> QED
  BY <1>2, <1>14 DEF t

-----------------------------------------------------------------------------
(* GFS: the staged stop of one trade.                                      *)

GWalk == [ended : S1Exit, stop : Nat]
AtRisk == {"STOP_HIT", "WEEKLY_RSI_EXIT"}

\* The stop for the next candle is never lower.
LEMMA RaisedStopIs ==
    ASSUME NEW s \in Seq(CandleSet), NEW j \in 1 .. Len(s), NEW entry \in Nat, NEW risk, NEW stop \in Nat
    PROVE  RaisedStop(s, j, entry, risk, stop) \in Nat /\ RaisedStop(s, j, entry, risk, stop) >= stop
<1> DEFINE even == IF s[j].c >= entry + BreakevenR * risk THEN MaxOf(stop, entry) ELSE stop
           rising == j >= TrailCandles /\ \A k \in j - TrailCandles + 2 .. j : s[k].l > s[k - 1].l
<1>1. RaisedStop(s, j, entry, risk, stop) = IF rising THEN MaxOf(even, s[j - TrailCandles + 1].l) ELSE even
  BY DEF RaisedStop
<1>2. even \in Nat /\ even >= stop
  BY DEF MaxOf
<1> HIDE DEF even
<1>3. CASE rising
  <2>1. j - TrailCandles + 1 \in 1 .. Len(s)
    BY <1>3, SystemOneAssumption
  <2>2. s[j - TrailCandles + 1] \in CandleSet
    BY <2>1
  <2>3. s[j - TrailCandles + 1].l \in Nat
    BY <2>2 DEF CandleSet, Price
  <2> HIDE DEF rising
  <2> QED
    BY <1>1, <1>2, <1>3, <2>3 DEF MaxOf
<1>4. CASE ~rising
  <2> HIDE DEF rising
  <2> QED
    BY <1>1, <1>2, <1>4
<1> QED
  BY <1>3, <1>4

\* A candle ends a trade at the earliest on its own.
LEMMA GfsExitIs ==
    ASSUME NEW s \in Seq(CandleSet), NEW j \in 1 .. Len(s), NEW weekly, NEW stop \in Nat
    PROVE  LET x == GfsExit(s, weekly, j, stop)
           IN /\ x \in S1Exit /\ x.at \in {0, j}
              /\ x.reason \in AtRisk => x.price >= stop
<1> DEFINE x == GfsExit(s, weekly, j, stop)
<1>1. j \in Nat /\ Len(s) \in Nat
  OBVIOUS
<1>2. s[j].o \in Nat /\ s[j].l \in Nat /\ s[j].c \in Nat /\ s[j].l <= s[j].c
  <2>1. s[j] \in CandleSet
    OBVIOUS
  <2> QED
    BY <2>1 DEF CandleSet, Price
<1>3. \/ x = ExitAt(j, s[j].o, "GAP_OPEN_BELOW_STOP")
      \/ x = ExitAt(j, stop, "STOP_HIT")
      \/ ~(s[j].l <= stop) /\ x = ExitAt(j, s[j].c, "WEEKLY_RSI_EXIT")
      \/ x = NotYet
  BY DEF GfsExit
<1> HIDE DEF x
<1>4. CASE x = NotYet
  <2>1. x \in S1Exit /\ x.at = 0 /\ x.reason = "OPEN"
    BY <1>4 DEF NotYet, NoLevel, S1Exit, S1Reason
  <2> QED
    BY <2>1 DEF x, AtRisk
<1>5. ASSUME NEW price \in Nat, NEW why \in {"GAP_OPEN_BELOW_STOP", "STOP_HIT", "WEEKLY_RSI_EXIT"},
             x = ExitAt(j, price, why)
      PROVE  x \in S1Exit /\ x.at = j /\ x.reason = why /\ x.price = price
  BY <1>1, <1>5 DEF ExitAt, S1Exit, S1Reason
<1>6. CASE x = ExitAt(j, s[j].o, "GAP_OPEN_BELOW_STOP")
  <2>1. x \in S1Exit /\ x.at = j /\ x.reason = "GAP_OPEN_BELOW_STOP"
    BY <1>2, <1>5, <1>6
  <2> QED
    BY <2>1 DEF x, AtRisk
<1>7. CASE x = ExitAt(j, stop, "STOP_HIT")
  <2>1. x \in S1Exit /\ x.at = j /\ x.price = stop
    BY <1>5, <1>7
  <2> QED
    BY <2>1 DEF x
<1>8. CASE ~(s[j].l <= stop) /\ x = ExitAt(j, s[j].c, "WEEKLY_RSI_EXIT")
  <2>1. x \in S1Exit /\ x.at = j /\ x.price = s[j].c
    BY <1>2, <1>5, <1>8
  <2>2. x.price >= stop
    BY <1>2, <1>8, <2>1
  <2> QED
    BY <2>1, <2>2 DEF x
<1> QED
  BY <1>3, <1>4, <1>6, <1>7, <1>8

\* What a candle does to a trade.
LEMMA ManagedIs ==
    ASSUME NEW s \in Seq(CandleSet), NEW j \in 1 .. Len(s), NEW weekly, NEW entry \in Nat, NEW initial,
           NEW m \in GWalk
    PROVE  LET r == Managed(s, weekly, entry, initial, m, j)
           IN /\ r \in GWalk /\ r.stop >= m.stop
              /\ r.ended = m.ended \/ (m.ended.at = 0 /\ r.ended.at = j)
              /\ r.ended = m.ended \/ (r.ended.reason \in AtRisk => r.ended.price >= m.stop)
<1> DEFINE x == GfsExit(s, weekly, j, m.stop)
           higher == RaisedStop(s, j, entry, entry - initial, m.stop)
           r == Managed(s, weekly, entry, initial, m, j)
<1>1. m.ended \in S1Exit /\ m.stop \in Nat
  BY DEF GWalk
<1>2. x \in S1Exit /\ x.at \in {0, j} /\ (x.reason \in AtRisk => x.price >= m.stop)
  BY <1>1, GfsExitIs
<1>3. higher \in Nat /\ higher >= m.stop
  BY <1>1, RaisedStopIs
<1>4. \/ r = m
      \/ m.ended.at = 0 /\ x.at # 0 /\ r = [m EXCEPT !.ended = x]
      \/ r = [m EXCEPT !.stop = higher]
  BY DEF Managed
<1> HIDE DEF x, higher, r
<1>5. r \in GWalk
  BY <1>1, <1>2, <1>3, <1>4 DEF GWalk
<1>6. \/ r.stop = m.stop /\ r.ended = m.ended
      \/ m.ended.at = 0 /\ x.at # 0 /\ r.stop = m.stop /\ r.ended = x
      \/ r.stop = higher /\ r.ended = m.ended
  BY <1>4 DEF GWalk
<1>7. r.stop >= m.stop
  BY <1>1, <1>3, <1>6
<1>8. r.ended = m.ended \/ (m.ended.at = 0 /\ r.ended.at = j)
  BY <1>2, <1>6
<1>9. r.ended = m.ended \/ (r.ended.reason \in AtRisk => r.ended.price >= m.stop)
  BY <1>2, <1>6
<1> QED
  BY <1>5, <1>7, <1>8, <1>9 DEF r

\* The walk from the entry of a trade on.
StagedInv(e, initial, j, m) ==
    /\ m \in GWalk /\ m.stop >= initial
    /\ m.ended.at = 0 \/ m.ended.at \in e + 1 .. j
    /\ m.ended.reason \in AtRisk => m.ended.price >= initial

\* What the walk is given: the candles, the entry and its first stop.
Managing(s, e, weekly, entry, initial) ==
    /\ s \in Seq(CandleSet) /\ e \in 1 .. Len(s)
    /\ weekly \in [1 .. Len(s) -> Int] /\ entry \in Nat /\ initial \in Nat

LEMMA ManageTradeIs ==
    ASSUME NEW s, NEW e, NEW weekly, NEW entry, NEW initial, Managing(s, e, weekly, entry, initial)
    PROVE  LET walk == ManageTrade(s, weekly, e, entry, initial)
           IN /\ walk[e] = [ended |-> NotYet, stop |-> initial]
              /\ \A j \in e + 1 .. Len(s) : walk[j] = Managed(s, weekly, entry, initial, walk[j - 1], j)
              /\ \A j \in e .. Len(s) : StagedInv(e, initial, j, walk[j])
<1> DEFINE n == Len(s)
           base == [ended |-> NotYet, stop |-> initial]
           act(m, j) == Managed(s, weekly, entry, initial, m, j)
           Body(f) == [j \in e .. n |-> IF j = e THEN base ELSE act(f[j - 1], j)]
           step == [q \in GWalk \X (e .. n) |-> act(q[1], q[2])]
           walk == ManageTrade(s, weekly, e, entry, initial)
<1> USE DEF Managing
<1>0. n \in Nat /\ e \in Nat /\ e >= 1 /\ e <= n
  OBVIOUS
<1>1. base \in GWalk
  BY DEF GWalk, NotYet, NoLevel, S1Exit, S1Reason
<1>2. ASSUME NEW m \in GWalk, NEW j \in e .. n
      PROVE  act(m, j) \in GWalk
  <2>1. j \in 1 .. Len(s)
    BY <1>0
  <2> QED
    BY <2>1, ManagedIs
<1> HIDE DEF act, base
<1>3. \E f : f = Body(f)
  <2>1. step \in [GWalk \X (e .. n) -> GWalk]
    BY <1>2
  <2>2. PICK f : IsRun(f, e, n, GWalk, base, step)
    <3>1. step \in StepsOn(GWalk, e, n) /\ e \in Int /\ n \in Int
      BY <1>0, <2>1 DEF StepsOn
    <3> HIDE DEF n, step
    <3> QED
      BY <1>1, <3>1, Recursion
  <2>3. ASSUME NEW j \in e .. n
        PROVE  f[j] = Body(f)[j]
    <3>1. CASE j = e
      BY <1>0, <2>2, <3>1 DEF IsRun
    <3>2. CASE j # e
      <4>1. j \in e + 1 .. n /\ j - 1 \in e .. n
        BY <1>0, <3>2
      <4>2. f[j - 1] \in GWalk /\ f[j] = step[<<f[j - 1], j>>]
        BY <2>2, <4>1 DEF IsRun
      <4> QED
        BY <4>2, <3>2
    <3> QED
      BY <3>1, <3>2
  <2>4. f = Body(f)
    BY <1>0, <2>2, <2>3 DEF IsRun
  <2> QED
    BY <2>4
<1>4. walk = Body(walk)
  <2>1. walk = CHOOSE f : f = Body(f)
    BY DEF ManageTrade, act, base
  <2> HIDE DEF Body, walk
  <2> QED
    BY <1>3, <2>1
<1>5. walk[e] = base /\ \A j \in e + 1 .. n : walk[j] = act(walk[j - 1], j)
  <2> HIDE DEF walk, n
  <2> QED
    BY <1>0, <1>4
<1> HIDE DEF walk
<1> DEFINE S == {j \in e .. n : StagedInv(e, initial, j, walk[j])}
<1>6. e \in S
  <2>1. base.stop = initial /\ base.ended.at = 0 /\ base.ended.reason = "OPEN"
    BY DEF base, NotYet
  <2>2. StagedInv(e, initial, e, base)
    BY <1>1, <2>1 DEF StagedInv, AtRisk
  <2> QED
    BY <1>0, <1>5, <2>2
<1>7. ASSUME NEW j \in e + 1 .. n, j - 1 \in S
      PROVE  j \in S
  <2> DEFINE m == walk[j - 1]
             r == walk[j]
  <2>1. StagedInv(e, initial, j - 1, m) /\ j \in 1 .. Len(s) /\ j \in e .. n /\ j \in Nat
    BY <1>0, <1>7
  <2>2. r = Managed(s, weekly, entry, initial, m, j)
    BY <1>5 DEF act
  <2> HIDE DEF m, r
  <2>3. m \in GWalk /\ m.stop \in Nat /\ m.stop >= initial
    BY <2>1 DEF StagedInv, GWalk
  <2>4. /\ r \in GWalk /\ r.stop >= m.stop
        /\ r.ended = m.ended \/ (m.ended.at = 0 /\ r.ended.at = j)
        /\ r.ended = m.ended \/ (r.ended.reason \in AtRisk => r.ended.price >= m.stop)
    BY <2>1, <2>2, <2>3, ManagedIs
  <2>5. r.stop \in Nat /\ r.ended.price \in Nat
    BY <2>4 DEF GWalk, S1Exit
  <2>6. r.stop >= initial
    BY <2>3, <2>4, <2>5
  <2>7. r.ended.at = 0 \/ r.ended.at \in e + 1 .. j
    BY <1>0, <2>1, <2>4 DEF StagedInv
  <2>8. r.ended.reason \in AtRisk => r.ended.price >= initial
    BY <2>1, <2>3, <2>4, <2>5 DEF StagedInv
  <2>9. StagedInv(e, initial, j, r)
    BY <2>4, <2>6, <2>7, <2>8 DEF StagedInv
  <2> QED
    BY <2>1, <2>9 DEF r
<1>8. e .. n \subseteq S
  <2>1. e \in Int /\ n \in Int
    BY <1>0
  <2> HIDE DEF S, n
  <2> QED
    BY <1>6, <1>7, <2>1, Upward
<1> QED
  BY <1>5, <1>8 DEF walk, act, base

\* Later candles do not change what the earlier ones did.
LEMMA ManageTradeStays ==
    ASSUME NEW e, NEW entry, NEW initial,
           NEW s, NEW weekly, Managing(s, e, weekly, entry, initial),
           NEW t, NEW later, Managing(t, e, later, entry, initial),
           OneMore(t, s), \A k \in 1 .. Len(s) : later[k] = weekly[k]
    PROVE  \A j \in e .. Len(s) :
               ManageTrade(t, later, e, entry, initial)[j] = ManageTrade(s, weekly, e, entry, initial)[j]
<1> DEFINE n == Len(s)
           old == ManageTrade(s, weekly, e, entry, initial)
           new == ManageTrade(t, later, e, entry, initial)
           S == {j \in e .. n : new[j] = old[j]}
<1>1. n \in Nat /\ Len(t) = n + 1 /\ e \in Nat /\ e >= 1 /\ e <= n /\ e \in 1 .. Len(t) /\ \A k \in 1 .. n : t[k] = s[k]
  BY DEF OneMore, Continues, Managing
<1>2. /\ old[e] = [ended |-> NotYet, stop |-> initial]
      /\ \A j \in e + 1 .. n : old[j] = Managed(s, weekly, entry, initial, old[j - 1], j)
  BY ManageTradeIs
<1>3. /\ new[e] = [ended |-> NotYet, stop |-> initial]
      /\ \A j \in e + 1 .. Len(t) : new[j] = Managed(t, later, entry, initial, new[j - 1], j)
  BY ManageTradeIs
<1> HIDE DEF old, new
<1>4. e \in S
  BY <1>1, <1>2, <1>3
<1>5. ASSUME NEW j \in e + 1 .. n, j - 1 \in S
      PROVE  j \in S
  <2>1. j \in 1 .. n /\ j \in e .. n /\ j \in e + 1 .. Len(t) /\ j \in Nat
    BY <1>1
  <2>2. t[j] = s[j] /\ later[j] = weekly[j]
    BY <1>1, <2>1
  <2>3. \A stop : GfsExit(t, later, j, stop) = GfsExit(s, weekly, j, stop)
    BY <2>2 DEF GfsExit
  <2>4. \A risk, stop : RaisedStop(t, j, entry, risk, stop) = RaisedStop(s, j, entry, risk, stop)
    <3>1. (j >= TrailCandles /\ \A k \in j - TrailCandles + 2 .. j : t[k].l > t[k - 1].l)
          <=> (j >= TrailCandles /\ \A k \in j - TrailCandles + 2 .. j : s[k].l > s[k - 1].l)
      <4> SUFFICES ASSUME j >= TrailCandles
                   PROVE  \A k \in j - TrailCandles + 2 .. j : t[k] = s[k] /\ t[k - 1] = s[k - 1]
        OBVIOUS
      <4> TAKE k \in j - TrailCandles + 2 .. j
      <4>1. k \in 1 .. n /\ k - 1 \in 1 .. n
        BY <1>1, <2>1, SystemOneAssumption
      <4> QED
        BY <1>1, <4>1
    <3>2. j >= TrailCandles => t[j - TrailCandles + 1] = s[j - TrailCandles + 1]
      BY <1>1, <2>1, SystemOneAssumption
    <3> QED
      BY <2>2, <3>1, <3>2 DEF RaisedStop
  <2>5. \A m : Managed(t, later, entry, initial, m, j) = Managed(s, weekly, entry, initial, m, j)
    <3> TAKE m
    <3>1. GfsExit(t, later, j, m.stop) = GfsExit(s, weekly, j, m.stop)
      BY <2>3
    <3>2. RaisedStop(t, j, entry, entry - initial, m.stop) = RaisedStop(s, j, entry, entry - initial, m.stop)
      BY <2>4
    <3> QED
      BY <3>1, <3>2, Zenon DEF Managed
  <2>6. new[j - 1] = old[j - 1]
    BY <1>5
  <2> QED
    BY <1>2, <1>3, <2>1, <2>5, <2>6
<1>6. e .. n \subseteq S
  <2>1. e \in Int /\ n \in Int
    BY <1>1
  <2> HIDE DEF S, n
  <2> QED
    BY <1>4, <1>5, <2>1, Upward
<1> QED
  BY <1>6 DEF old, new

-----------------------------------------------------------------------------
(* GFS: signals, stops and exits of every candle.                          *)

\* The periods that had ended on the day of candle i.
EndedBy(s, days, i) == {k \in 1 .. Len(Resample(s, days)) : Resample(s, days)[k].day <= s[i].day}

LEMMA HigherRsiIs ==
    ASSUME NEW s, IsHistory(s), NEW days \in Nat \ {0}
    PROVE  HigherRsi(s, days) \in [1 .. Len(s) -> Int]
<1> DEFINE higher == Resample(s, days)
           r == Rsi(Closes(higher), RsiPeriod)
<1>1. IsHistory(higher)
  BY ResampleIs
<1>2. /\ higher \in Seq(CandleSet) /\ Len(higher) \in Nat
      /\ Closes(higher) \in Seq(Nat) /\ Len(Closes(higher)) = Len(higher)
  <2> HIDE DEF higher
  <2> QED
    BY <1>1, HistoryIs, ClosesAre
<1>3. r \in Seq(Int) /\ Len(r) = Len(higher)
  <2> DEFINE c == Closes(higher)
  <2>1. c \in Seq(Nat) /\ Len(c) = Len(higher) /\ RsiPeriod \in Nat \ {0}
    BY <1>2, SystemOneAssumption
  <2> HIDE DEF c
  <2>2. Rsi(c, RsiPeriod) \in Seq(Int) /\ Len(Rsi(c, RsiPeriod)) = Len(c)
    BY <2>1, RsiIs
  <2> QED
    BY <2>1, <2>2 DEF c
<1> HIDE DEF r
<1>4. ASSUME NEW i \in 1 .. Len(s)
      PROVE  (IF EndedBy(s, days, i) = {} THEN NoRsi ELSE r[Max(EndedBy(s, days, i))]) \in Int
  <2> DEFINE E == EndedBy(s, days, i)
  <2>1. E \in SUBSET (1 .. Len(higher))
    BY DEF EndedBy
  <2>2. NoRsi \in Int
    BY DEF NoRsi
  <2> HIDE DEF E, higher
  <2>3. E # {} => Max(E) \in 1 .. Len(higher)
    <3>1. IsFiniteSet(E) /\ E \in SUBSET Nat
      BY <1>2, <2>1, Places
    <3> QED
      BY <2>1, <3>1, MaxIs
  <2>4. E # {} => r[Max(E)] \in Int
    BY <1>3, <2>3
  <2> QED
    BY <2>2, <2>4 DEF E
<1>5. HigherRsi(s, days) =
          [i \in 1 .. Len(s) |-> IF EndedBy(s, days, i) = {} THEN NoRsi ELSE r[Max(EndedBy(s, days, i))]]
  BY DEF HigherRsi, EndedBy, r
<1> QED
  BY <1>4, <1>5

\* A period that ended later was no period that had ended by an earlier candle.
LEMMA EndedByStays ==
    ASSUME NEW s, IsHistory(s), NEW t, IsHistory(t), Continues(t, s), NEW days \in Nat \ {0},
           NEW i \in 1 .. Len(s)
    PROVE  EndedBy(t, days, i) = EndedBy(s, days, i)
<1> DEFINE old == Resample(s, days)
           new == Resample(t, days)
           S == Ends(s, days)
           T == Ends(t, days)
<1>1. /\ Continues(new, old) /\ IsHistory(old) /\ IsHistory(new)
      /\ old = PeriodBars(s, days, S) /\ new = PeriodBars(t, days, T)
  BY ResampleContinues, ResampleIs
<1>2. /\ S \in SUBSET AllEnds(s, days) /\ IsFiniteSet(S)
      /\ T \in SUBSET AllEnds(t, days) /\ IsFiniteSet(T) /\ AllEnds(t, days) \in SUBSET Nat
  BY EndsAre
<1>3. S \in SUBSET T /\ \A y \in T \ S : LastDay(s) < y
  BY EndsGrow
<1>4. /\ Len(old) = Cardinality(S) /\ Len(new) = Cardinality(T)
      /\ \A k \in 1 .. Cardinality(T) : Nth(T, k) \in T /\ new[k] = PeriodBar(t, days, Nth(T, k))
  <2> HIDE DEF S, T
  <2> QED
    BY <1>1, <1>2, PeriodBarsAre
<1>5. \A k \in 1 .. Cardinality(T) : new[k].day = Nth(T, k)
  BY <1>2, <1>4, PeriodBarIs
<1>6. /\ Len(old) \in Nat /\ Len(new) \in Nat /\ Len(old) <= Len(new)
      /\ \A k \in 1 .. Len(old) : new[k] = old[k]
  <2>1. Len(old) \in Nat /\ Len(new) \in Nat
    <3> HIDE DEF old, new
    <3> QED
      BY <1>1, HistoryIs
  <2> QED
    BY <1>1, <2>1 DEF Continues
<1>7. s[i].day <= LastDay(s) /\ s[i].day \in Nat /\ LastDay(s) \in Nat /\ t[i] = s[i]
  BY HistoryIs DEF Continues
<1> HIDE DEF old, new, S, T
<1>8. ASSUME NEW k \in 1 .. Len(new), k \notin 1 .. Len(old)
      PROVE  ~(new[k].day <= s[i].day)
  <2> DEFINE y == Nth(T, k)
  <2>1. k \in 1 .. Cardinality(T) /\ k \in Nat /\ Cardinality(S) < k
    BY <1>4, <1>6, <1>8
  <2>2. y \in T /\ new[k].day = y
    BY <1>4, <1>5, <2>1
  <2>3. y \notin S
    <3> SUFFICES ASSUME y \in S
                 PROVE  FALSE
      OBVIOUS
    <3>1. /\ T \in SUBSET Nat /\ S \in SUBSET Nat
          /\ \A a \in S, b \in T \ S : a < b
      <4>1. T \in SUBSET Nat /\ S \in SUBSET Nat
        BY <1>2, <1>3
      <4>2. \A a \in S : a <= LastDay(s)
        BY DEF S, Ends
      <4> QED
        BY <1>3, <1>7, <4>1, <4>2
    <3> DEFINE j == Cardinality(Below(S, y))
    <3>2. j \in 1 .. Cardinality(S) /\ Nth(S, j) = y
      BY <1>2, <3>1, NthIs
    <3>3. Nth(T, j) = Nth(S, j)
      BY <1>2, <1>3, <3>1, <3>2, NthOfPart
    <3> HIDE DEF j
    <3>4. j \in 1 .. Cardinality(T) /\ j < k
      BY <1>4, <1>6, <2>1, <3>2
    <3>5. Nth(T, j) < Nth(T, k)
      BY <1>2, <2>1, <3>1, <3>4, NthOrder
    <3>6. y \in Nat
      BY <2>2, <3>1
    <3> QED
      BY <3>2, <3>3, <3>5, <3>6
  <2> HIDE DEF y
  <2>4. y \in Nat /\ LastDay(s) < y
    BY <1>2, <1>3, <2>2, <2>3
  <2> QED
    BY <1>7, <2>2, <2>4
<1>9. \A k : (k \in 1 .. Len(new) /\ new[k].day <= s[i].day) <=> (k \in 1 .. Len(old) /\ old[k].day <= s[i].day)
  BY <1>6, <1>8
<1>10. EndedBy(t, days, i) = {k \in 1 .. Len(new) : new[k].day <= s[i].day}
       /\ EndedBy(s, days, i) = {k \in 1 .. Len(old) : old[k].day <= s[i].day}
  BY <1>7 DEF EndedBy, old, new
<1> QED
  BY <1>9, <1>10

\* The RSI of the periods that had ended does not change with later candles.
LEMMA HigherRsiStays ==
    ASSUME NEW s, IsHistory(s), NEW t, IsHistory(t), Continues(t, s), NEW days \in Nat \ {0}
    PROVE  \A i \in 1 .. Len(s) : HigherRsi(t, days)[i] = HigherRsi(s, days)[i]
<1> DEFINE old == Resample(s, days)
           new == Resample(t, days)
           c == Closes(old)
           d == Closes(new)
           r == Rsi(c, RsiPeriod)
           q == Rsi(d, RsiPeriod)
<1>1. IsHistory(old) /\ IsHistory(new) /\ Continues(new, old)
  BY ResampleIs, ResampleContinues
<1>2. HigherRsi(s, days) =
          [i \in 1 .. Len(s) |-> IF EndedBy(s, days, i) = {} THEN NoRsi ELSE r[Max(EndedBy(s, days, i))]]
  BY DEF HigherRsi, EndedBy
<1>3. HigherRsi(t, days) =
          [i \in 1 .. Len(t) |-> IF EndedBy(t, days, i) = {} THEN NoRsi ELSE q[Max(EndedBy(t, days, i))]]
  BY DEF HigherRsi, EndedBy
<1>4. \A i \in 1 .. Len(s) : EndedBy(s, days, i) \in SUBSET (1 .. Len(old))
  BY DEF EndedBy
<1> HIDE DEF old, new
<1>5. /\ old \in Seq(CandleSet) /\ new \in Seq(CandleSet) /\ Len(old) \in Nat /\ RsiPeriod \in Nat \ {0}
      /\ c \in Seq(Nat) /\ Len(c) = Len(old) /\ d \in Seq(Nat)
  BY <1>1, HistoryIs, ClosesAre, SystemOneAssumption
<1>6. Continues(d, c)
  BY <1>1, <1>5, ClosesContinue
<1> HIDE DEF c, d
<1>7. Continues(q, r) /\ Len(r) = Len(old)
  BY <1>5, <1>6, RsiStays, RsiIs
<1> HIDE DEF q, r
<1>8. \A k \in 1 .. Len(old) : q[k] = r[k]
  BY <1>7 DEF Continues
<1>9. Len(s) \in Nat /\ Len(t) \in Nat /\ Len(s) <= Len(t)
  BY HistoryIs DEF Continues
<1> SUFFICES ASSUME NEW i \in 1 .. Len(s)
             PROVE  HigherRsi(t, days)[i] = HigherRsi(s, days)[i]
  OBVIOUS
<1> DEFINE E == EndedBy(s, days, i)
<1>10. EndedBy(t, days, i) = E /\ E \in SUBSET (1 .. Len(old)) /\ i \in 1 .. Len(t)
  BY <1>4, <1>9, EndedByStays
<1>11. HigherRsi(s, days)[i] = IF E = {} THEN NoRsi ELSE r[Max(E)]
  BY <1>2
<1>12. HigherRsi(t, days)[i] = IF E = {} THEN NoRsi ELSE q[Max(E)]
  BY <1>3, <1>10
<1> HIDE DEF E
<1>13. E # {} => Max(E) \in 1 .. Len(old)
  <2>1. Len(old) \in Nat /\ E \in SUBSET (1 .. Len(old))
    BY <1>5, <1>10
  <2>2. IsFiniteSet(E) /\ E \in SUBSET Nat
    BY <2>1, Places
  <2> QED
    BY <2>1, <2>2, MaxIs
<1> QED
  BY <1>8, <1>11, <1>12, <1>13

GSetup(daily, weekly, monthly, i) ==
    /\ monthly[i] # NoRsi /\ monthly[i] > MonthlyMin
    /\ weekly[i] # NoRsi /\ weekly[i] > WeeklyMin
    /\ daily[i] # NoRsi /\ daily[i] >= DailyMin /\ daily[i] <= DailyMax

\* A signal needs a daily RSI.
LEMMA GfsSignalsAre ==
    ASSUME NEW s, IsHistory(s)
    PROVE  /\ GfsSignals(s) \in [1 .. Len(s) -> BOOLEAN]
           /\ \A i \in 1 .. Len(s) : GfsSignals(s)[i] => i >= RsiPeriod + 1
<1> DEFINE c == Closes(s)
           r == Rsi(c, RsiPeriod)
           w == HigherRsi(s, WeekDays)
           m == HigherRsi(s, MonthDays)
           n == Len(s)
<1>1. n \in Nat /\ c \in Seq(Nat) /\ Len(c) = n /\ RsiPeriod \in Nat \ {0}
  BY HistoryIs, ClosesAre, SystemOneAssumption
<1>2. \A i \in 1 .. n : i <= RsiPeriod => r[i] = NoRsi
  <2> HIDE DEF c, n
  <2> QED
    BY <1>1, RsiIs
<1>3. GfsSignals(s) = [i \in 1 .. n |-> i > 1 /\ GSetup(r, w, m, i) /\ ~GSetup(r, w, m, i - 1)]
  BY DEF GfsSignals, GSetup
<1> HIDE DEF r, w, m, c, n
<1>4. GfsSignals(s) \in [1 .. n -> BOOLEAN]
  BY <1>3
<1>5. \A i \in 1 .. n : GfsSignals(s)[i] => i >= RsiPeriod + 1
  <2> SUFFICES ASSUME NEW i \in 1 .. n, GfsSignals(s)[i]
               PROVE  i >= RsiPeriod + 1
    OBVIOUS
  <2>1. GSetup(r, w, m, i)
    BY <1>3
  <2>2. ~(i <= RsiPeriod)
    BY <1>2, <2>1 DEF GSetup
  <2> QED
    BY <1>1, <2>2
<1> QED
  BY <1>4, <1>5 DEF n

LEMMA GfsSignalsStay ==
    ASSUME NEW s, IsHistory(s), NEW t, IsHistory(t), Continues(t, s)
    PROVE  \A k \in 1 .. Len(s) : GfsSignals(t)[k] = GfsSignals(s)[k]
<1> DEFINE n == Len(s)
           c == Closes(s)
           e == Closes(t)
           r == Rsi(c, RsiPeriod)
           q == Rsi(e, RsiPeriod)
           w == HigherRsi(s, WeekDays)
           x == HigherRsi(t, WeekDays)
           m == HigherRsi(s, MonthDays)
           y == HigherRsi(t, MonthDays)
<1>1. /\ s \in Seq(CandleSet) /\ n \in Nat /\ c \in Seq(Nat) /\ Len(c) = n
      /\ t \in Seq(CandleSet) /\ e \in Seq(Nat) /\ Len(e) = Len(t) /\ Len(t) \in Nat /\ n <= Len(t)
      /\ RsiPeriod \in Nat \ {0} /\ WeekDays \in Nat \ {0} /\ MonthDays \in Nat \ {0}
  BY HistoryIs, ClosesAre, SystemOneAssumption, SeriesAssumption DEF Continues
<1>2. Continues(e, c)
  BY <1>1, ClosesContinue
<1>3. \A k \in 1 .. n : q[k] = r[k]
  <2> HIDE DEF c, e, n
  <2>1. Continues(q, r) /\ Len(r) = n
    BY <1>1, <1>2, RsiStays, RsiIs
  <2> QED
    BY <2>1 DEF Continues
<1>4. \A k \in 1 .. n : x[k] = w[k] /\ y[k] = m[k]
  BY <1>1, HigherRsiStays
<1>5. GfsSignals(s) = [i \in 1 .. n |-> i > 1 /\ GSetup(r, w, m, i) /\ ~GSetup(r, w, m, i - 1)]
  BY DEF GfsSignals, GSetup
<1>6. GfsSignals(t) = [i \in 1 .. Len(t) |-> i > 1 /\ GSetup(q, x, y, i) /\ ~GSetup(q, x, y, i - 1)]
  BY DEF GfsSignals, GSetup
<1> HIDE DEF r, q, w, x, m, y, c, e
<1>7. \A k \in 1 .. n : GSetup(q, x, y, k) <=> GSetup(r, w, m, k)
  BY <1>3, <1>4 DEF GSetup
<1> SUFFICES ASSUME NEW k \in 1 .. n
             PROVE  GfsSignals(t)[k] = GfsSignals(s)[k]
  OBVIOUS
<1>8. k \in 1 .. Len(t) /\ (k > 1 => k - 1 \in 1 .. n)
  BY <1>1
<1> QED
  BY <1>5, <1>6, <1>7, <1>8

\* The first stop of a trade entered on a candle.
GStop(s) == [e \in 1 .. Len(s) |-> InitialStop(s, e)]

LEMMA GStopIs ==
    ASSUME NEW s \in Seq(CandleSet)
    PROVE  GStop(s) \in [1 .. Len(s) -> Nat]
<1> SUFFICES ASSUME NEW e \in 1 .. Len(s)
             PROVE  InitialStop(s, e) \in Nat
  BY DEF GStop
<1>1. CASE e < StopCandles
  BY <1>1 DEF InitialStop, NoLevel
<1>2. CASE ~(e < StopCandles)
  <2> DEFINE S == e - StopCandles + 1 .. e
  <2>1. S \in SUBSET (1 .. Len(s)) /\ e \in S
    BY <1>2, SystemOneAssumption
  <2> HIDE DEF S
  <2>2. PICK i \in S : s[i].l = LowestOf(s, S)
    BY <2>1, LowestIs
  <2>3. s[i] \in CandleSet
    BY <2>1
  <2>4. s[i].l \in Nat
    BY <2>3 DEF CandleSet, Price
  <2> QED
    BY <1>2, <2>2, <2>4 DEF InitialStop, S
<1> QED
  BY <1>1, <1>2

LEMMA GStopStays ==
    ASSUME NEW s \in Seq(CandleSet), NEW t \in Seq(CandleSet), Continues(t, s)
    PROVE  \A k \in 1 .. Len(s) : GStop(t)[k] = GStop(s)[k]
<1>1. Len(s) \in Nat /\ Len(t) \in Nat /\ Len(s) <= Len(t) /\ \A i \in 1 .. Len(s) : t[i] = s[i]
  <2>1. Len(s) \in Nat /\ Len(t) \in Nat
    OBVIOUS
  <2> QED
    BY <2>1 DEF Continues
<1> SUFFICES ASSUME NEW k \in 1 .. Len(s)
             PROVE  GStop(t)[k] = GStop(s)[k]
  OBVIOUS
<1>2. k \in 1 .. Len(t) /\ k \in Nat
  BY <1>1
<1>3. GStop(s)[k] = InitialStop(s, k) /\ GStop(t)[k] = InitialStop(t, k)
  BY <1>2 DEF GStop
<1>4. CASE k < StopCandles
  BY <1>3, <1>4 DEF InitialStop
<1>5. CASE ~(k < StopCandles)
  <2> DEFINE S == k - StopCandles + 1 .. k
  <2>1. S \in SUBSET (1 .. Len(s))
    BY <1>1, <1>5, SystemOneAssumption
  <2> HIDE DEF S
  <2>2. \A i \in S : t[i] = s[i]
    BY <1>1, <2>1
  <2>3. {t[i].l : i \in S} = {s[i].l : i \in S}
    BY <2>2
  <2>4. LowestOf(t, S) = LowestOf(s, S)
    BY <2>3 DEF LowestOf
  <2> QED
    BY <1>3, <1>5, <2>4 DEF InitialStop, S
<1> QED
  BY <1>4, <1>5

\* The walk of a trade entered on candle e, and what ends it.
GTrade(s, e) == ManageTrade(s, HigherRsi(s, WeekDays), e, s[e].c, GStop(s)[e])
GEnds(s) == [e \in 1 .. Len(s) |-> GTrade(s, e)[Len(s)].ended]
GScan(s) == Scan(s, 0, GfsSignals(s), GStop(s), GEnds(s))

LEMMA GManaging ==
    ASSUME NEW s, IsHistory(s), NEW e \in 1 .. Len(s)
    PROVE  Managing(s, e, HigherRsi(s, WeekDays), s[e].c, GStop(s)[e])
<1>1. s \in Seq(CandleSet) /\ WeekDays \in Nat \ {0}
  BY HistoryIs, SeriesAssumption
<1>2. HigherRsi(s, WeekDays) \in [1 .. Len(s) -> Int]
  BY <1>1, HigherRsiIs
<1>3. GStop(s)[e] \in Nat
  BY <1>1, GStopIs
<1>4. s[e].c \in Nat
  <2>1. s[e] \in CandleSet
    BY <1>1
  <2> QED
    BY <2>1 DEF CandleSet, Price
<1> QED
  BY <1>1, <1>2, <1>3, <1>4 DEF Managing

LEMMA GTradeIs ==
    ASSUME NEW s, IsHistory(s), NEW e \in 1 .. Len(s)
    PROVE  /\ GTrade(s, e)[e] = [ended |-> NotYet, stop |-> GStop(s)[e]]
           /\ \A j \in e + 1 .. Len(s) :
                  GTrade(s, e)[j] = Managed(s, HigherRsi(s, WeekDays), s[e].c, GStop(s)[e], GTrade(s, e)[j - 1], j)
           /\ \A j \in e .. Len(s) : StagedInv(e, GStop(s)[e], j, GTrade(s, e)[j])
BY GManaging, ManageTradeIs DEF GTrade

\* The loop is given what it needs.
LEMMA GDataIs ==
    ASSUME NEW s, IsHistory(s)
    PROVE  LoopData(s, 0, GfsSignals(s), GStop(s), GEnds(s))
<1>1. s \in Seq(CandleSet) /\ Len(s) \in Nat
  BY HistoryIs
<1>2. \A e \in 1 .. Len(s) : GTrade(s, e)[Len(s)].ended \in S1Exit
  <2> TAKE e \in 1 .. Len(s)
  <2>1. Len(s) \in e .. Len(s)
    BY <1>1
  <2>2. StagedInv(e, GStop(s)[e], Len(s), GTrade(s, e)[Len(s)])
    BY <2>1, GTradeIs
  <2> QED
    BY <2>2 DEF StagedInv, GWalk
<1>3. GEnds(s) \in [1 .. Len(s) -> S1Exit]
  BY <1>2 DEF GEnds
<1> QED
  BY <1>1, <1>3, GStopIs, GfsSignalsAre DEF LoopData

\* Later candles do not change what has become of a trade.
LEMMA GTradeStays ==
    ASSUME NEW s, IsHistory(s), NEW t, IsHistory(t), OneMore(t, s), NEW e \in 1 .. Len(s)
    PROVE  \A j \in e .. Len(s) : GTrade(t, e)[j] = GTrade(s, e)[j]
<1> DEFINE w == HigherRsi(s, WeekDays)
           x == HigherRsi(t, WeekDays)
<1>1. /\ s \in Seq(CandleSet) /\ t \in Seq(CandleSet) /\ Len(s) \in Nat /\ Len(t) = Len(s) + 1 /\ Continues(t, s)
      /\ WeekDays \in Nat \ {0}
  BY HistoryIs, SeriesAssumption DEF OneMore
<1>2. e \in 1 .. Len(t) /\ t[e] = s[e]
  BY <1>1 DEF Continues
<1>3. GStop(t)[e] = GStop(s)[e]
  BY <1>1, GStopStays
<1>4. \A k \in 1 .. Len(s) : x[k] = w[k]
  BY <1>1, HigherRsiStays
<1>5. Managing(s, e, w, s[e].c, GStop(s)[e])
  BY GManaging
<1>6. Managing(t, e, x, s[e].c, GStop(s)[e])
  <2>1. Managing(t, e, x, t[e].c, GStop(t)[e])
    BY <1>2, GManaging
  <2> QED
    BY <2>1, <1>2, <1>3
<1>7. GTrade(t, e) = ManageTrade(t, x, e, s[e].c, GStop(s)[e]) /\ GTrade(s, e) = ManageTrade(s, w, e, s[e].c, GStop(s)[e])
  BY <1>2, <1>3 DEF GTrade
<1> HIDE DEF w, x
<1> QED
  BY <1>4, <1>5, <1>6, <1>7, ManageTradeStays

\* What the last candle does to a trade that was entered before it.
LEMMA GTradeMoves ==
    ASSUME NEW s, IsHistory(s), NEW t, IsHistory(t), OneMore(t, s), NEW e \in 1 .. Len(s)
    PROVE  LET m == GTrade(s, e)[Len(s)]
               r == GTrade(t, e)[Len(s) + 1]
           IN /\ m \in GWalk /\ r \in GWalk /\ r.stop >= m.stop
              /\ ExitStays(m.ended, r.ended, Len(s))
<1> DEFINE n == Len(s)
           m == GTrade(s, e)[n]
           r == GTrade(t, e)[n + 1]
<1>1. s \in Seq(CandleSet) /\ t \in Seq(CandleSet) /\ n \in Nat /\ Len(t) = n + 1
  BY HistoryIs DEF OneMore
<1>2. n \in e .. n /\ n + 1 \in e + 1 .. Len(t) /\ n + 1 \in e .. Len(t) /\ n + 1 \in 1 .. Len(t) /\ e \in 1 .. Len(t)
      /\ (n + 1) - 1 = n
  BY <1>1
<1>3. GTrade(t, e)[n] = m
  BY <1>2, GTradeStays
<1>4. StagedInv(e, GStop(s)[e], n, m)
  BY <1>2, GTradeIs
<1>5. m \in GWalk
  BY <1>4 DEF StagedInv
<1>6. r = Managed(t, HigherRsi(t, WeekDays), t[e].c, GStop(t)[e], m, n + 1)
  <2> DEFINE w == GTrade(t, e)
             last == n + 1
  <2>1. \A j \in e + 1 .. Len(t) : w[j] = Managed(t, HigherRsi(t, WeekDays), t[e].c, GStop(t)[e], w[j - 1], j)
    BY <1>2, GTradeIs
  <2>2. last \in e + 1 .. Len(t) /\ last - 1 = n
    BY <1>2
  <2>3. w[n] = m
    BY <1>3
  <2> HIDE DEF w, last, n, m
  <2>4. w[last] = Managed(t, HigherRsi(t, WeekDays), t[e].c, GStop(t)[e], w[last - 1], last)
    BY <2>1, <2>2
  <2>5. w[last] = Managed(t, HigherRsi(t, WeekDays), t[e].c, GStop(t)[e], m, last)
    BY <2>2, <2>3, <2>4
  <2> QED
    BY <2>5 DEF w, last
<1>7. t[e].c \in Nat
  BY <1>2, GManaging DEF Managing
<1> HIDE DEF m, r, n
<1>8. /\ r \in GWalk /\ r.stop >= m.stop
      /\ r.ended = m.ended \/ (m.ended.at = 0 /\ r.ended.at = n + 1)
  BY <1>1, <1>2, <1>5, <1>6, <1>7, ManagedIs
<1> QED
  BY <1>5, <1>8 DEF ExitStays, m, r, n

\* An ended trade is left alone.
LEMMA GEndedStays ==
    ASSUME NEW s, IsHistory(s), NEW e \in 1 .. Len(s), NEW j \in e .. Len(s), GTrade(s, e)[j].ended.at # 0
    PROVE  \A k \in j .. Len(s) : GTrade(s, e)[k] = GTrade(s, e)[j]
<1> DEFINE n == Len(s)
           w == GTrade(s, e)
           S == {k \in j .. n : w[k] = w[j]}
<1>1. n \in Nat /\ e \in Nat /\ j \in Nat /\ j <= n /\ e <= j
  BY HistoryIs
<1>2. \A k \in e + 1 .. n : w[k] = Managed(s, HigherRsi(s, WeekDays), s[e].c, GStop(s)[e], w[k - 1], k)
  BY GTradeIs
<1> HIDE DEF w
<1>3. j \in S
  BY <1>1
<1>4. ASSUME NEW k \in j + 1 .. n, k - 1 \in S
      PROVE  k \in S
  <2>1. k \in e + 1 .. n /\ w[k - 1] = w[j] /\ k \in j .. n
    BY <1>1, <1>4
  <2>2. w[k] = Managed(s, HigherRsi(s, WeekDays), s[e].c, GStop(s)[e], w[j], k)
    BY <1>2, <2>1
  <2>3. w[j].ended.at # 0
    BY DEF w
  <2>4. w[k] = w[j]
    BY <2>2, <2>3, Zenon DEF Managed
  <2> QED
    BY <2>1, <2>4
<1>5. j .. n \subseteq S
  <2>1. j \in Int /\ n \in Int
    BY <1>1
  <2> HIDE DEF S, n
  <2> QED
    BY <1>3, <1>4, <2>1, Upward
<1> QED
  BY <1>5 DEF w

\* With another candle only the last candle is new to the loop.
LEMMA GDataStays ==
    ASSUME NEW s, IsHistory(s), NEW t, IsHistory(t), OneMore(t, s), s # << >>
    PROVE  TradesContinue(GScan(s).trades, GScan(t).trades, Len(s))
<1> DEFINE n == Len(s)
<1>1. s \in Seq(CandleSet) /\ t \in Seq(CandleSet) /\ n \in Nat /\ Len(t) = n + 1 /\ Continues(t, s)
  BY HistoryIs DEF OneMore
<1>2. LoopData(s, 0, GfsSignals(s), GStop(s), GEnds(s)) /\ LoopData(t, 0, GfsSignals(t), GStop(t), GEnds(t))
  BY GDataIs
<1>3. \A k \in 1 .. n : GfsSignals(t)[k] = GfsSignals(s)[k]
  BY <1>1, GfsSignalsStay
<1>4. \A k \in 1 .. n : GStop(t)[k] = GStop(s)[k]
  BY <1>1, GStopStays
<1>5. \A k \in 1 .. n : ExitStays(GEnds(s)[k], GEnds(t)[k], n)
  <2> TAKE k \in 1 .. n
  <2>1. k \in 1 .. Len(t)
    BY <1>1
  <2>2. GEnds(s)[k] = GTrade(s, k)[n].ended /\ GEnds(t)[k] = GTrade(t, k)[n + 1].ended
    BY <1>1, <2>1 DEF GEnds
  <2>3. ExitStays(GTrade(s, k)[n].ended, GTrade(t, k)[n + 1].ended, n)
    BY GTradeMoves
  <2> QED
    BY <2>2, <2>3
<1>6. GEnds(t)[n + 1].at = 0
  <2>1. n + 1 \in 1 .. Len(t)
    BY <1>1
  <2>2. GEnds(t)[n + 1] = GTrade(t, n + 1)[n + 1].ended
    BY <1>1, <2>1 DEF GEnds
  <2>3. GTrade(t, n + 1)[n + 1] = [ended |-> NotYet, stop |-> GStop(t)[n + 1]]
    BY <2>1, GTradeIs
  <2> QED
    BY <2>2, <2>3 DEF NotYet
<1> HIDE DEF GEnds, GStop
<1> QED
  BY <1>2, <1>3, <1>4, <1>5, <1>6, ScanContinues DEF n, GScan

\* A history that is too short has no trade to show.
LEMMA GRunIs ==
    ASSUME NEW s, IsHistory(s)
    PROVE  GfsRun(s, 0, LastDay(s)).trades = GScan(s).trades
<1> DEFINE x == GScan(s).trades
<1>1. s \in Seq(CandleSet) /\ Len(s) \in Nat /\ RsiPeriod \in Nat \ {0}
  BY HistoryIs, SystemOneAssumption
<1>2. GfsRun(s, 0, LastDay(s)) = IF Len(s) < RsiPeriod + 2 THEN Unscanned ELSE GScan(s)
  BY BeforeAll DEF GfsRun, GScan, GEnds, GTrade, GStop
<1>3. LoopData(s, 0, GfsSignals(s), GStop(s), GEnds(s)) /\ \A i \in 1 .. Len(s) : GfsSignals(s)[i] => i >= RsiPeriod + 1
  BY GDataIs, GfsSignalsAre
<1>4. GScan(s) \in S1State /\ LoopInv(s, GfsSignals(s), GStop(s), GEnds(s), GScan(s))
  BY <1>3, ScanIs DEF GScan
<1>5. x \in Seq(S1Trade)
  BY <1>4 DEF S1State
<1>6. ASSUME NEW k \in 1 .. Len(x)
      PROVE  Len(s) >= RsiPeriod + 2
  <2>1. FromSignal(s, GfsSignals(s), GStop(s), GEnds(s), x[k])
    BY <1>4 DEF LoopInv
  <2>2. PICK i \in 1 .. Len(s) - 1 : GfsSignals(s)[i]
    BY <2>1 DEF FromSignal
  <2>3. i \in 1 .. Len(s) /\ i \in Nat /\ i < Len(s)
    BY <1>1
  <2>4. i >= RsiPeriod + 1
    BY <1>3, <2>2, <2>3
  <2> QED
    BY <1>1, <2>3, <2>4
<1> HIDE DEF x
<1>7. CASE Len(s) < RsiPeriod + 2
  <2>1. ~(Len(s) >= RsiPeriod + 2)
    BY <1>1, <1>7
  <2>2. Len(x) \in Nat /\ ~(1 \in 1 .. Len(x))
    BY <1>5, <1>6, <2>1
  <2>3. x = << >>
    BY <1>5, <2>2
  <2>4. GfsRun(s, 0, LastDay(s)).trades = << >>
    BY <1>2, <1>7 DEF Unscanned
  <2> QED
    BY <2>3, <2>4 DEF x
<1>8. CASE ~(Len(s) < RsiPeriod + 2)
  BY <1>2, <1>8
<1> QED
  BY <1>7, <1>8

\* A GFS trade and the stop it has come to.
GStops(s) == [k \in 1 .. Len(GScan(s).trades) |-> GfsStopNow(s, GScan(s).trades[k])]
GRows(s) == RowsWith(GScan(s).trades, GStops(s))

LEMMA GTradeOf ==
    ASSUME NEW s, IsHistory(s), NEW t, FromSignal(s, GfsSignals(s), GStop(s), GEnds(s), t)
    PROVE  LET e == t.entryAt
               last == IF IsOpen(t) THEN Len(s) ELSE t.exitAt
               d == t.entry - t.stop
           IN /\ t \in S1Trade /\ e \in 1 .. Len(s) /\ last \in e .. Len(s)
              /\ t.stop = GStop(s)[e] /\ t.stop \in Nat
              /\ t.exitAt = GEnds(s)[e].at /\ t.exit = GEnds(s)[e].price /\ t.reason = GEnds(s)[e].reason
              /\ GfsStopNow(s, t) = GTrade(s, e)[last].stop /\ GfsStopNow(s, t) \in Nat
              /\ t.reason \in AtRisk => t.exit >= t.stop
              /\ d \in Nat \ {0} /\ t.qty \in Nat /\ t.qty = RiskPerTrade \div d
<1>1. s \in Seq(CandleSet) /\ Len(s) \in Nat
  BY HistoryIs
<1>2. LoopData(s, 0, GfsSignals(s), GStop(s), GEnds(s))
  BY GDataIs
<1>3. PICK i \in 1 .. Len(s) - 1 : Refused(s, GStop(s), i) = "no" /\ t = Taken(s, GStop(s), GEnds(s), i)
  BY DEF FromSignal
<1> DEFINE e == i + 1
           last == IF IsOpen(t) THEN Len(s) ELSE t.exitAt
           d == s[e].c - GStop(s)[e]
<1>4. /\ t \in S1Trade
      /\ t.entryAt = e /\ t.entry = s[e].c /\ t.stop = GStop(s)[e]
      /\ t.exitAt = GEnds(s)[e].at /\ t.exit = GEnds(s)[e].price /\ t.reason = GEnds(s)[e].reason
      /\ d \in Nat \ {0} /\ t.qty \in Nat \ {0} /\ t.qty = RiskPerTrade \div d
  <2>1. GStop(s) \in [1 .. Len(s) -> Nat] /\ GEnds(s) \in [1 .. Len(s) -> S1Exit]
    BY <1>2 DEF LoopData
  <2> HIDE DEF GStop, GEnds
  <2> QED
    BY <1>1, <1>3, <2>1, TakenIs
<1>5. e \in 1 .. Len(s) /\ Len(s) \in e .. Len(s)
  BY <1>1
<1>6. GEnds(s)[e] = GTrade(s, e)[Len(s)].ended
  BY <1>5 DEF GEnds
<1>7. StagedInv(e, GStop(s)[e], Len(s), GTrade(s, e)[Len(s)])
  BY <1>5, GTradeIs
<1> HIDE DEF e
<1>8. t.exitAt = 0 \/ t.exitAt \in e + 1 .. Len(s)
  BY <1>4, <1>6, <1>7 DEF StagedInv
<1>9. last \in e .. Len(s)
  BY <1>1, <1>5, <1>8 DEF IsOpen
<1>10. GfsStopNow(s, t) = GTrade(s, e)[last].stop
  BY <1>4 DEF GfsStopNow, GTrade
<1>11. GTrade(s, e)[last].stop \in Nat
  <2>1. StagedInv(e, GStop(s)[e], last, GTrade(s, e)[last])
    BY <1>5, <1>9, GTradeIs
  <2> QED
    BY <2>1 DEF StagedInv, GWalk
<1>12. t.reason \in AtRisk => t.exit >= t.stop
  BY <1>4, <1>6, <1>7 DEF StagedInv
<1>13. t.stop \in Nat
  BY <1>4 DEF S1Trade
<1> HIDE DEF last
<1> QED
  BY <1>4, <1>5, <1>9, <1>10, <1>11, <1>12, <1>13 DEF last

LEMMA GScanIs ==
    ASSUME NEW s, IsHistory(s)
    PROVE  /\ GScan(s) \in S1State /\ GScan(s).trades \in Seq(S1Trade)
           /\ \A k \in 1 .. Len(GScan(s).trades) : FromSignal(s, GfsSignals(s), GStop(s), GEnds(s), GScan(s).trades[k])
           /\ GStops(s) \in [1 .. Len(GScan(s).trades) -> Nat]
           /\ GRows(s) \in Seq(BookRow) /\ OnlyLastOpen(GRows(s))
<1> DEFINE x == GScan(s).trades
<1>1. LoopData(s, 0, GfsSignals(s), GStop(s), GEnds(s))
  BY GDataIs
<1>2. GScan(s) \in S1State /\ LoopInv(s, GfsSignals(s), GStop(s), GEnds(s), GScan(s))
  BY <1>1, ScanIs DEF GScan
<1>3. x \in Seq(S1Trade)
  BY <1>2 DEF S1State
<1>4. \A k \in 1 .. Len(x) : FromSignal(s, GfsSignals(s), GStop(s), GEnds(s), x[k])
  BY <1>2 DEF LoopInv
<1>5. GStops(s) \in [1 .. Len(x) -> Nat]
  <2>1. \A k \in 1 .. Len(x) : GfsStopNow(s, x[k]) \in Nat
    BY <1>4, GTradeOf
  <2> QED
    BY <2>1 DEF GStops
<1>6. GRows(s) \in Seq(BookRow)
  BY <1>3, <1>5, LongRowsAre DEF GRows
<1>7. OnlyLastOpen(GRows(s))
  BY <1>2, <1>5, LongRowsOpen DEF GRows
<1> QED
  BY <1>2, <1>3, <1>4, <1>5, <1>6, <1>7

\* A stop is raised while its trade is open, and then stays.
LEMMA GStopMoves ==
    ASSUME NEW s, IsHistory(s), NEW t, IsHistory(t), OneMore(t, s),
           NEW a, FromSignal(s, GfsSignals(s), GStop(s), GEnds(s), a),
           NEW b, FromSignal(t, GfsSignals(t), GStop(t), GEnds(t), b),
           StaysOrEnds(a, b, Len(s))
    PROVE  GfsStopNow(t, b) >= GfsStopNow(s, a) /\ (~IsOpen(a) => GfsStopNow(t, b) = GfsStopNow(s, a))
<1> DEFINE n == Len(s)
           e == a.entryAt
<1>1. n \in Nat /\ Len(t) = n + 1
  BY HistoryIs DEF OneMore
<1>2. /\ a \in S1Trade /\ e \in 1 .. n /\ (IF IsOpen(a) THEN n ELSE a.exitAt) \in e .. n
      /\ GfsStopNow(s, a) = GTrade(s, e)[IF IsOpen(a) THEN n ELSE a.exitAt].stop /\ GfsStopNow(s, a) \in Nat
  BY GTradeOf
<1>3. GfsStopNow(t, b) = GTrade(t, b.entryAt)[IF IsOpen(b) THEN Len(t) ELSE b.exitAt].stop
  BY GTradeOf
<1>4. b.entryAt = e
  BY DEF StaysOrEnds, SameEntry
<1> HIDE DEF e, n
<1>5. CASE IsOpen(a)
  <2>1. (IF IsOpen(b) THEN Len(t) ELSE b.exitAt) = n + 1
    BY <1>1, <1>5 DEF StaysOrEnds, IsOpen, n
  <2>2. GfsStopNow(t, b) = GTrade(t, e)[n + 1].stop
    BY <1>3, <1>4, <2>1
  <2>3. GTrade(t, e)[n + 1].stop >= GTrade(s, e)[n].stop
    BY <1>2, GTradeMoves DEF n
  <2> QED
    BY <1>2, <1>5, <2>2, <2>3
<1>6. CASE ~IsOpen(a)
  <2>1. b = a
    BY <1>6 DEF StaysOrEnds
  <2>2. a.exitAt \in e .. n
    BY <1>2, <1>6
  <2>3. GTrade(t, e)[a.exitAt] = GTrade(s, e)[a.exitAt]
    BY <1>2, <2>2, GTradeStays DEF n
  <2> QED
    BY <1>2, <1>3, <1>4, <1>6, <2>1, <2>3
<1> QED
  BY <1>5, <1>6

LEMMA GRowsContinue ==
    ASSUME NEW s, IsHistory(s), NEW t, IsHistory(t), OneMore(t, s), s # << >>
    PROVE  RowsContinue(GRows(s), GRows(t), Len(s))
<1> DEFINE x == GScan(s).trades
           y == GScan(t).trades
           u == GStops(s)
           v == GStops(t)
<1>1. Len(s) \in Nat /\ Len(t) = Len(s) + 1
  BY HistoryIs DEF OneMore
<1>2. /\ x \in Seq(S1Trade) /\ u \in [1 .. Len(x) -> Nat]
      /\ \A k \in 1 .. Len(x) : FromSignal(s, GfsSignals(s), GStop(s), GEnds(s), x[k])
  BY GScanIs
<1>3. /\ y \in Seq(S1Trade) /\ v \in [1 .. Len(y) -> Nat]
      /\ \A k \in 1 .. Len(y) : FromSignal(t, GfsSignals(t), GStop(t), GEnds(t), y[k])
  BY GScanIs
<1>4. TradesContinue(x, y, Len(s))
  BY GDataStays
<1>5. u = [k \in 1 .. Len(x) |-> GfsStopNow(s, x[k])] /\ v = [k \in 1 .. Len(y) |-> GfsStopNow(t, y[k])]
  BY DEF GStops
<1>6. GRows(s) = RowsWith(x, u) /\ GRows(t) = RowsWith(y, v)
  BY DEF GRows
<1> HIDE DEF x, y, u, v
<1>7. ASSUME NEW k \in 1 .. Len(x)
      PROVE  v[k] >= u[k] /\ (~IsOpen(x[k]) => v[k] = u[k])
  <2>1. k \in 1 .. Len(y) /\ StaysOrEnds(x[k], y[k], Len(s))
    <3>1. CASE Len(y) = Len(x) /\ \A j \in 1 .. Len(x) : StaysOrEnds(x[j], y[j], Len(s))
      BY <3>1
    <3>2. ASSUME NEW a \in S1Trade, y = Append(x, a)
          PROVE  k \in 1 .. Len(y) /\ y[k] = x[k]
      BY <1>2, <3>2
    <3> QED
      BY <1>4, <3>1, <3>2 DEF TradesContinue, StaysOrEnds
  <2>2. GfsStopNow(t, y[k]) >= GfsStopNow(s, x[k]) /\ (~IsOpen(x[k]) => GfsStopNow(t, y[k]) = GfsStopNow(s, x[k]))
    BY <1>2, <1>3, <2>1, GStopMoves
  <2>3. u[k] = GfsStopNow(s, x[k]) /\ v[k] = GfsStopNow(t, y[k])
    BY <1>5, <2>1
  <2> QED
    BY <2>2, <2>3
<1> QED
  BY <1>1, <1>2, <1>3, <1>4, <1>6, <1>7, LongRowsContinue

\* The report of a GFS history.
LEMMA GReportIs ==
    ASSUME NEW s, IsHistory(s), s # << >>
    PROVE  LET r == GfsReport(s, 0, LastDay(s))
           IN /\ r.outcome = "done" /\ r.trades = GScan(s).trades
              /\ [k \in 1 .. Len(r.trades) |-> Row(r.trades[k], r.stops[k])] = GRows(s)
<1> DEFINE r == GfsReport(s, 0, LastDay(s))
           x == GScan(s).trades
<1>1. r = GfsAnswer(s, GfsRun(s, 0, LastDay(s)))
  BY AnsweredIs, BeforeAll DEF GfsReport
<1>2. r.outcome = "done" /\ r.trades = x /\ r.stops = [k \in DOMAIN x |-> GfsStopNow(s, x[k])]
  BY <1>1, GRunIs DEF GfsAnswer
<1>3. x \in Seq(S1Trade)
  BY GScanIs
<1>4. r.stops = GStops(s)
  BY <1>2, <1>3 DEF GStops
<1> QED
  BY <1>2, <1>4 DEF GRows, RowsWith

\* Every candle is a step of the book.
LEMMA GfsKeepsBook ==
    ASSUME part = "gfs", part' = part, IsHistory(bars), IsHistory(bars'), OneMore(bars', bars), bars # << >>,
           report = Report(part, bars, minutes), report' = Report(part, bars', minutes')
    PROVE  Book!Next /\ bars' # << >>
<1>1. /\ Len(bars) \in Nat /\ Len(bars') = Len(bars) + 1 /\ bars \in Seq(CandleSet) /\ bars' \in Seq(CandleSet)
  BY HistoryIs DEF OneMore
<1>2. bars' # << >>
  BY <1>1
<1>3. report = GfsReport(bars, 0, LastDay(bars)) /\ report' = GfsReport(bars', 0, LastDay(bars'))
  BY DEF Report
<1>4. Rows = GRows(bars)
  <2>1. Rows = [k \in 1 .. Len(report.trades) |-> Row(report.trades[k], report.stops[k])]
    BY DEF Rows, Stop
  <2> QED
    BY <1>3, <2>1, GReportIs
<1>5. Rows' = GRows(bars')
  <2>1. Rows' = [k \in 1 .. Len(report'.trades) |-> Row(report'.trades[k], report'.stops[k])]
    BY DEF Rows, Stop
  <2> QED
    BY <1>2, <1>3, <2>1, GReportIs
<1>6. GRows(bars) \in Seq(BookRow) /\ OnlyLastOpen(GRows(bars))
  BY GScanIs
<1>7. GRows(bars') \in Seq(BookRow) /\ OnlyLastOpen(GRows(bars'))
  BY GScanIs
<1>8. RowsContinue(GRows(bars), GRows(bars'), Len(bars))
  BY GRowsContinue
<1>9. Book!Next
  BY <1>1, <1>4, <1>5, <1>6, <1>7, <1>8, LongsKeepBook
<1> QED
  BY <1>2, <1>9

\* A stop or a weekly exit loses no more than the risk.
LEMMA StagedTradeKeepsRisk ==
    ASSUME NEW s, IsHistory(s), NEW t, FromSignal(s, GfsSignals(s), GStop(s), GEnds(s), t), t.reason \in AtRisk
    PROVE  Pnl(t) >= -RiskPerTrade
<1> DEFINE d == t.entry - t.stop
           q == t.qty
           lost == t.entry - t.exit
<1>1. t \in S1Trade /\ d \in Nat \ {0} /\ q \in Nat /\ q = RiskPerTrade \div d /\ t.exit >= t.stop /\ t.stop \in Nat
  BY GTradeOf
<1>2. t.entry \in Nat /\ t.exit \in Nat
  BY <1>1 DEF S1Trade
<1>3. lost \in Int /\ lost <= d /\ t.exit - t.entry = -lost
  BY <1>1, <1>2
<1>4. Pnl(t) = (-lost) * q
  BY <1>3 DEF Pnl
<1> HIDE DEF d, lost, q
<1>5. (-lost) * q = -(lost * q)
  BY <1>1, <1>3
<1>6. lost * q <= d * q
  <2>1. d - lost \in Nat
    BY <1>1, <1>3
  <2>2. (d - lost) * q \in Nat
    BY <1>1, <2>1, Product
  <2>3. (d - lost) * q = d * q - lost * q
    BY <1>1, <1>3
  <2> QED
    BY <1>1, <1>3, <2>2, <2>3
<1>7. d * q <= RiskPerTrade /\ RiskPerTrade \in Nat
  BY <1>1, SystemOneAssumption
<1> QED
  BY <1>1, <1>3, <1>4, <1>5, <1>6, <1>7

-----------------------------------------------------------------------------
(* The histories start before the first trade.                             *)

StartedInv ==
    /\ BacktestsInv
    /\ part \in {"system_one", "gfs"} => bars # << >>
    /\ part = "system_one" => LongEnough(bars)

\* A report without a candle is none.
LEMMA UntradedStarts ==
    ASSUME NEW s, NEW p \in {"system_one", "gfs"}, Untraded(p, s)
    PROVE  s # << >> /\ (p = "system_one" => LongEnough(s))
<1>1. Report(p, s, << >>).outcome = "done"
  BY DEF Untraded
<1>2. p = "system_one" => LongEnough(s)
  BY DEF Untraded, LongEnough
<1>3. ASSUME s = << >>
      PROVE  FALSE
  <2>1. LastDay(s) = 0 /\ ~(0 > LastDay(s))
    BY <1>3 DEF LastDay
  <2>2. \A answer : Answered(s, 0, LastDay(s), answer).outcome = "insufficient data"
    BY <1>3, <2>1 DEF Answered
  <2>3. CASE p = "gfs"
    BY <1>1, <2>2, <2>3 DEF Report, GfsReport
  <2>4. CASE p = "system_one"
    BY <1>1, <2>2, <2>4 DEF Report, SystemOneReport
  <2> QED
    BY <2>3, <2>4
<1> QED
  BY <1>2, <1>3

LEMMA StartedInvariant == BacktestsSpec => []StartedInv
<1>1. BacktestsInit => StartedInv
  <2> SUFFICES ASSUME BacktestsInit
               PROVE  StartedInv
    OBVIOUS
  <2>1. BacktestsInv
    BY SeriesAssumption, EmptyHistory DEF BacktestsInit, Init, BreakoutInit, BacktestsInv
  <2>2. part \in {"system_one", "gfs"} => Untraded(part, bars)
    BY BacktestsAssumption DEF BacktestsInit, Init
  <2> QED
    BY <2>1, <2>2, UntradedStarts DEF StartedInv
<1>2. BacktestsInv /\ StartedInv /\ [BacktestsNext]_vars => StartedInv'
  <2> SUFFICES ASSUME StartedInv, [BacktestsNext]_vars, BacktestsInv, BacktestsInv'
               PROVE  StartedInv'
    <3>1. BacktestsInv /\ [BacktestsNext]_vars => BacktestsInv'
      <4>1. CASE CandleComes
        BY <4>1, NextCandleIs DEF CandleComes, BacktestsInv
      <4>2. CASE MinuteComes
        BY <4>2, NextMinuteIs DEF MinuteComes, BacktestsInv
      <4>3. CASE UNCHANGED vars
        BY <4>3 DEF vars, BacktestsInv
      <4> QED
        BY <4>1, <4>2, <4>3 DEF BacktestsNext
    <3> QED
      BY <3>1
  <2>1. CASE bars' = bars /\ part' = part
    BY <2>1 DEF StartedInv, LongEnough
  <2>2. CASE CandleComes
    <3>1. part' = part /\ OneMore(bars', bars) /\ IsHistory(bars) /\ IsHistory(bars')
      BY <2>2, NextCandleIs DEF CandleComes, BacktestsInv, OneMore
    <3>2. Len(bars) \in Nat /\ Len(bars') = Len(bars) + 1 /\ MaPeriod \in Nat
      BY <3>1, HistoryIs, SystemOneAssumption DEF OneMore
    <3>3. bars' # << >>
      BY <3>2
    <3>4. LongEnough(bars) => LongEnough(bars')
      BY <3>2 DEF LongEnough
    <3> QED
      BY <3>1, <3>3, <3>4 DEF StartedInv
  <2> QED
    BY <2>1, <2>2 DEF BacktestsNext, MinuteComes, NextMinute, vars
<1>3. BacktestsSpec => []BacktestsInv
  BY BacktestsHistory
<1> QED
  BY <1>1, <1>2, <1>3, PTL DEF BacktestsSpec

\* In every GFS backtest, on any history, a trade that a stop or the weekly RSI
\* ends loses no more than it was sized to lose.
THEOREM StagedStopHolds == BacktestsSpec => []StagedStopKeepsRisk
<1>1. StartedInv => StagedStopKeepsRisk
  <2> SUFFICES ASSUME StartedInv, part = "gfs", NEW k \in 1 .. Len(report.trades),
                      report.trades[k].reason \in {"STOP_HIT", "WEEKLY_RSI_EXIT"}
               PROVE  Pnl(report.trades[k]) >= -RiskPerTrade
    BY DEF StagedStopKeepsRisk
  <2>1. IsHistory(bars) /\ bars # << >> /\ report = GfsReport(bars, 0, LastDay(bars))
    BY DEF StartedInv, BacktestsInv, Report
  <2>2. report.trades = GScan(bars).trades
    BY <2>1, GReportIs
  <2>3. FromSignal(bars, GfsSignals(bars), GStop(bars), GEnds(bars), report.trades[k])
    BY <2>1, <2>2, GScanIs
  <2> QED
    BY <2>1, <2>3, StagedTradeKeepsRisk DEF AtRisk
<1> QED
  BY <1>1, StartedInvariant, PTL

-----------------------------------------------------------------------------
(* Breakout: the candles between the base candle and the exit.             *)

\* Picking goes on with the last place, if that is picked.
LEMMA PickContinues ==
    ASSUME NEW D, NEW s \in Seq(D), NEW t \in Seq(D), OneMore(t, s),
           NEW S \in SUBSET (1 .. Len(s)), NEW T \in SUBSET (1 .. Len(t)),
           \A i \in 1 .. Len(s) : i \in T <=> i \in S
    PROVE  IF Len(t) \in T THEN Pick(t, T) = Append(Pick(s, S), t[Len(t)]) ELSE Pick(t, T) = Pick(s, S)
<1> DEFINE n == Len(s)
           p == Pick(s, S)
           q == Pick(t, T)
           a == Cardinality(S)
           b == Cardinality(T)
<1>1. n \in Nat /\ Len(t) = n + 1 /\ \A i \in 1 .. n : t[i] = s[i]
  BY DEF OneMore, Continues
<1>2. /\ a \in Nat /\ p \in Seq(D) /\ Len(p) = a
      /\ \A k \in 1 .. a : Nth(S, k) \in S /\ p[k] = s[Nth(S, k)]
  BY PickIs
<1>3. /\ b \in Nat /\ q \in Seq(D) /\ Len(q) = b
      /\ \A k \in 1 .. b : Nth(T, k) \in T /\ q[k] = t[Nth(T, k)]
  BY PickIs
<1>4. IsFiniteSet(S) /\ S \in SUBSET Nat /\ IsFiniteSet(T) /\ T \in SUBSET Nat
  BY <1>1, Places, Len(t) \in Nat
<1>5. S \subseteq T /\ (\A y \in T : y \in S \/ y = n + 1) /\ n + 1 \notin S
  <2>1. \A i \in T : i \in 1 .. n \/ i = n + 1
    BY <1>1
  <2>2. n + 1 \notin 1 .. n
    BY <1>1
  <2> QED
    BY <2>1, <2>2
<1>6. \A x \in S, y \in T \ S : x < y
  BY <1>1, <1>5
<1>7. \A k \in 1 .. a : Nth(T, k) = Nth(S, k) /\ a <= b
  BY <1>4, <1>5, <1>6, NthOfPart
<1>8. CASE n + 1 \notin T
  <2>1. T = S
    BY <1>5, <1>8, Zenon
  <2>2. q \in Seq(D) /\ Len(q) = Len(p) /\ \A k \in 1 .. Len(p) : q[k] = p[k]
    <3>1. \A k \in 1 .. a : Nth(S, k) \in 1 .. n
      BY <1>2
    <3> HIDE DEF a, b, p, q, n
    <3>2. a = b
      BY <2>1 DEF a, b
    <3> QED
      BY <1>1, <1>2, <1>3, <1>7, <3>1, <3>2
  <2>3. q = p
    <3> HIDE DEF p, q
    <3> QED
      BY <1>2, <2>2, SameSequence
  <2> QED
    BY <1>1, <1>8, <2>3
<1>9. CASE n + 1 \in T
  <2>1. T = S \cup {n + 1} /\ n + 1 \notin S
    BY <1>5, <1>9, Zenon
  <2>2. b = a + 1
    BY <1>4, <2>1, FS_AddElement
  <2>3. Nth(T, b) = n + 1
    <3>1. Below(T, n + 1) = T
      BY <1>1, <1>4, <2>1 DEF Below
    <3> QED
      BY <1>4, <1>9, <3>1, NthIs
  <2>4. \A k \in 1 .. a : q[k] = p[k]
    <3>1. \A k \in 1 .. a : Nth(S, k) \in 1 .. n /\ k \in 1 .. b
      <4>1. \A k \in 1 .. a : Nth(S, k) \in 1 .. n
        BY <1>2
      <4>2. \A k \in 1 .. a : k \in 1 .. b
        <5> HIDE DEF a, b
        <5> QED
          BY <1>2, <2>2
      <4> QED
        BY <4>1, <4>2
    <3> HIDE DEF a, b, p, q, n
    <3> TAKE k \in 1 .. a
    <3>2. p[k] = s[Nth(S, k)] /\ q[k] = t[Nth(T, k)] /\ Nth(T, k) = Nth(S, k) /\ Nth(S, k) \in 1 .. n
      BY <1>2, <1>3, <1>7, <3>1
    <3> QED
      BY <1>1, <3>2
  <2>5. q[Len(q)] = t[n + 1]
    BY <1>2, <1>3, <2>2, <2>3
  <2>6. Len(q) = Len(p) + 1
    BY <1>2, <1>3, <2>2
  <2> HIDE DEF p, q
  <2>7. q = Append(p, q[Len(q)])
    BY <1>2, <1>3, <2>4, <2>6, AppendedIs
  <2> QED
    BY <1>1, <1>9, <2>5, <2>7 DEF p, q
<1> QED
  BY <1>1, <1>8, <1>9

BaseAt(s) == {i \in 1 .. Len(s) : s[i].day = BaseSlot}
Base(s) == s[Min(BaseAt(s))]
AfterAt(s) == {i \in 1 .. Len(s) : BaseSlot < s[i].day /\ s[i].day <= ExitSlot}
Outs(s) == {i \in 1 .. Len(After(s)) : Breaks(After(s)[i], Base(s).h, Base(s).l)}
Missing(s) == ExitSlot - BaseSlot - Len(After(s))

\* There is one base candle at most.
LEMMA BaseIs ==
    ASSUME NEW s, IsHistory(s), NEW i \in BaseAt(s)
    PROVE  Base(s) = s[i] /\ Base(s) \in CandleSet
<1>1. \A j \in BaseAt(s) : j = i
  <2> TAKE j \in BaseAt(s)
  <2>1. i \in 1 .. Len(s) /\ j \in 1 .. Len(s) /\ s[i].day = BaseSlot /\ s[j].day = BaseSlot /\ BaseSlot \in Nat
    BY BreakoutAssumption DEF BaseAt
  <2>2. ~(i < j) /\ ~(j < i)
    BY <2>1, HistoryIs
  <2> QED
    BY <2>1, <2>2
<1>2. BaseAt(s) \in SUBSET Nat /\ BaseAt(s) # {} /\ i \in 1 .. Len(s) /\ s[i] \in CandleSet
  BY HistoryIs DEF BaseAt
<1>3. Min(BaseAt(s)) \in BaseAt(s)
  BY <1>2, MinIs
<1> QED
  BY <1>1, <1>2, <1>3 DEF Base

LEMMA BaseStays ==
    ASSUME NEW s, IsHistory(s), NEW t, IsHistory(t), OneMore(t, s)
    PROVE  /\ BaseAt(s) # {} => BaseAt(t) # {} /\ Base(t) = Base(s) /\ Base(s) \in CandleSet
           /\ BaseAt(s) = {} => BaseAt(t) = {} \/ t[Len(t)].day = BaseSlot
<1>1. Len(s) \in Nat /\ Len(t) = Len(s) + 1 /\ \A i \in 1 .. Len(s) : t[i] = s[i]
  BY HistoryIs DEF OneMore, Continues
<1>2. ASSUME NEW i \in BaseAt(s)
      PROVE  BaseAt(t) # {} /\ Base(t) = Base(s) /\ Base(s) \in CandleSet
  <2>1. i \in 1 .. Len(s) /\ i \in BaseAt(t) /\ t[i] = s[i]
    BY <1>1 DEF BaseAt
  <2> QED
    BY <2>1, BaseIs
<1>3. ASSUME BaseAt(s) = {}, NEW i \in BaseAt(t)
      PROVE  t[Len(t)].day = BaseSlot
  <2>1. i \in 1 .. Len(t) /\ t[i].day = BaseSlot
    BY DEF BaseAt
  <2>2. i \notin 1 .. Len(s)
    BY <1>1, <1>3, <2>1 DEF BaseAt
  <2>3. i = Len(t)
    BY <1>1, <2>1, <2>2
  <2> QED
    BY <2>1, <2>3
<1> QED
  BY <1>2, <1>3

LEMMA AfterIs ==
    ASSUME NEW s, IsHistory(s)
    PROVE  /\ After(s) \in Seq(CandleSet) /\ Len(After(s)) \in Nat
           /\ Len(After(s)) = Cardinality(AfterAt(s))
           /\ \A k \in 1 .. Len(After(s)) : \E i \in AfterAt(s) : After(s)[k] = s[i]
<1>1. s \in Seq(CandleSet) /\ AfterAt(s) \in SUBSET (1 .. Len(s)) /\ After(s) = Pick(s, AfterAt(s))
  BY HistoryIs DEF AfterAt, After
<1>2. /\ Pick(s, AfterAt(s)) \in Seq(CandleSet) /\ Len(Pick(s, AfterAt(s))) = Cardinality(AfterAt(s))
      /\ Cardinality(AfterAt(s)) \in Nat
      /\ \A k \in 1 .. Cardinality(AfterAt(s)) :
             Nth(AfterAt(s), k) \in AfterAt(s) /\ Pick(s, AfterAt(s))[k] = s[Nth(AfterAt(s), k)]
  BY <1>1, PickIs
<1> QED
  BY <1>1, <1>2

LEMMA AfterStays ==
    ASSUME NEW s, IsHistory(s), NEW t, IsHistory(t), OneMore(t, s)
    PROVE  LET b == t[Len(t)]
           IN IF BaseSlot < b.day /\ b.day <= ExitSlot THEN After(t) = Append(After(s), b) ELSE After(t) = After(s)
<1>1. /\ s \in Seq(CandleSet) /\ t \in Seq(CandleSet) /\ Len(s) \in Nat /\ Len(t) = Len(s) + 1 /\ Len(t) \in 1 .. Len(t)
      /\ \A i \in 1 .. Len(s) : t[i] = s[i] /\ i \in 1 .. Len(t)
  <2>1. Len(s) \in Nat /\ Len(t) = Len(s) + 1
    BY HistoryIs DEF OneMore
  <2>2. \A i \in 1 .. Len(s) : t[i] = s[i]
    BY DEF OneMore, Continues
  <2> QED
    BY <2>1, <2>2, HistoryIs
<1>2. AfterAt(s) \in SUBSET (1 .. Len(s)) /\ AfterAt(t) \in SUBSET (1 .. Len(t))
  BY DEF AfterAt
<1>3. \A i \in 1 .. Len(s) : i \in AfterAt(t) <=> i \in AfterAt(s)
  BY <1>1 DEF AfterAt
<1>4. Len(t) \in AfterAt(t) <=> BaseSlot < t[Len(t)].day /\ t[Len(t)].day <= ExitSlot
  BY <1>1 DEF AfterAt
<1>5. After(s) = Pick(s, AfterAt(s)) /\ After(t) = Pick(t, AfterAt(t))
  BY DEF After, AfterAt
<1> HIDE DEF AfterAt
<1>6. IF Len(t) \in AfterAt(t) THEN Pick(t, AfterAt(t)) = Append(Pick(s, AfterAt(s)), t[Len(t)])
                              ELSE Pick(t, AfterAt(t)) = Pick(s, AfterAt(s))
  <2> DEFINE S == AfterAt(s)
             T == AfterAt(t)
  <2>1. S \in SUBSET (1 .. Len(s)) /\ T \in SUBSET (1 .. Len(t)) /\ \A i \in 1 .. Len(s) : i \in T <=> i \in S
    BY <1>2, <1>3
  <2> HIDE DEF S, T
  <2>2. IF Len(t) \in T THEN Pick(t, T) = Append(Pick(s, S), t[Len(t)]) ELSE Pick(t, T) = Pick(s, S)
    BY <1>1, <2>1, PickContinues
  <2> QED
    BY <2>2 DEF S, T
<1> QED
  BY <1>4, <1>5, <1>6

\* The day once candle k of those has broken out.
Unclear(eb, first) == BreaksBoth(eb, first.h, first.l) /\ first.l <= eb.o /\ eb.o <= first.h
Broken(after, k, missing, first, ms) ==
    IF Unclear(after[k], first)
    THEN AmbiguousDay([NoDay EXCEPT !.breakout = after[k].day], after[k], ms, first.h, first.l)
    ELSE ClearDay([NoDay EXCEPT !.breakout = after[k].day], after[k], after, k, missing, first.h, first.l)

LEMMA RunDayIs ==
    ASSUME NEW s, NEW ms
    PROVE  /\ BaseAt(s) = {} => RunDay(s, ms) = [NoDay EXCEPT !.reason = "DATA_INCOMPLETE", !.flags = {"no base"}]
           /\ BaseAt(s) # {} /\ Outs(s) = {} =>
                  RunDay(s, ms) = [NoDay EXCEPT !.flags = IF Missing(s) # 0 THEN {"incomplete"} ELSE {}]
           /\ BaseAt(s) # {} /\ Outs(s) # {} => RunDay(s, ms) = Broken(After(s), Min(Outs(s)), Missing(s), Base(s), ms)
<1>1. BaseAt(s) = {} => RunDay(s, ms) = [NoDay EXCEPT !.reason = "DATA_INCOMPLETE", !.flags = {"no base"}]
  BY DEF RunDay, BaseAt
<1>2. ASSUME BaseAt(s) # {}, Outs(s) = {}
      PROVE  RunDay(s, ms) = [NoDay EXCEPT !.flags = IF Missing(s) # 0 THEN {"incomplete"} ELSE {}]
  BY <1>2 DEF RunDay, BaseAt, Outs, Base, Missing
<1>3. ASSUME BaseAt(s) # {}, Outs(s) # {}
      PROVE  RunDay(s, ms) = Broken(After(s), Min(Outs(s)), Missing(s), Base(s), ms)
  BY <1>3 DEF RunDay, BaseAt, Outs, Base, Missing, Broken, Unclear
<1> QED
  BY <1>1, <1>2, <1>3

SideOf(eb, first) == IF eb.o > first.h \/ (eb.h > first.h /\ ~(eb.l < first.l)) THEN "CALL" ELSE "PUT"
LevelOf(eb, first) == StopOf(SideOf(eb, first), first.h, first.l)
Hits(after, k, first) ==
    {j \in k .. Len(after) : Stopped(after[j], SideOf(after[k], first), LevelOf(after[k], first))}

StoppedOut(eb, first, b) ==
    LET side == SideOf(eb, first)
        entered == [[NoDay EXCEPT !.breakout = eb.day] EXCEPT
                        !.side = side, !.entry = EntryPrice(eb, side, first.h, first.l), !.stop = LevelOf(eb, first)]
    IN [entered EXCEPT !.exitAt = b.day, !.exit = StopFill(b, side, LevelOf(eb, first)), !.reason = "STOP_LOSS"]

\* What a breakout comes to on the candles there are.
LEMMA ClearIs ==
    ASSUME NEW after, NEW k, NEW missing, NEW first, NEW ms, ~Unclear(after[k], first)
    PROVE  LET r == Broken(after, k, missing, first, ms)
               eb == after[k]
               hit == Hits(after, k, first)
               last == after[Len(after)]
           IN /\ r.side = SideOf(eb, first) /\ r.breakout = eb.day /\ r.minute = 0 /\ r.exitMinute = 0
              /\ r.entry = EntryPrice(eb, SideOf(eb, first), first.h, first.l) /\ r.stop = LevelOf(eb, first)
              /\ hit # {} => /\ r.reason = "STOP_LOSS" /\ r.exitAt = after[Min(hit)].day
                             /\ r.exit = StopFill(after[Min(hit)], SideOf(eb, first), LevelOf(eb, first))
                             /\ r.flags = {} /\ r = StoppedOut(eb, first, after[Min(hit)])
              /\ hit = {} => r.reason = TimedExit(last, missing) /\ r.exitAt = last.day
<1> DEFINE eb == after[k]
           side == SideOf(eb, first)
           stop == LevelOf(eb, first)
           hit == Hits(after, k, first)
           last == after[Len(after)]
           r == Broken(after, k, missing, first, ms)
           r0 == [NoDay EXCEPT !.breakout = eb.day]
           entered == [r0 EXCEPT !.side = side, !.entry = EntryPrice(eb, side, first.h, first.l), !.stop = stop]
           why == TimedExit(last, missing)
           fill == StopFill(after[Min(hit)], side, stop)
           more == IF why = "DATA_ENDED" THEN {"incomplete"} ELSE {}
<1>1. r = ClearDay(r0, eb, after, k, missing, first.h, first.l)
  BY DEF Broken
<1>2. r = IF hit # {} THEN [entered EXCEPT !.exitAt = after[Min(hit)].day, !.exit = fill, !.reason = "STOP_LOSS"]
                      ELSE [entered EXCEPT !.exitAt = last.day, !.exit = last.c, !.reason = why, !.flags = @ \cup more]
  BY <1>1, Zenon DEF ClearDay, Hits, SideOf, LevelOf
<1>7. hit # {} => r = StoppedOut(eb, first, after[Min(hit)])
  BY <1>2, Zenon DEF StoppedOut
<1>3. /\ entered.side = side /\ entered.breakout = eb.day /\ entered.minute = 0 /\ entered.exitMinute = 0
      /\ entered.entry = EntryPrice(eb, side, first.h, first.l) /\ entered.stop = stop /\ entered.flags = {}
      /\ DOMAIN entered = {"side", "breakout", "minute", "entry", "stop", "exitAt", "exitMinute", "exit", "reason", "flags"}
  BY DEF NoDay
<1> HIDE DEF r, entered, side, stop, hit, last, why, fill, more, eb
<1>4. /\ r.side = entered.side /\ r.breakout = entered.breakout /\ r.minute = entered.minute
      /\ r.exitMinute = entered.exitMinute /\ r.entry = entered.entry /\ r.stop = entered.stop
  BY <1>2, <1>3
<1>5. hit # {} => r.reason = "STOP_LOSS" /\ r.exitAt = after[Min(hit)].day /\ r.exit = fill /\ r.flags = {}
  BY <1>2, <1>3
<1>6. hit = {} => r.reason = why /\ r.exitAt = last.day
  BY <1>2, <1>3
<1> QED
  BY <1>3, <1>4, <1>5, <1>6, <1>7, Zenon DEF r, side, stop, hit, last, why, fill, eb

AmbiguousOut(eb) ==
    [[NoDay EXCEPT !.breakout = eb.day] EXCEPT
        !.side = "BOTH", !.exitAt = eb.day, !.reason = "STOP_LOSS", !.flags = @ \cup {"AMBIGUOUS"}]

\* Without minutes the order of the two breaks is not known.
LEMMA UnclearIs ==
    ASSUME NEW after, NEW k, NEW missing, NEW first, Unclear(after[k], first)
    PROVE  LET r == Broken(after, k, missing, first, << >>)
           IN /\ r.side = "BOTH" /\ r.breakout = after[k].day /\ r.reason = "STOP_LOSS" /\ r.exitAt = after[k].day
              /\ r.entry = NoLevel /\ r.stop = NoLevel
              /\ r = AmbiguousOut(after[k])
<1> DEFINE eb == after[k]
           r0 == [NoDay EXCEPT !.breakout = eb.day]
           r == Broken(after, k, missing, first, << >>)
<1>1. ResolveSide(<< >>, first.h, first.l) = [side |-> "none"]
  <2>1. 1 .. Len(<< >>) = {}
    OBVIOUS
  <2>2. {j \in 1 .. Len(<< >>) : Breaks(<< >>[j], first.h, first.l)} = {}
    BY <2>1
  <2> QED
    BY <2>2 DEF ResolveSide
<1>2. r = ResolvedDay(r0, eb, << >>, [side |-> "none"], first.h, first.l)
  BY <1>1, Zenon DEF Broken, AmbiguousDay
<1>3. r = [r0 EXCEPT !.side = "BOTH", !.exitAt = eb.day, !.reason = "STOP_LOSS", !.flags = @ \cup {"AMBIGUOUS"}]
  BY <1>2 DEF ResolvedDay
<1>4. r.side = "BOTH" /\ r.breakout = eb.day /\ r.reason = "STOP_LOSS" /\ r.exitAt = eb.day
      /\ r.entry = NoLevel /\ r.stop = NoLevel
  BY <1>3 DEF NoDay
<1> QED
  BY <1>3, <1>4 DEF AmbiguousOut

LEMMA BrokenIs ==
    ASSUME NEW after \in Seq(CandleSet), NEW k \in 1 .. Len(after), NEW missing, NEW first
    PROVE  LET r == Broken(after, k, missing, first, << >>)
           IN /\ Traded(r) /\ r.breakout = after[k].day
              /\ DayIsOver(r) => \E j \in k .. Len(after) : r.exitAt = after[j].day
<1> DEFINE r == Broken(after, k, missing, first, << >>)
           hit == Hits(after, k, first)
<1>0. Len(after) \in Nat /\ k \in k .. Len(after) /\ Len(after) \in k .. Len(after)
  OBVIOUS
<1>1. CASE Unclear(after[k], first)
  <2>1. r.side = "BOTH" /\ r.breakout = after[k].day /\ r.exitAt = after[k].day
    BY <1>1, UnclearIs
  <2> HIDE DEF r
  <2>2. Traded(r) /\ r.breakout = after[k].day /\ \E j \in k .. Len(after) : r.exitAt = after[j].day
    BY <1>0, <2>1 DEF Traded
  <2> QED
    BY <2>2 DEF r
<1>2. CASE ~Unclear(after[k], first)
  <2>1. /\ r.side = SideOf(after[k], first) /\ r.breakout = after[k].day
        /\ hit # {} => r.exitAt = after[Min(hit)].day
        /\ hit = {} => r.exitAt = after[Len(after)].day
    BY <1>2, ClearIs
  <2>2. hit # {} => Min(hit) \in k .. Len(after)
    <3>1. hit \in SUBSET (k .. Len(after)) /\ hit \in SUBSET Nat
      BY <1>0 DEF Hits
    <3> HIDE DEF hit
    <3> QED
      BY <3>1, MinIs
  <2>3. SideOf(after[k], first) # "none"
    BY DEF SideOf
  <2> HIDE DEF r, hit
  <2>4. Traded(r) /\ r.breakout = after[k].day /\ \E j \in k .. Len(after) : r.exitAt = after[j].day
    BY <1>0, <2>1, <2>2, <2>3 DEF Traded
  <2> QED
    BY <2>4 DEF r
<1> QED
  BY <1>1, <1>2

\* The stop of a day that broke out is a price.
LEMMA BrokenStop ==
    ASSUME NEW after, NEW k, NEW missing, NEW first \in CandleSet
    PROVE  Broken(after, k, missing, first, << >>).stop \in Nat
<1>1. CASE Unclear(after[k], first)
  <2>1. Broken(after, k, missing, first, << >>).stop = NoLevel
    BY <1>1, UnclearIs
  <2> QED
    BY <2>1 DEF NoLevel
<1>2. CASE ~Unclear(after[k], first)
  <2>1. Broken(after, k, missing, first, << >>).stop = LevelOf(after[k], first)
    BY <1>2, ClearIs
  <2>2. LevelOf(after[k], first) \in {first.l, first.h}
    BY DEF LevelOf, StopOf
  <2> QED
    BY <2>1, <2>2 DEF CandleSet, Price
<1> QED
  BY <1>1, <1>2

\* The first hit stays the first.
LEMMA HitsStay ==
    ASSUME NEW after \in Seq(CandleSet), NEW b \in CandleSet, NEW k \in 1 .. Len(after), NEW first
    PROVE  LET more == Append(after, b)
               hit == Hits(after, k, first)
               hits == Hits(more, k, first)
           IN /\ hit # {} => hits # {} /\ Min(hits) = Min(hit) /\ Min(hit) \in 1 .. Len(after)
              /\ hit = {} => hits \in SUBSET {Len(after) + 1}
<1> DEFINE more == Append(after, b)
           hit == Hits(after, k, first)
           hits == Hits(more, k, first)
           n == Len(after)
<1>1. n \in Nat /\ k \in Nat /\ Len(more) = n + 1 /\ \A j \in 1 .. n : more[j] = after[j]
  OBVIOUS
<1> HIDE DEF more
<1>2. \A j \in k .. n : j \in hits <=> j \in hit
  <2> TAKE j \in k .. n
  <2>1. j \in 1 .. n /\ j \in k .. Len(more) /\ more[j] = after[j] /\ more[k] = after[k]
    BY <1>1
  <2> QED
    BY <2>1 DEF Hits
<1>3. hit \in SUBSET (k .. n) /\ hits \in SUBSET (k .. n + 1) /\ hit \in SUBSET Nat /\ hits \in SUBSET Nat
  BY <1>1 DEF Hits
<1> HIDE DEF hit, hits, n
<1>4. CASE hit = {}
  <2>1. \A j \in hits : j = n + 1
    <3> TAKE j \in hits
    <3>1. j \in k .. n + 1 /\ j \notin k .. n
      BY <1>2, <1>3, <1>4
    <3> QED
      BY <1>1, <3>1
  <2> QED
    BY <1>4, <2>1 DEF hits, hit, more, n
<1>5. CASE hit # {}
  <2>1. Min(hit) \in hit /\ \A x \in hit : Min(hit) <= x
    BY <1>3, <1>5, MinIs
  <2>2. Min(hit) \in k .. n /\ Min(hit) \in hits
    BY <1>2, <1>3, <2>1
  <2>3. Min(hits) \in hits /\ \A x \in hits : Min(hits) <= x
    BY <1>3, <2>2, MinIs
  <2>4. Min(hits) <= Min(hit) /\ Min(hits) \in Nat /\ Min(hit) \in Nat
    BY <1>3, <2>1, <2>2, <2>3
  <2>5. Min(hits) \in k .. n
    BY <1>1, <1>3, <2>2, <2>3, <2>4
  <2>6. Min(hits) \in hit
    BY <1>2, <2>3, <2>5
  <2>7. Min(hits) = Min(hit)
    BY <2>1, <2>4, <2>6
  <2>8. Min(hit) \in 1 .. n /\ hits # {}
    BY <1>1, <2>2
  <2> QED
    BY <1>5, <2>7, <2>8 DEF hits, hit, more, n
<1> QED
  BY <1>4, <1>5

\* The day with another candle: as it was, or its position has not been over.
LEMMA BrokenStays ==
    ASSUME NEW after \in Seq(CandleSet), NEW b \in CandleSet, NEW k \in 1 .. Len(after),
           NEW missing, NEW less, NEW first
    PROVE  LET r == Broken(after, k, missing, first, << >>)
               q == Broken(Append(after, b), k, less, first, << >>)
           IN \/ q = r
              \/ /\ q.side = r.side /\ q.entry = r.entry /\ q.stop = r.stop /\ q.breakout = r.breakout
                 /\ DayIsOver(r) => after[Len(after)].day = ExitSlot
                 /\ DayIsOver(q) => q.exitAt = b.day
<1> DEFINE more == Append(after, b)
           r == Broken(after, k, missing, first, << >>)
           q == Broken(more, k, less, first, << >>)
           hit == Hits(after, k, first)
           hits == Hits(more, k, first)
           n == Len(after)
<1>1. n \in Nat /\ k \in 1 .. n /\ Len(more) = n + 1 /\ more[n + 1] = b /\ \A j \in 1 .. n : more[j] = after[j]
  OBVIOUS
<1>2. /\ hit # {} => hits # {} /\ Min(hits) = Min(hit) /\ Min(hit) \in 1 .. n
      /\ hit = {} => hits \in SUBSET {n + 1}
  BY HitsStay
<1>3. hits \in SUBSET Nat
  BY DEF Hits
<1> HIDE DEF more, n
<1>4. more[k] = after[k]
  BY <1>1
<1>5. CASE Unclear(after[k], first)
  <2>1. q = r
    BY <1>4, <1>5, UnclearIs
  <2> QED
    BY <2>1 DEF more
<1>6. CASE ~Unclear(after[k], first)
  <2>1. /\ r.side = SideOf(after[k], first) /\ r.breakout = after[k].day
        /\ r.entry = EntryPrice(after[k], SideOf(after[k], first), first.h, first.l) /\ r.stop = LevelOf(after[k], first)
        /\ hit # {} => r = StoppedOut(after[k], first, after[Min(hit)])
        /\ hit = {} => r.reason = TimedExit(after[n], missing)
    BY <1>6, ClearIs DEF n
  <2>2. /\ q.side = SideOf(after[k], first) /\ q.breakout = after[k].day
        /\ q.entry = EntryPrice(after[k], SideOf(after[k], first), first.h, first.l) /\ q.stop = LevelOf(after[k], first)
        /\ hits # {} => q = StoppedOut(after[k], first, more[Min(hits)]) /\ q.exitAt = more[Min(hits)].day
        /\ hits = {} => q.exitAt = more[Len(more)].day
    BY <1>4, <1>6, ClearIs
  <2> HIDE DEF r, q, hit, hits
  <2>3. CASE hit # {}
    <3>1. q = r
      BY <1>1, <1>2, <2>1, <2>2, <2>3
    <3> QED
      BY <3>1 DEF r, q, more
  <2>4. CASE hit = {}
    <3>1. q.exitAt = b.day
      <4>1. CASE hits = {}
        BY <1>1, <2>2, <4>1
      <4>2. CASE hits # {}
        <5>1. Min(hits) \in hits
          BY <1>3, <4>2, MinIs
        <5>2. Min(hits) = n + 1
          BY <1>2, <2>4, <5>1
        <5> QED
          BY <1>1, <2>2, <4>2, <5>2
      <4> QED
        BY <4>1, <4>2
    <3>2. DayIsOver(r) => after[n].day = ExitSlot
      <4>1. r.reason = TimedExit(after[n], missing)
        BY <2>1, <2>4
      <4> QED
        BY <4>1 DEF TimedExit, DayIsOver
    <3> QED
      BY <2>1, <2>2, <3>1, <3>2 DEF r, q, more, n
  <2> QED
    BY <2>3, <2>4
<1> QED
  BY <1>5, <1>6

\* The candles a traded day names are there, and its stop is a price.
DayIn(s, r) ==
    Traded(r) => /\ r.stop \in Nat
                 /\ \E i \in 1 .. Len(s) : s[i].day = r.breakout
                 /\ DayIsOver(r) => \E i \in 1 .. Len(s) : s[i].day = r.exitAt

LEMMA OutsIs ==
    ASSUME NEW s, IsHistory(s), Outs(s) # {}
    PROVE  Min(Outs(s)) \in Outs(s) /\ Min(Outs(s)) \in 1 .. Len(After(s)) /\ \A k \in Outs(s) : Min(Outs(s)) <= k
<1>1. Outs(s) \in SUBSET (1 .. Len(After(s))) /\ Outs(s) \in SUBSET Nat
  BY AfterIs DEF Outs
<1> QED
  BY <1>1, MinIs

LEMMA UntradedDayIs ==
    ASSUME NEW s, NEW ms, BaseAt(s) = {} \/ Outs(s) = {}
    PROVE  ~Traded(RunDay(s, ms)) /\ RunDay(s, ms).minute = 0 /\ RunDay(s, ms).exitMinute = 0
<1> DEFINE few == IF Missing(s) # 0 THEN {"incomplete"} ELSE {}
           r == RunDay(s, ms)
<1>1. \/ r = [NoDay EXCEPT !.reason = "DATA_INCOMPLETE", !.flags = {"no base"}]
      \/ r = [NoDay EXCEPT !.flags = few]
  BY RunDayIs
<1> HIDE DEF few, r
<1>2. r.side = "none" /\ r.minute = 0 /\ r.exitMinute = 0
  BY <1>1 DEF NoDay
<1> QED
  BY <1>2 DEF Traded, r

LEMMA DayIsIn ==
    ASSUME NEW s, IsHistory(s)
    PROVE  DayIn(s, RunDay(s, << >>))
<1> DEFINE r == RunDay(s, << >>)
           k == Min(Outs(s))
<1>1. CASE BaseAt(s) = {} \/ Outs(s) = {}
  BY <1>1, UntradedDayIs DEF DayIn
<1>2. CASE BaseAt(s) # {} /\ Outs(s) # {}
  <2>1. r = Broken(After(s), k, Missing(s), Base(s), << >>)
    BY <1>2, RunDayIs
  <2>2. k \in 1 .. Len(After(s)) /\ After(s) \in Seq(CandleSet) /\ Len(After(s)) \in Nat
    BY <1>2, OutsIs, AfterIs
  <2> HIDE DEF r, k
  <2>3. r.breakout = After(s)[k].day /\ (DayIsOver(r) => \E j \in k .. Len(After(s)) : r.exitAt = After(s)[j].day)
    BY <2>1, <2>2, BrokenIs
  <2>4. \A j \in 1 .. Len(After(s)) : \E i \in 1 .. Len(s) : After(s)[j] = s[i]
    BY AfterIs DEF AfterAt
  <2>5. k .. Len(After(s)) \subseteq 1 .. Len(After(s))
    BY <2>2
  <2>6. \E i \in 1 .. Len(s) : s[i].day = r.breakout
    BY <2>2, <2>3, <2>4
  <2>7. DayIsOver(r) => \E i \in 1 .. Len(s) : s[i].day = r.exitAt
    BY <2>3, <2>4, <2>5
  <2>8. r.stop \in Nat
    <3>1. Base(s) \in CandleSet
      BY <1>2, BaseIs
    <3> QED
      BY <2>1, <3>1, BrokenStop
  <2> QED
    BY <2>6, <2>7, <2>8 DEF DayIn, r
<1> QED
  BY <1>1, <1>2

\* What the day comes to with one candle more.
DayMoves(r, q, day) ==
    \/ ~Traded(r) /\ ~Traded(q)
    \/ q = r
    \/ ~Traded(r) /\ Traded(q) /\ q.breakout = day /\ (DayIsOver(q) => q.exitAt = day)
    \/ /\ Traded(r) /\ ~DayIsOver(r) /\ Traded(q)
       /\ q.side = r.side /\ q.entry = r.entry /\ q.stop = r.stop /\ q.breakout = r.breakout
       /\ DayIsOver(q) => q.exitAt = day

LEMMA DayContinues ==
    ASSUME NEW s, IsHistory(s), NEW t, IsHistory(t), OneMore(t, s)
    PROVE  DayMoves(RunDay(s, << >>), RunDay(t, << >>), t[Len(t)].day)
<1> DEFINE r == RunDay(s, << >>)
           q == RunDay(t, << >>)
           b == t[Len(t)]
           x == After(s)
           y == After(t)
<1>1. /\ Len(s) \in Nat /\ Len(t) = Len(s) + 1 /\ Len(t) \in 1 .. Len(t) /\ b \in CandleSet /\ b.day \in Nat
      /\ \A i \in 1 .. Len(s) : s[i].day < b.day /\ s[i].day \in Nat
  <2>1. Len(s) \in Nat /\ Len(t) = Len(s) + 1 /\ \A i \in 1 .. Len(s) : t[i] = s[i]
    BY HistoryIs DEF OneMore, Continues
  <2>2. Len(t) \in 1 .. Len(t) /\ \A i \in 1 .. Len(s) : i \in 1 .. Len(t) /\ i < Len(t)
    BY <2>1
  <2>3. \A i \in 1 .. Len(s) : t[i].day < b.day
    BY <2>2, HistoryIs
  <2> QED
    BY <2>1, <2>2, <2>3, HistoryIs
<1>2. /\ x \in Seq(CandleSet) /\ Len(x) \in Nat /\ y \in Seq(CandleSet) /\ Len(y) \in Nat
      /\ IF BaseSlot < b.day /\ b.day <= ExitSlot THEN y = Append(x, b) ELSE y = x
  BY AfterIs, AfterStays
<1>3. ExitSlot \in Nat /\ BaseSlot \in Nat
  BY BreakoutAssumption
<1> HIDE DEF b
<1>4. CASE BaseAt(s) = {}
  <2>1. ~Traded(r)
    BY <1>4, UntradedDayIs
  <2>2. CASE BaseAt(t) = {}
    BY <2>1, <2>2, UntradedDayIs DEF DayMoves
  <2>3. CASE BaseAt(t) # {}
    <3>1. b.day = BaseSlot
      BY <1>4, <2>3, BaseStays DEF b
    <3>2. \A i \in 1 .. Len(s) : ~(BaseSlot < s[i].day)
      BY <1>1, <1>3, <3>1
    <3>3. AfterAt(s) = {}
      BY <3>2 DEF AfterAt
    <3>4. y = x /\ Len(x) = 0
      BY <1>2, <1>3, <3>1, <3>3, AfterIs, FS_EmptySet
    <3>5. Outs(t) = {}
      BY <3>4 DEF Outs
    <3> QED
      BY <2>1, <3>5, UntradedDayIs DEF DayMoves
  <2> QED
    BY <2>2, <2>3
<1>5. CASE BaseAt(s) # {}
  <2>1. BaseAt(t) # {} /\ Base(t) = Base(s)
    BY <1>5, BaseStays
  <2>2. CASE y = x
    <3>1. Outs(t) = Outs(s) /\ Missing(t) = Missing(s)
      BY <2>1, <2>2 DEF Outs, Missing
    <3>2. CASE Outs(s) = {}
      BY <3>1, <3>2, UntradedDayIs DEF DayMoves
    <3>3. CASE Outs(s) # {}
      <4>1. q = r
        BY <1>5, <2>1, <2>2, <3>1, <3>3, RunDayIs
      <4> QED
        BY <4>1 DEF DayMoves
    <3> QED
      BY <3>2, <3>3
  <2>3. CASE y # x
    <3>1. y = Append(x, b) /\ BaseSlot < b.day /\ b.day <= ExitSlot
      BY <1>2, <2>3
    <3> DEFINE n == Len(x)
    <3>2. n \in Nat /\ Len(y) = n + 1 /\ y[n + 1] = b /\ \A j \in 1 .. n : y[j] = x[j]
      BY <1>1, <1>2, <3>1
    <3> HIDE DEF x, y, n
    <3>3. Outs(s) \in SUBSET (1 .. n) /\ Outs(t) \in SUBSET (1 .. n + 1) /\ Outs(s) \in SUBSET Nat /\ Outs(t) \in SUBSET Nat
          /\ \A j \in 1 .. n : j \in Outs(t) <=> j \in Outs(s)
      BY <2>1, <3>2 DEF Outs, x, y, n
    <3>4. CASE Outs(s) = {}
      <4>1. ~Traded(r)
        BY <3>4, UntradedDayIs
      <4>2. CASE Outs(t) = {}
        BY <4>1, <4>2, UntradedDayIs DEF DayMoves
      <4>3. CASE Outs(t) # {}
        <5> DEFINE k == Min(Outs(t))
        <5>1. k \in Outs(t)
          BY <4>3, OutsIs
        <5>2. k \notin 1 .. n
          BY <3>3, <3>4, <5>1
        <5>3. k = n + 1 /\ k = Len(y) /\ k \in 1 .. Len(y) /\ k .. Len(y) = {k}
          BY <3>2, <3>3, <5>1, <5>2
        <5>4. q = Broken(y, k, Missing(t), Base(t), << >>)
          BY <2>1, <4>3, RunDayIs DEF y
        <5> HIDE DEF k, q
        <5>5. Traded(q) /\ q.breakout = y[k].day /\ (DayIsOver(q) => \E j \in k .. Len(y) : q.exitAt = y[j].day)
          BY <1>2, <5>3, <5>4, BrokenIs DEF y
        <5>6. y[k] = b
          BY <3>2, <5>3
        <5>7. DayIsOver(q) => q.exitAt = b.day
          BY <5>3, <5>5, <5>6
        <5> QED
          BY <4>1, <5>5, <5>6, <5>7 DEF DayMoves, q, b
      <4> QED
        BY <4>2, <4>3
    <3>5. CASE Outs(s) # {}
      <4> DEFINE k == Min(Outs(s))
      <4>1. k \in Outs(s) /\ k \in 1 .. n /\ \A j \in Outs(s) : k <= j
        BY <3>5, OutsIs DEF n, x
      <4>2. Outs(t) # {} /\ k \in Outs(t)
        BY <3>3, <4>1
      <4>3. Min(Outs(t)) = k
        <5>1. Min(Outs(t)) \in Outs(t) /\ \A j \in Outs(t) : Min(Outs(t)) <= j
          BY <4>2, OutsIs
        <5> DEFINE m == Min(Outs(t))
        <5>2. m <= k /\ m \in Nat /\ k \in Nat /\ m \in 1 .. n + 1
          BY <3>3, <4>1, <4>2, <5>1
        <5> HIDE DEF m, k
        <5>3. m \in 1 .. n
          BY <3>2, <4>1, <5>2
        <5>4. m \in Outs(s)
          BY <3>3, <5>1, <5>3 DEF m
        <5> QED
          BY <4>1, <5>2, <5>4 DEF m
      <4>4. r = Broken(x, k, Missing(s), Base(s), << >>)
        BY <1>5, <3>5, RunDayIs DEF x
      <4>5. q = Broken(y, k, Missing(t), Base(s), << >>)
        BY <2>1, <4>2, <4>3, RunDayIs DEF y
      <4> HIDE DEF k, q, r
      <4>6. \/ q = r
            \/ /\ q.side = r.side /\ q.entry = r.entry /\ q.stop = r.stop /\ q.breakout = r.breakout
               /\ DayIsOver(r) => x[n].day = ExitSlot
               /\ DayIsOver(q) => q.exitAt = b.day
        BY <1>1, <1>2, <3>1, <4>1, <4>4, <4>5, BrokenStays DEF n, x
      <4>7. Traded(r)
        BY <1>2, <4>1, <4>4, BrokenIs DEF n, x
      <4>8. x[n].day # ExitSlot
        <5>1. n \in 1 .. n
          BY <3>2, <4>1
        <5>2. PICK i \in 1 .. Len(s) : x[n] = s[i]
          BY <5>1, AfterIs DEF AfterAt, x, n
        <5> QED
          BY <1>1, <1>3, <3>1, <5>2
      <4>9. q = r \/ Traded(q)
        BY <4>6, <4>7 DEF Traded
      <4> QED
        BY <4>6, <4>7, <4>8, <4>9 DEF DayMoves, q, r, b
    <3> QED
      BY <3>4, <3>5
  <2> QED
    BY <2>2, <2>3
<1> QED
  BY <1>4, <1>5

\* The place of a candle of a history.
PlaceOf(s, day) == CHOOSE i \in 1 .. Len(s) : s[i].day = day

LEMMA PlaceIs ==
    ASSUME NEW s, IsHistory(s), NEW i \in 1 .. Len(s)
    PROVE  PlaceOf(s, s[i].day) = i
<1>1. \A j \in 1 .. Len(s) : s[j].day = s[i].day => j = i
  <2> TAKE j \in 1 .. Len(s)
  <2>1. (i < j => s[i].day < s[j].day) /\ (j < i => s[j].day < s[i].day)
        /\ s[i].day \in Nat /\ s[j].day \in Nat
    BY HistoryIs
  <2> QED
    BY <2>1
<1> QED
  BY <1>1 DEF PlaceOf

\* The row of a day, on the history it is about.
RowOfDay(s, r, exitAt) ==
    [side |-> r.side, entryAt |-> PlaceOf(s, r.breakout), entry |-> r.entry, stop |-> r.stop, exitAt |-> exitAt]
BookedDay(s, r) ==
    IF Traded(r) /\ DayIsOver(r) THEN <<RowOfDay(s, r, PlaceOf(s, r.exitAt))>> ELSE << >>
OpenDay(s, r) == IF Traded(r) /\ ~DayIsOver(r) THEN {RowOfDay(s, r, 0)} ELSE {}

\* Every candle is a step of the book.
LEMMA BreakoutKeepsBook ==
    ASSUME part = "breakout15", part' = part, IsHistory(bars), IsHistory(bars'), OneMore(bars', bars),
           report.first = RunDay(bars, << >>), report'.first = RunDay(bars', << >>)
    PROVE  Book!Next
<1> DEFINE s == bars
           t == bars'
           r == report.first
           q == report'.first
           n == Len(bars')
           day == bars'[Len(bars')].day
<1>1. /\ BookedTrades = BookedDay(s, r) /\ Position = OpenDay(s, r)
      /\ BookedTrades' = BookedDay(t, q) /\ Position' = OpenDay(t, q)
  <2>1. BookedTrades = BookedDay(s, r) /\ BookedTrades' = BookedDay(t, q)
    BY DEF BookedTrades, BookedDay, DayRow, RowOfDay, Slot, PlaceOf
  <2>2. Position = OpenDay(s, r)
    <3>1. Position = {DayRow(x, 0) : x \in {x \in {r} : Traded(x) /\ ~DayIsOver(x)}}
      BY DEF Position
    <3>2. DayRow(r, 0) = RowOfDay(s, r, 0)
      BY DEF DayRow, RowOfDay, Slot, PlaceOf
    <3> QED
      BY <3>1, <3>2 DEF OpenDay
  <2>3. Position' = OpenDay(t, q)
    <3>1. Position' = {DayRow(x, 0)' : x \in {x \in {q} : Traded(x) /\ ~DayIsOver(x)}}
      BY DEF Position, DayRow, Slot, Traded, DayIsOver
    <3>2. DayRow(report.first, 0)' = RowOfDay(t, q, 0)
      BY DEF DayRow, RowOfDay, Slot, PlaceOf
    <3> QED
      BY <3>1, <3>2 DEF OpenDay, DayRow, RowOfDay, Slot, PlaceOf, Position
  <2> QED
    BY <2>1, <2>2, <2>3
<1>2. /\ Len(s) \in Nat /\ n = Len(s) + 1 /\ n \in 1 .. Len(t) /\ \A i \in 1 .. Len(s) : t[i] = s[i] /\ i \in 1 .. Len(t)
  <2>1. Len(s) \in Nat /\ n = Len(s) + 1 /\ \A i \in 1 .. Len(s) : t[i] = s[i]
    BY HistoryIs DEF OneMore, Continues
  <2> QED
    BY <2>1
<1>3. DayMoves(r, q, day)
  BY DayContinues
<1>4. DayIn(s, r)
  BY DayIsIn
<1>5. PlaceOf(t, day) = n
  BY <1>2, PlaceIs
<1>6. \A i \in 1 .. Len(s) : PlaceOf(t, s[i].day) = PlaceOf(s, s[i].day)
  <2> TAKE i \in 1 .. Len(s)
  <2>1. PlaceOf(s, s[i].day) = i
    BY PlaceIs
  <2>2. PlaceOf(t, t[i].day) = i
    BY <1>2, PlaceIs
  <2> QED
    BY <1>2, <2>1, <2>2
<1>7. Traded(r) => PlaceOf(t, r.breakout) = PlaceOf(s, r.breakout)
  BY <1>4, <1>6 DEF DayIn
<1>8. Traded(r) /\ DayIsOver(r) => PlaceOf(t, r.exitAt) = PlaceOf(s, r.exitAt)
  BY <1>4, <1>6 DEF DayIn
<1> SUFFICES Book!Hold \/ Book!Enter \/ Book!Trail \/ Book!Exit \/ Book!InAndOut
  BY <1>2 DEF Book!Next
<1> HIDE DEF s, t, r, q, n, day
<1>9. n = Len(bars')
  BY DEF n
<1>10. ASSUME ~Traded(r), ~Traded(q)
       PROVE  Book!Hold
  BY <1>1, <1>10 DEF BookedDay, OpenDay, Book!Hold
<1>11. ASSUME q = r
       PROVE  Book!Hold
  <2>1. BookedDay(t, r) = BookedDay(s, r)
    BY <1>7, <1>8 DEF BookedDay, RowOfDay
  <2>2. OpenDay(t, r) = OpenDay(s, r)
    BY <1>7 DEF OpenDay, RowOfDay
  <2> QED
    BY <1>1, <1>11, <2>1, <2>2 DEF Book!Hold
<1>12. ASSUME NEW x
       PROVE  /\ <<x>> # << >> /\ Len(<<x>>) = 1 /\ <<x>>[Len(<<x>>)] = x /\ Append(<< >>, x) = <<x>>
  OBVIOUS
<1>13. ASSUME ~Traded(r), Traded(q), q.breakout = day, DayIsOver(q) => q.exitAt = day
       PROVE  Book!Enter \/ Book!InAndOut
  <2>1. BookedTrades = << >> /\ Position = {}
    BY <1>1, <1>13 DEF BookedDay, OpenDay
  <2> DEFINE row(e) == RowOfDay(t, q, e)
  <2>2. \A e : row(e).entryAt = n /\ row(e).exitAt = e
    BY <1>5, <1>13 DEF RowOfDay
  <2>3. CASE ~DayIsOver(q)
    <3>1. BookedTrades' = << >> /\ Position' = {row(0)}
      BY <1>1, <1>13, <2>3 DEF BookedDay, OpenDay
    <3> HIDE DEF row
    <3> QED
      BY <1>9, <2>1, <2>2, <3>1 DEF Book!Enter, Book!Fresh
  <2>4. CASE DayIsOver(q)
    <3>1. BookedTrades' = <<row(n)>> /\ Position' = {}
      BY <1>1, <1>5, <1>13, <2>4 DEF BookedDay, OpenDay
    <3> HIDE DEF row
    <3>2. Book!NewlyBooked = row(n) /\ BookedTrades' # << >> /\ BookedTrades' = Append(BookedTrades, row(n))
      BY <1>12, <2>1, <3>1 DEF Book!NewlyBooked
    <3> QED
      BY <1>9, <2>1, <2>2, <3>1, <3>2 DEF Book!InAndOut, Book!Fresh, Book!Books
  <2> QED
    BY <2>3, <2>4
<1>14. ASSUME Traded(r), ~DayIsOver(r), Traded(q), q.side = r.side, q.entry = r.entry, q.stop = r.stop,
              q.breakout = r.breakout, DayIsOver(q) => q.exitAt = day
       PROVE  Book!Hold \/ Book!Exit
  <2> DEFINE old == RowOfDay(s, r, 0)
             new == RowOfDay(t, q, n)
  <2>1. BookedTrades = << >> /\ Position = {old}
    BY <1>1, <1>14 DEF BookedDay, OpenDay
  <2>2. CASE ~DayIsOver(q)
    <3>1. BookedTrades' = << >> /\ Position' = {RowOfDay(t, q, 0)}
      BY <1>1, <1>14, <2>2 DEF BookedDay, OpenDay
    <3>2. RowOfDay(t, q, 0) = old
      BY <1>7, <1>14 DEF RowOfDay
    <3> QED
      BY <2>1, <3>1, <3>2 DEF Book!Hold
  <2>3. CASE DayIsOver(q)
    <3>1. BookedTrades' = <<new>> /\ Position' = {}
      BY <1>1, <1>5, <1>14, <2>3 DEF BookedDay, OpenDay
    <3>2. Book!SameTrade(old, new) /\ Book!Ratchets(old, new) /\ new.exitAt = n
      <4>1. r.stop \in Nat
        BY <1>4, <1>14 DEF DayIn
      <4>2. /\ new.side = old.side /\ new.entryAt = old.entryAt /\ new.entry = old.entry
            /\ new.stop = r.stop /\ old.stop = r.stop /\ new.exitAt = n
        BY <1>7, <1>14 DEF RowOfDay
      <4> HIDE DEF old, new
      <4> QED
        BY <4>1, <4>2 DEF Book!SameTrade, Book!Ratchets
    <3> HIDE DEF old, new
    <3>3. Book!NewlyBooked = new /\ BookedTrades' # << >> /\ BookedTrades' = Append(BookedTrades, new)
      BY <1>12, <2>1, <3>1 DEF Book!NewlyBooked
    <3> QED
      BY <1>9, <2>1, <3>1, <3>2, <3>3 DEF Book!Exit, Book!Books
  <2> QED
    BY <2>2, <2>3
<1> QED
  BY <1>3, <1>10, <1>11, <1>13, <1>14 DEF DayMoves

-----------------------------------------------------------------------------
(* Every backtest implements the trade book.                               *)

\* The book is that of the report, the history and the engine.
LEMMA BookStays ==
    ASSUME UNCHANGED <<part, bars, report>>
    PROVE  UNCHANGED Book!book
<1>1. Len(bars') = Len(bars)
  OBVIOUS
<1>2. BookedTrades' = BookedTrades
  BY DEF BookedTrades, DayRow, Slot, Traded, DayIsOver, Rows, Stop
<1>3. Position' = Position
  BY DEF Position, DayRow, Slot, Traded, DayIsOver, Rows, Stop
<1> QED
  BY <1>1, <1>2, <1>3 DEF Book!book

\* What a minute adds to a breakout report leaves the book alone.
LEMMA MinuteLeavesBook ==
    ASSUME part = "breakout15", UNCHANGED <<part, bars>>, report'.first = report.first
    PROVE  UNCHANGED Book!book
<1>1. BookedTrades' = BookedTrades
  BY DEF BookedTrades, DayRow, Slot, Traded, DayIsOver
<1>2. Position' = Position
  BY DEF Position, DayRow, Slot, Traded, DayIsOver
<1> QED
  BY <1>1, <1>2 DEF Book!book

LEMMA NoBookYet ==
    ASSUME IsHistory(bars), part \in Engines, Untraded(part, bars), report = Report(part, bars, << >>)
    PROVE  Book!Init
<1>1. Len(bars) \in Nat
  BY HistoryIs
<1>2. CASE part = "top_bottom"
  <2>1. report.open = {} /\ report.closed = << >>
    BY <1>2 DEF Untraded
  <2>2. Position = {}
    BY <1>2, <2>1 DEF Position
  <2>3. BookedTrades = << >>
    BY <1>2, <2>1 DEF BookedTrades
  <2> QED
    BY <1>1, <2>2, <2>3 DEF Book!Init
<1>3. CASE part = "breakout15"
  <2>1. ~Traded(report.first)
    BY <1>3 DEF Untraded, Traded
  <2>2. Position = {}
    BY <1>3, <2>1 DEF Position
  <2>3. BookedTrades = << >>
    BY <1>3, <2>1 DEF BookedTrades
  <2> QED
    BY <1>1, <2>2, <2>3 DEF Book!Init
<1>4. CASE part \in {"system_one", "gfs"}
  <2>1. report.trades = << >>
    BY <1>4 DEF Untraded
  <2>2. Rows = << >> /\ Len(Rows) = 0
    BY <2>1 DEF Rows
  <2>3. {k \in 1 .. Len(Rows) : Rows[k].exitAt # 0} = {} /\ {Rows[k] : k \in 1 .. Len(Rows)} = {}
    BY <2>2
  <2>4. Position = {}
    BY <1>4, <2>3 DEF Position
  <2>5. Pick(Rows, {}) = << >>
    <3> DEFINE none == << >>
               p == Pick(none, {})
    <3>1. none \in Seq(Nat) /\ {} \in SUBSET (1 .. Len(none)) /\ Cardinality({}) = 0
      BY FS_EmptySet
    <3>2. Rows = none
      BY <2>2
    <3> HIDE DEF none
    <3>3. p \in Seq(Nat) /\ Len(p) = 0
      BY <3>1, PickIs
    <3> HIDE DEF p
    <3>4. p = << >>
      BY <3>3
    <3> QED
      BY <3>2, <3>4 DEF p
  <2>6. BookedTrades = << >>
    BY <1>4, <2>3, <2>5 DEF BookedTrades
  <2> QED
    BY <1>1, <2>4, <2>6 DEF Book!Init
<1> QED
  BY <1>2, <1>3, <1>4 DEF Engines

\* Another candle is a step of the book, for every engine.
LEMMA CandleIsBooked ==
    ASSUME StartedInv, CandleComes
    PROVE  Book!Next
<1>1. /\ part \in Engines /\ part' = part /\ IsHistory(bars) /\ IsHistory(bars') /\ OneMore(bars', bars)
      /\ report = Report(part, bars, << >>) /\ report' = Report(part, bars', << >>)
      /\ minutes = << >> /\ minutes' = << >>
  BY NextCandleIs, BacktestsAssumption DEF StartedInv, BacktestsInv, CandleComes, OneMore
<1>2. CASE part = "top_bottom"
  <2> DEFINE c == Closes(bars)
             e == Closes(bars')
  <2>1. bars \in Seq(CandleSet) /\ bars' \in Seq(CandleSet) /\ Len(bars') = Len(bars) + 1 /\ Continues(bars', bars)
    BY <1>1, HistoryIs DEF OneMore
  <2>2. /\ c \in Seq(Nat) /\ e \in Seq(Nat) /\ Continues(e, c)
        /\ Len(c) = Len(bars) /\ Len(e) = Len(bars')
    BY <2>1, ClosesAre, ClosesContinue
  <2>3. report = TopBottomRun(c) /\ report' = TopBottomRun(e)
    BY <1>1, <1>2 DEF Report
  <2> HIDE DEF c, e
  <2>4. /\ TopBottomRun(c) \in TbState /\ TopBottomRun(e) \in TbState
        /\ TbMoves(TopBottomRun(c), TopBottomRun(e), Len(e))
    BY <2>1, <2>2, TopBottomContinues
  <2> QED
    BY <1>1, <1>2, <2>1, <2>2, <2>3, <2>4, TopBottomKeepsBook
<1>3. CASE part = "breakout15"
  <2>1. report.first = RunDay(bars, << >>) /\ report'.first = RunDay(bars', << >>)
    BY <1>1, <1>3 DEF Report
  <2> QED
    BY <1>1, <1>3, <2>1, BreakoutKeepsBook
<1>4. CASE part = "system_one"
  <2>1. bars # << >> /\ LongEnough(bars)
    BY <1>4 DEF StartedInv
  <2> QED
    BY <1>1, <1>4, <2>1, SystemOneKeepsBook
<1>5. CASE part = "gfs"
  <2>1. bars # << >>
    BY <1>5 DEF StartedInv
  <2> QED
    BY <1>1, <1>5, <2>1, GfsKeepsBook
<1> QED
  BY <1>1, <1>2, <1>3, <1>4, <1>5 DEF Engines

\* A minute is a stutter of the book.
LEMMA MinuteIsNotBooked ==
    ASSUME StartedInv, MinuteComes
    PROVE  UNCHANGED Book!book
<1>1. part = "breakout15" /\ UNCHANGED <<part, bars>>
  BY DEF MinuteComes, NextMinute, Ambiguous
<1>2. report.first = RunDay(bars, << >>) /\ report'.first = RunDay(bars, << >>)
  BY <1>1 DEF StartedInv, BacktestsInv, MinuteComes, Report
<1> QED
  BY <1>1, <1>2, MinuteLeavesBook

\* The backtests implement the trade book: whatever the prices, the settings and
\* the length of the history, a report on a longer history only continues that
\* of the shorter one.
THEOREM BacktestsImplementBook == BacktestsSpec => TradesAreOnline
<1>1. BacktestsInit => Book!Init
  <2> SUFFICES ASSUME BacktestsInit
               PROVE  Book!Init
    OBVIOUS
  <2>1. part \in Engines /\ IsHistory(bars) /\ Untraded(part, bars) /\ report = Report(part, bars, << >>)
    BY BacktestsAssumption, SeriesAssumption DEF BacktestsInit, Init, BreakoutInit
  <2> QED
    BY <2>1, NoBookYet
<1>2. StartedInv /\ [BacktestsNext]_vars => [Book!Next]_(Book!book)
  <2> SUFFICES ASSUME StartedInv, [BacktestsNext]_vars
               PROVE  Book!Next \/ UNCHANGED Book!book
    OBVIOUS
  <2>1. CASE CandleComes
    BY <2>1, CandleIsBooked
  <2>2. CASE MinuteComes
    BY <2>2, MinuteIsNotBooked
  <2>3. CASE UNCHANGED vars
    BY <2>3, BookStays DEF vars
  <2> QED
    BY <2>1, <2>2, <2>3 DEF BacktestsNext
<1>3. BacktestsSpec => []StartedInv
  BY StartedInvariant
<1> QED
  BY <1>1, <1>2, <1>3, PTL DEF BacktestsSpec, TradesAreOnline, Book!Spec

-----------------------------------------------------------------------------
(* What follows from it: trades do not overlap, and booked ones stay.      *)

Booked(c) == {c[k] : k \in 1 .. Len(c)}

\* The book is a sequence, whatever the trades are, and candles are counted.
BookTypeOK ==
    /\ Len(bars) \in Nat
    /\ BookedTrades \in Seq(Booked(BookedTrades))
    /\ \A t \in Position : t.entryAt \in Nat
    /\ \A k \in 1 .. Len(BookedTrades) : BookedTrades[k].entryAt \in Nat /\ BookedTrades[k].exitAt \in Nat

BookInv == BookTypeOK /\ Book!OneAtATime

-----------------------------------------------------------------------------
\* Booking a trade leaves the earlier ones where they are.
LEMMA BookingAppends ==
    ASSUME NEW c, c \in Seq(Booked(c)), NEW t, NEW d, d = Append(c, t)
    PROVE  /\ Len(c) \in Nat
           /\ Len(d) = Len(c) + 1
           /\ \A k \in 1 .. Len(c) : d[k] = c[k]
           /\ d[Len(c) + 1] = t
           /\ d \in Seq(Booked(d))
<1> DEFINE S == Booked(c) \cup {t}
<1>1. c \in Seq(S)
  <2>1. Booked(c) \subseteq S
    OBVIOUS
  <2> HIDE DEF S
  <2> QED
    BY <2>1, SeqMonotonic
<1>2. t \in S
  OBVIOUS
<1> HIDE DEF S
<1>3. /\ Len(c) \in Nat
      /\ d \in Seq(S)
      /\ Len(d) = Len(c) + 1
      /\ \A k \in 1 .. Len(c) : d[k] = c[k]
      /\ d[Len(c) + 1] = t
  BY <1>1, <1>2, LenProperties
<1>4. S \subseteq Booked(d)
  BY <1>3 DEF S, Booked
<1>5. d \in Seq(Booked(d))
  BY <1>3, <1>4, SeqMonotonic
<1> QED
  BY <1>3, <1>5

\* A trade that ends on the new candle and did not begin before the last one
\* ended may be booked.
LEMMA BookingKeepsOrder ==
    ASSUME BookInv, Len(bars') = Len(bars) + 1, NEW t, Book!Books(t), t.entryAt \in Nat, t.entryAt <= Len(bars'),
           \A k \in 1 .. Len(BookedTrades) : BookedTrades[k].exitAt <= t.entryAt,
           Position' = {} \/ \E u : Position' = {u} /\ u.entryAt = Len(bars')
    PROVE  BookInv'
<1> DEFINE n == Len(BookedTrades)
<1>1. /\ n \in Nat
      /\ Len(BookedTrades') = n + 1
      /\ \A k \in 1 .. n : BookedTrades'[k] = BookedTrades[k]
      /\ BookedTrades'[n + 1] = t
      /\ BookedTrades' \in Seq(Booked(BookedTrades'))
  <2>1. BookedTrades \in Seq(Booked(BookedTrades)) /\ BookedTrades' = Append(BookedTrades, t)
    BY DEF BookInv, BookTypeOK, Book!Books
  <2>2. /\ n \in Nat
        /\ Len(BookedTrades') = n + 1
        /\ \A k \in 1 .. n : BookedTrades'[k] = BookedTrades[k]
        /\ BookedTrades'[n + 1] = t
    BY <2>1, BookingAppends
  <2>3. BookedTrades' \in Seq(Booked(BookedTrades'))
    BY <2>1, BookingAppends DEF Booked
  <2> QED
    BY <2>2, <2>3
<1>2. t.exitAt = Len(bars') /\ Len(bars) \in Nat /\ Len(bars') \in Nat
  BY DEF Book!Books, BookInv, BookTypeOK
<1>3. \A k \in 1 .. n : /\ BookedTrades[k].entryAt \in Nat /\ BookedTrades[k].exitAt \in Nat
                        /\ BookedTrades[k].entryAt <= BookedTrades[k].exitAt /\ BookedTrades[k].exitAt <= Len(bars)
  BY DEF BookInv, BookTypeOK, Book!OneAtATime
<1> HIDE DEF n
<1>4. \A k \in 1 .. Len(BookedTrades') : /\ BookedTrades'[k].entryAt \in Nat /\ BookedTrades'[k].exitAt \in Nat
                                   /\ BookedTrades'[k].entryAt <= BookedTrades'[k].exitAt /\ BookedTrades'[k].exitAt <= Len(bars')
  <2> TAKE k \in 1 .. Len(BookedTrades')
  <2>1. CASE k \in 1 .. n
    BY <2>1, <1>1, <1>2, <1>3
  <2>2. CASE k = n + 1
    BY <2>2, <1>1, <1>2
  <2> QED
    BY <2>1, <2>2, <1>1
<1>5. \A j, k \in 1 .. Len(BookedTrades') : j < k => BookedTrades'[j].exitAt <= BookedTrades'[k].entryAt
  <2> TAKE j, k \in 1 .. Len(BookedTrades')
  <2> HAVE j < k
  <2>1. j \in 1 .. n
    BY <1>1
  <2>2. CASE k \in 1 .. n
    <3>1. BookedTrades[j].exitAt <= BookedTrades[k].entryAt
      BY <2>1, <2>2 DEF n, BookInv, Book!OneAtATime
    <3> QED
      BY <3>1, <2>1, <2>2, <1>1
  <2>3. CASE k = n + 1
    BY <2>1, <2>3, <1>1 DEF n
  <2> QED
    BY <2>2, <2>3, <1>1
<1>6. \A u \in Position' : u.entryAt = Len(bars')
  OBVIOUS
<1>7. BookTypeOK'
  BY <1>1, <1>2, <1>4, <1>6 DEF BookTypeOK
<1>8. Book!OneAtATime'
  BY <1>2, <1>4, <1>5, <1>6 DEF Book!OneAtATime
<1> QED
  BY <1>7, <1>8 DEF BookInv

\* A candle on which nothing is booked and no position is entered earlier than
\* the one that is open.
LEMMA QuietCandleKeepsOrder ==
    ASSUME BookInv, Len(bars') = Len(bars) + 1, UNCHANGED BookedTrades,
           \A u \in Position' : u.entryAt = Len(bars') \/ \E t \in Position : u.entryAt = t.entryAt
    PROVE  BookInv'
<1>1. Len(bars) \in Nat /\ Len(bars') \in Nat
  BY DEF BookInv, BookTypeOK
<1>2. \A k \in 1 .. Len(BookedTrades) : BookedTrades[k].exitAt \in Nat /\ BookedTrades[k].exitAt <= Len(bars)
  BY DEF BookInv, BookTypeOK, Book!OneAtATime
<1>3. \A u \in Position' : /\ u.entryAt \in Nat /\ u.entryAt <= Len(bars')
                       /\ \A k \in 1 .. Len(BookedTrades) : BookedTrades[k].exitAt <= u.entryAt
  <2> TAKE u \in Position'
  <2>1. CASE u.entryAt = Len(bars')
    BY <2>1, <1>1, <1>2
  <2>2. ASSUME NEW t \in Position, u.entryAt = t.entryAt
        PROVE  /\ u.entryAt \in Nat /\ u.entryAt <= Len(bars')
               /\ \A k \in 1 .. Len(BookedTrades) : BookedTrades[k].exitAt <= u.entryAt
    BY <2>2, <1>1 DEF BookInv, BookTypeOK, Book!OneAtATime
  <2> QED
    BY <2>1, <2>2
<1>4. BookTypeOK'
  BY <1>1, <1>3 DEF BookInv, BookTypeOK
<1>5. Book!OneAtATime'
  BY <1>1, <1>2, <1>3 DEF BookInv, BookTypeOK, Book!OneAtATime
<1> QED
  BY <1>4, <1>5 DEF BookInv

-----------------------------------------------------------------------------
\* The invariant of the book is inductive.
LEMMA BookInvariant == Book!Spec => []BookInv
<1>1. Book!Init => BookInv
  BY EmptySeq DEF Book!Init, BookInv, BookTypeOK, Book!OneAtATime
<1>2. BookInv /\ [Book!Next]_(Book!book) => BookInv'
  <2> SUFFICES ASSUME BookInv, [Book!Next]_(Book!book)
               PROVE  BookInv'
    OBVIOUS
  <2>1. CASE UNCHANGED Book!book
    BY <2>1 DEF Book!book, BookInv, BookTypeOK, Book!OneAtATime, Booked
  <2> SUFFICES ASSUME Book!Next
               PROVE  BookInv'
    BY <2>1
  <2>2. Len(bars') = Len(bars) + 1 /\ Len(bars) \in Nat
    BY DEF Book!Next, BookInv, BookTypeOK
  <2>3. \A k \in 1 .. Len(BookedTrades) : BookedTrades[k].exitAt \in Nat /\ BookedTrades[k].exitAt <= Len(bars)
    BY DEF BookInv, BookTypeOK, Book!OneAtATime
  <2>4. \A t \in Position : /\ t.entryAt \in Nat /\ t.entryAt <= Len(bars')
                        /\ \A k \in 1 .. Len(BookedTrades) : BookedTrades[k].exitAt <= t.entryAt
    BY <2>2 DEF BookInv, BookTypeOK, Book!OneAtATime
  <2>5. CASE Book!Hold
    BY <2>5, <2>2, QuietCandleKeepsOrder DEF Book!Hold
  <2>6. CASE Book!Enter
    BY <2>6, <2>2, QuietCandleKeepsOrder DEF Book!Enter, Book!Fresh
  <2>7. CASE Book!Trail
    BY <2>7, <2>2, QuietCandleKeepsOrder DEF Book!Trail, Book!SameTrade
  <2>8. CASE Book!Exit
    <3>1. PICK t \in Position : Book!SameTrade(t, Book!NewlyBooked)
      BY <2>8 DEF Book!Exit
    <3> QED
      BY <2>8, <3>1, <2>2, <2>4, BookingKeepsOrder DEF Book!Exit, Book!SameTrade
  <2>9. CASE Book!Reverse
    <3>1. PICK t \in Position : Book!SameTrade(t, Book!NewlyBooked)
      BY <2>9 DEF Book!Reverse
    <3>2. \E u : Position' = {u} /\ u.entryAt = Len(bars')
      BY <2>9 DEF Book!Reverse, Book!Fresh
    <3> QED
      BY <2>9, <3>1, <3>2, <2>2, <2>4, BookingKeepsOrder DEF Book!Reverse, Book!SameTrade
  <2>10. CASE Book!InAndOut
    <3>1. Book!NewlyBooked.entryAt = Len(bars') /\ Len(bars') \in Nat /\ Position' = {} /\ Book!Books(Book!NewlyBooked)
      BY <2>10, <2>2 DEF Book!InAndOut, Book!Fresh
    <3>2. \A k \in 1 .. Len(BookedTrades) : BookedTrades[k].exitAt <= Book!NewlyBooked.entryAt
      BY <3>1, <2>2, <2>3
    <3> QED
      BY <3>1, <3>2, <2>2, BookingKeepsOrder
  <2> QED
    BY <2>5, <2>6, <2>7, <2>8, <2>9, <2>10 DEF Book!Next
<1> QED
  BY <1>1, <1>2, PTL DEF Book!Spec

\* No backtest holds two positions at once or books a trade of the future, on any
\* history and under any settings.
THEOREM TradesDoNotOverlap == BacktestsSpec => []Book!OneAtATime
<1>1. BookInv => Book!OneAtATime
  BY DEF BookInv
<1>2. BacktestsSpec => Book!Spec
  BY BacktestsImplementBook DEF TradesAreOnline
<1> QED
  BY <1>1, <1>2, BookInvariant, PTL

\* What has been booked is never rewritten: no backtest looks ahead for the trades
\* it reports.
THEOREM BookedTradesAreKept == BacktestsSpec => Book!BookedIsKept
<1> DEFINE Kept == \A k \in 1 .. Len(BookedTrades) : k \in 1 .. Len(BookedTrades') /\ BookedTrades'[k] = BookedTrades[k]
<1>1. BookInv /\ [Book!Next]_(Book!book) => [Kept]_(Book!book)
  <2> SUFFICES ASSUME BookInv, Book!Next
               PROVE  Kept
    OBVIOUS
  <2>1. CASE UNCHANGED BookedTrades
    BY <2>1
  <2>2. ASSUME NEW t, Book!Books(t)
        PROVE  Kept
    <3>1. BookedTrades \in Seq(Booked(BookedTrades)) /\ BookedTrades' = Append(BookedTrades, t)
      BY <2>2 DEF BookInv, BookTypeOK, Book!Books
    <3>2. /\ Len(BookedTrades) \in Nat /\ Len(BookedTrades') = Len(BookedTrades) + 1
          /\ \A k \in 1 .. Len(BookedTrades) : BookedTrades'[k] = BookedTrades[k]
      BY <3>1, BookingAppends
    <3> QED
      BY <3>2
  <2> QED
    BY <2>1, <2>2 DEF Book!Next, Book!Hold, Book!Enter, Book!Trail, Book!Exit, Book!Reverse, Book!InAndOut
<1> HIDE DEF Kept
<1>2. Book!Spec => [][Kept]_(Book!book)
  BY <1>1, BookInvariant, PTL DEF Book!Spec
<1>3. BacktestsSpec => Book!Spec
  BY BacktestsImplementBook DEF TradesAreOnline
<1> QED
  BY <1>2, <1>3 DEF Kept, Book!BookedIsKept

-----------------------------------------------------------------------------
(* A breakout day without a data flag.                                     *)

\* No candle is missing between the base and the exit.
LEMMA NoneMissing ==
    ASSUME NEW s, IsHistory(s), Missing(s) = 0, BaseAt(s) # {}
    PROVE  \A k \in BaseSlot .. ExitSlot : \E i \in 1 .. Len(s) : s[i].day = k
<1> DEFINE A == AfterAt(s)
           T == BaseSlot + 1 .. ExitSlot
           f == [i \in A |-> s[i].day]
<1>1. BaseSlot \in Nat /\ ExitSlot \in Nat /\ Len(s) \in Nat /\ \A i \in 1 .. Len(s) : s[i].day \in Nat
  BY BreakoutAssumption, HistoryIs
<1>2. A \in SUBSET (1 .. Len(s)) /\ IsFiniteSet(A) /\ Cardinality(A) \in Nat
  <2>1. A \in SUBSET (1 .. Len(s))
    BY DEF AfterAt
  <2>2. IsFiniteSet(A)
    BY <1>1, <2>1, Places
  <2> QED
    BY <2>1, <2>2, FS_CardinalityType
<1>3. Cardinality(A) = ExitSlot - BaseSlot
  <2>1. ExitSlot - BaseSlot - Len(After(s)) = 0 /\ Len(After(s)) = Cardinality(AfterAt(s))
    BY AfterIs DEF Missing
  <2> QED
    BY <1>1, <1>2, <2>1
<1>4. IsFiniteSet(T) /\ Cardinality(T) = Cardinality(A)
  <2>1. IsFiniteSet(T) /\ Cardinality(T) = IF BaseSlot + 1 > ExitSlot THEN 0 ELSE ExitSlot - (BaseSlot + 1) + 1
    BY <1>1, FS_Interval
  <2> HIDE DEF A, T
  <2> QED
    BY <1>1, <1>2, <1>3, <2>1
<1>5. f \in Injection(A, T)
  <2>1. \A i \in A : s[i].day \in T
    BY <1>1, <1>2 DEF AfterAt
  <2>2. f \in [A -> T]
    BY <2>1
  <2>3. ASSUME NEW i \in A, NEW j \in A, f[i] = f[j]
        PROVE  i = j
    <3>1. i \in 1 .. Len(s) /\ j \in 1 .. Len(s) /\ s[i].day = s[j].day /\ s[i].day \in Nat
      BY <1>1, <1>2, <2>3
    <3>2. ~(i < j) /\ ~(j < i)
      BY <3>1, HistoryIs
    <3> QED
      BY <3>1, <3>2
  <2> HIDE DEF f
  <2> QED
    BY <2>2, <2>3, Fun_IsInj
<1>6. f \in Surjection(A, T)
  <2> HIDE DEF A, T, f
  <2> QED
    BY <1>4, <1>5, FS_Injection
<1>7. \A k \in T : \E i \in A : s[i].day = k
  <2>1. \A k \in T : \E i \in A : f[i] = k
    <3> HIDE DEF A, T, f
    <3> QED
      BY <1>6 DEF Surjection
  <2> QED
    BY <2>1
<1>8. \E i \in 1 .. Len(s) : s[i].day = BaseSlot
  BY DEF BaseAt
<1>9. \A k \in BaseSlot .. ExitSlot : k = BaseSlot \/ k \in T
  BY <1>1
<1> QED
  BY <1>2, <1>7, <1>8, <1>9

\* The day of an ambiguous candle is stopped out, and no fill of it is earlier
\* than its entry.
LEMMA ResolvedIs ==
    ASSUME NEW after, NEW k, NEW missing, NEW first, NEW ms, IsHistory(ms), Unclear(after[k], first)
    PROVE  LET r == Broken(after, k, missing, first, ms)
           IN /\ r.reason = "STOP_LOSS"
              /\ r.exitMinute < r.minute => "stop assumed" \in r.flags
<1> DEFINE eb == after[k]
           r0 == [NoDay EXCEPT !.breakout = eb.day]
           h == first.h
           l == first.l
           res == ResolveSide(ms, h, l)
           stop == StopOf(res.side, h, l)
           hit == {j \in res.at .. Len(ms) : Stopped(ms[j], res.side, stop)}
           tied == IF res.tie THEN {"AMBIGUOUS"} ELSE {}
           entry == EntryPrice(ms[res.at], res.side, h, l)
           entered == [r0 EXCEPT !.side = res.side, !.stop = stop, !.minute = ms[res.at].day,
                                 !.entry = entry, !.exitAt = eb.day,
                                 !.reason = "STOP_LOSS", !.flags = @ \cup tied]
           fill == StopFill(ms[Min(hit)], res.side, stop)
           r == Broken(after, k, missing, first, ms)
<1>1. r = ResolvedDay(r0, eb, ms, res, h, l)
  BY Zenon DEF Broken, AmbiguousDay
<1>2. r = IF res.side = "none"
          THEN [r0 EXCEPT !.side = "BOTH", !.exitAt = eb.day, !.reason = "STOP_LOSS", !.flags = @ \cup {"AMBIGUOUS"}]
          ELSE IF hit = {} THEN [entered EXCEPT !.exit = stop, !.flags = @ \cup {"stop assumed"}]
          ELSE [entered EXCEPT !.exit = fill, !.exitMinute = ms[Min(hit)].day]
  BY <1>1, Zenon DEF ResolvedDay
<1>3. /\ r0.minute = 0 /\ r0.exitMinute = 0
      /\ DOMAIN r0 = {"side", "breakout", "minute", "entry", "stop", "exitAt", "exitMinute", "exit", "reason", "flags"}
  BY DEF NoDay
<1>4. res.side # "none" => res.at \in 1 .. Len(ms)
  <2> DEFINE broken == {j \in 1 .. Len(ms) : Breaks(ms[j], h, l)}
  <2>1. broken = {} => res = [side |-> "none"]
    BY DEF ResolveSide
  <2>2. broken # {} => res.at = Min(broken)
    BY DEF ResolveSide
  <2>3. broken \in SUBSET (1 .. Len(ms)) /\ broken \in SUBSET Nat
    OBVIOUS
  <2> HIDE DEF broken, res
  <2>4. broken # {} => Min(broken) \in 1 .. Len(ms)
    BY <2>3, MinIs
  <2> QED
    BY <2>1, <2>2, <2>4
<1>5. res.side # "none" /\ hit # {} => ms[res.at].day <= ms[Min(hit)].day
  <2> HAVE res.side # "none" /\ hit # {}
  <2> DEFINE a == res.at
             b == Min(hit)
  <2>1. a \in 1 .. Len(ms) /\ Len(ms) \in Nat
    BY <1>4, HistoryIs
  <2>2. b \in a .. Len(ms)
    <3>1. hit \in SUBSET (a .. Len(ms)) /\ hit \in SUBSET Nat
      BY <2>1
    <3> HIDE DEF hit, a
    <3> QED
      BY <3>1, MinIs
  <2> HIDE DEF a, b, hit, res
  <2>3. a < b \/ a = b
    BY <2>1, <2>2
  <2>4. b \in 1 .. Len(ms)
    BY <2>1, <2>2
  <2>5. ms[a].day <= ms[b].day
    BY <2>1, <2>3, <2>4, HistoryIs
  <2> QED
    BY <2>5 DEF a, b
<1>6. /\ entered.minute = ms[res.at].day /\ entered.exitMinute = 0 /\ entered.reason = "STOP_LOSS"
      /\ DOMAIN entered = DOMAIN r0
  BY <1>3
<1> HIDE DEF r, r0, entered, hit, res, stop, fill, entry, tied, eb, h, l
<1>7. CASE res.side = "none"
  <2>1. r.reason = "STOP_LOSS" /\ r.minute = 0 /\ r.exitMinute = 0
    BY <1>2, <1>3, <1>7
  <2> QED
    BY <2>1 DEF r
<1>8. CASE res.side # "none" /\ hit = {}
  <2>1. r.reason = "STOP_LOSS" /\ "stop assumed" \in r.flags
    BY <1>2, <1>3, <1>6, <1>8
  <2> QED
    BY <2>1 DEF r
<1>9. CASE res.side # "none" /\ hit # {}
  <2>1. r.reason = "STOP_LOSS" /\ r.minute = ms[res.at].day /\ r.exitMinute = ms[Min(hit)].day
    BY <1>2, <1>3, <1>6, <1>9
  <2>2. r.minute <= r.exitMinute
    BY <1>5, <1>9, <2>1
  <2>3. Min(hit) \in 1 .. Len(ms) /\ res.at \in 1 .. Len(ms) /\ Len(ms) \in Nat
    <3>1. res.at \in 1 .. Len(ms) /\ Len(ms) \in Nat
      BY <1>4, <1>9, HistoryIs
    <3>2. hit \in SUBSET (res.at .. Len(ms)) /\ hit \in SUBSET Nat
      BY <3>1 DEF hit
    <3>3. Min(hit) \in res.at .. Len(ms)
      BY <1>9, <3>2, MinIs
    <3> QED
      BY <3>1, <3>3
  <2>4. r.minute \in Nat /\ r.exitMinute \in Nat
    BY <2>1, <2>3, HistoryIs
  <2>5. r.reason = "STOP_LOSS" /\ ~(r.exitMinute < r.minute)
    BY <2>1, <2>2, <2>4
  <2> QED
    BY <2>5 DEF r
<1> QED
  BY <1>7, <1>8, <1>9

\* On any history and any minutes: a day that ends by the clock, or without a
\* trade and a flag, has all of its candles, and a fill that comes before its
\* entry is flagged.  (Days that were stopped out are left out, as in the code.)
THEOREM VerifiedExitsAreWhole == BacktestsSpec => []VerifiedExitIsWhole
<1>1. BacktestsInv => VerifiedExitIsWhole
  <2> SUFFICES ASSUME BacktestsInv, part = "breakout15"
               PROVE  VerifiedExitIsWhole
    BY DEF VerifiedExitIsWhole
  <2> DEFINE r == report.day
             s == bars
             k == Min(Outs(bars))
  <2>1. r = RunDay(s, minutes) /\ IsHistory(s) /\ IsHistory(minutes)
    BY DEF BacktestsInv, Report
  <2> SUFFICES /\ r.reason \in {"MARKET_CLOSE", "TIMED_EXIT"} \/ (r.reason = "NO_ENTRY" /\ r.flags = {}) =>
                      Missing(s) = 0 /\ BaseAt(s) # {}
               /\ r.exitMinute < r.minute => "stop assumed" \in r.flags
    BY <2>1, NoneMissing DEF VerifiedExitIsWhole
  <2> HIDE DEF r, s, k
  <2>2. CASE BaseAt(s) = {}
    <3>1. r = [NoDay EXCEPT !.reason = "DATA_INCOMPLETE", !.flags = {"no base"}]
      BY <2>1, <2>2, RunDayIs
    <3>2. r.reason = "DATA_INCOMPLETE" /\ r.minute = 0 /\ r.exitMinute = 0
      BY <3>1 DEF NoDay
    <3> QED
      BY <3>2
  <2>3. CASE BaseAt(s) # {} /\ Outs(s) = {}
    <3> DEFINE few == IF Missing(s) # 0 THEN {"incomplete"} ELSE {}
    <3>1. r = [NoDay EXCEPT !.flags = few]
      BY <2>1, <2>3, RunDayIs
    <3> HIDE DEF few
    <3>2. r.flags = few /\ r.reason = "NO_ENTRY" /\ r.minute = 0 /\ r.exitMinute = 0
      BY <3>1 DEF NoDay
    <3> QED
      BY <2>3, <3>2 DEF few
  <2>4. CASE BaseAt(s) # {} /\ Outs(s) # {}
    <3>1. r = Broken(After(s), k, Missing(s), Base(s), minutes)
      BY <2>1, <2>4, RunDayIs DEF k, s
    <3>2. CASE Unclear(After(s)[k], Base(s))
      <4>1. r.reason = "STOP_LOSS" /\ (r.exitMinute < r.minute => "stop assumed" \in r.flags)
        BY <2>1, <3>1, <3>2, ResolvedIs
      <4> QED
        BY <4>1
    <3>3. CASE ~Unclear(After(s)[k], Base(s))
      <4> DEFINE hit == Hits(After(s), k, Base(s))
                 last == After(s)[Len(After(s))]
      <4>1. /\ r.minute = 0 /\ r.exitMinute = 0
            /\ hit # {} => r.reason = "STOP_LOSS"
            /\ hit = {} => r.reason = TimedExit(last, Missing(s))
        BY <3>1, <3>3, ClearIs
      <4> HIDE DEF hit, last
      <4>2. r.reason \in {"MARKET_CLOSE", "TIMED_EXIT"} => Missing(s) = 0
        BY <4>1 DEF TimedExit
      <4>3. r.reason # "NO_ENTRY"
        BY <4>1 DEF TimedExit
      <4> QED
        BY <2>4, <4>1, <4>2, <4>3
    <3> QED
      BY <3>2, <3>3
  <2> QED
    BY <2>2, <2>3, <2>4
<1> QED
  BY <1>1, BacktestsHistory, PTL

-----------------------------------------------------------------------------
(* Reports: the candles they are about.                                    *)

\* The candles of one history are all in another.
Within(s, t) == \A i \in 1 .. Len(s) : \E j \in 1 .. Len(t) : t[j] = s[i]

\* A history that holds the candles of another, and no more, begins with it.
LEMMA BeginsAlike ==
    ASSUME NEW s, IsHistory(s), NEW t, IsHistory(t), Within(s, t), Within(t, s)
    PROVE  \A i \in 1 .. Len(s) : i \in 1 .. Len(t) /\ t[i] = s[i]
<1>1. /\ s \in Seq(CandleSet) /\ Len(s) \in Nat
      /\ \A i \in 1 .. Len(s) : s[i].day \in Nat
      /\ \A i, j \in 1 .. Len(s) : i < j => s[i].day < s[j].day
  BY HistoryIs
<1>2. /\ t \in Seq(CandleSet) /\ Len(t) \in Nat
      /\ \A i \in 1 .. Len(t) : t[i].day \in Nat
      /\ \A i, j \in 1 .. Len(t) : i < j => t[i].day < t[j].day
  BY HistoryIs
<1> DEFINE Bad == {i \in 1 .. Len(s) : ~(i \in 1 .. Len(t) /\ t[i] = s[i])}
<1> SUFFICES ASSUME Bad # {}
             PROVE  FALSE
  OBVIOUS
<1>3. PICK k \in Bad : \A i \in Bad : k <= i
  <2>1. Bad \in SUBSET Nat
    OBVIOUS
  <2> HIDE DEF Bad
  <2> QED
    BY <2>1, LeastNat
<1>4. k \in 1 .. Len(s) /\ ~(k \in 1 .. Len(t) /\ t[k] = s[k])
  BY <1>3
<1>5. \A i \in 1 .. Len(s) : i < k => i \in 1 .. Len(t) /\ t[i] = s[i]
  BY <1>3, <1>4
<1> HIDE DEF Bad
<1>6. PICK j \in 1 .. Len(t) : t[j] = s[k]
  BY <1>4 DEF Within
<1>7. ASSUME NEW i \in 1 .. Len(s), s[i].day = s[k].day
      PROVE  ~(i < k)
  <2>1. i < k => s[i].day < s[k].day
    BY <1>1, <1>4
  <2>2. s[i].day \in Nat /\ s[k].day \in Nat
    BY <1>1, <1>4
  <2> QED
    BY <1>7, <2>1, <2>2
<1>8. ~(j < k)
  <2> SUFFICES ASSUME j < k
               PROVE  FALSE
    OBVIOUS
  <2>1. j \in 1 .. Len(s)
    BY <1>1, <1>4
  <2>2. s[j] = s[k]
    BY <1>5, <1>6, <2>1
  <2> QED
    BY <1>7, <2>1, <2>2
<1>9. k \in 1 .. Len(t) /\ k < j
  <2>1. k \in 1 .. Len(t) /\ k <= j
    BY <1>2, <1>4, <1>8
  <2>2. k # j
    BY <1>4, <1>6, <2>1
  <2> QED
    BY <1>4, <2>1, <2>2
<1>10. t[k].day < s[k].day
  <2>1. t[k].day < t[j].day
    BY <1>2, <1>9
  <2> QED
    BY <1>6, <2>1
<1>11. PICK i \in 1 .. Len(s) : s[i] = t[k]
  BY <1>9 DEF Within
<1>12. i < k
  <2>1. s[i].day < s[k].day /\ s[i].day \in Nat /\ s[k].day \in Nat
    BY <1>1, <1>4, <1>10, <1>11
  <2>2. k < i => s[k].day < s[i].day
    BY <1>1, <1>4
  <2>3. i # k
    BY <2>1
  <2> QED
    BY <1>4, <2>1, <2>2, <2>3
<1>13. i \in 1 .. Len(t) /\ t[i] = t[k]
  BY <1>5, <1>11, <1>12
<1>14. t[i].day < t[k].day /\ t[k].day \in Nat
  BY <1>2, <1>9, <1>12, <1>13
<1> QED
  BY <1>13, <1>14

\* Histories with the same candles are equal.
LEMMA SameHistory ==
    ASSUME NEW s, IsHistory(s), NEW t, IsHistory(t), Within(s, t), Within(t, s)
    PROVE  s = t
<1>1. s \in Seq(CandleSet) /\ t \in Seq(CandleSet) /\ Len(s) \in Nat /\ Len(t) \in Nat
  BY HistoryIs
<1>2. \A i \in 1 .. Len(s) : i \in 1 .. Len(t) /\ t[i] = s[i]
  BY BeginsAlike
<1>3. \A i \in 1 .. Len(t) : i \in 1 .. Len(s)
  BY BeginsAlike
<1>4. Len(s) = Len(t)
  <2>1. Len(s) # 0 => Len(s) \in 1 .. Len(s)
    BY <1>1
  <2>2. Len(t) # 0 => Len(t) \in 1 .. Len(t)
    BY <1>1
  <2> QED
    BY <1>1, <1>2, <1>3, <2>1, <2>2
<1> QED
  BY <1>1, <1>2, <1>4, SameSequence

\* What is picked from a history is one, of the candles at the places.
LEMMA PickHistory ==
    ASSUME NEW s, IsHistory(s), NEW S \in SUBSET (1 .. Len(s))
    PROVE  /\ IsHistory(Pick(s, S))
           /\ \A k \in 1 .. Len(Pick(s, S)) : \E i \in S : Pick(s, S)[k] = s[i]
           /\ \A i \in S : \E k \in 1 .. Len(Pick(s, S)) : Pick(s, S)[k] = s[i]
<1> DEFINE p == Pick(s, S)
           n == Cardinality(S)
<1>1. /\ s \in Seq(CandleSet) /\ Len(s) \in Nat
      /\ \A i \in 1 .. Len(s) : s[i].day \in Nat \ {0}
      /\ \A i, j \in 1 .. Len(s) : i < j => s[i].day < s[j].day
  BY HistoryIs
<1>2. /\ n \in Nat /\ p \in Seq(CandleSet) /\ Len(p) = n
      /\ \A k \in 1 .. n : Nth(S, k) \in S /\ Nth(S, k) \in 1 .. Len(s) /\ p[k] = s[Nth(S, k)]
  BY <1>1, PickIs
<1>3. IsFiniteSet(S) /\ S \in SUBSET Nat
  BY <1>1, Places
<1>4. \A j, k \in 1 .. n : j < k => Nth(S, j) < Nth(S, k)
  BY <1>3, NthOrder
<1>5. \A i \in S : \E k \in 1 .. n : Nth(S, k) = i
  BY <1>3, NthIs
<1> HIDE DEF p, n
<1>6. IsHistory(p)
  <2> SUFFICES ASSUME NEW k \in 1 .. n
               PROVE  p[k].day > IF k = 1 THEN 0 ELSE p[k - 1].day
    BY <1>2 DEF IsHistory
  <2>1. CASE k = 1
    <3>1. p[k].day \in Nat \ {0}
      BY <1>1, <1>2
    <3> QED
      BY <2>1, <3>1
  <2>2. CASE k # 1
    <3>1. k - 1 \in 1 .. n /\ k - 1 < k
      BY <1>2, <2>2
    <3>2. Nth(S, k - 1) < Nth(S, k)
      BY <1>4, <3>1
    <3>3. s[Nth(S, k - 1)].day < s[Nth(S, k)].day /\ s[Nth(S, k - 1)].day \in Nat /\ s[Nth(S, k)].day \in Nat
      BY <1>1, <1>2, <3>1, <3>2
    <3>4. p[k - 1].day < p[k].day /\ p[k].day \in Nat /\ p[k - 1].day \in Nat
      BY <1>2, <3>1, <3>3
    <3> QED
      BY <2>2, <3>4
  <2> QED
    BY <2>1, <2>2
<1>7. \A k \in 1 .. Len(p) : \E i \in S : p[k] = s[i]
  BY <1>2
<1>8. \A i \in S : \E k \in 1 .. Len(p) : p[k] = s[i]
  BY <1>2, <1>5
<1> QED
  BY <1>6, <1>7, <1>8 DEF p

\* Cutting the window out of what was fetched is cutting it out of the history,
\* when the fetch reaches back to its start (_fetch_ohlcv).
LEMMA WindowOfFetched ==
    ASSUME ReachesBack, NEW s, IsHistory(s), NEW from \in Nat, NEW to \in Nat
    PROVE  TopBottomWindow(s, LastDay(s), from, to) = Windowed(s, from, to)
<1> DEFINE days == MaxOf(LookbackDays, LastDay(s) - from + 5)
           R == {i \in 1 .. Len(s) : s[i].day >= LastDay(s) - days}
           f == Fetched(s, LastDay(s), from)
           W == {i \in 1 .. Len(s) : from <= s[i].day /\ s[i].day <= to}
           V == {i \in 1 .. Len(f) : from <= f[i].day /\ f[i].day <= to}
           a == Windowed(s, from, to)
           b == Windowed(f, from, to)
<1>1. /\ LastDay(s) \in Nat /\ LookbackDays \in Nat /\ \A i \in 1 .. Len(s) : s[i].day \in Nat
  BY HistoryIs, TopBottomAssumption
<1>2. f = Pick(s, R)
  BY DEF Fetched
<1>3. /\ IsHistory(f)
      /\ \A k \in 1 .. Len(f) : \E i \in R : f[k] = s[i]
      /\ \A i \in R : \E k \in 1 .. Len(f) : f[k] = s[i]
  <2>1. R \in SUBSET (1 .. Len(s))
    OBVIOUS
  <2> HIDE DEF R
  <2> QED
    BY <1>2, <2>1, PickHistory
<1>4. W \in SUBSET R
  <2> SUFFICES ASSUME NEW i \in W
               PROVE  i \in R
    OBVIOUS
  <2>1. i \in 1 .. Len(s) /\ from <= s[i].day /\ s[i].day \in Nat
    BY <1>1
  <2>2. LastDay(s) - from + 5 <= days /\ days \in Int
    BY <1>1 DEF MaxOf
  <2> HIDE DEF days
  <2>3. s[i].day >= LastDay(s) - days
    BY <1>1, <2>1, <2>2
  <2> QED
    BY <2>1, <2>3
<1> HIDE DEF f
<1>5. /\ IsHistory(a)
      /\ \A k \in 1 .. Len(a) : \E i \in W : a[k] = s[i]
      /\ \A i \in W : \E k \in 1 .. Len(a) : a[k] = s[i]
  <2>1. W \in SUBSET (1 .. Len(s)) /\ a = Pick(s, W)
    BY DEF Windowed
  <2> HIDE DEF W, a
  <2> QED
    BY <2>1, PickHistory
<1>6. /\ IsHistory(b)
      /\ \A k \in 1 .. Len(b) : \E i \in V : b[k] = f[i]
      /\ \A i \in V : \E k \in 1 .. Len(b) : b[k] = f[i]
  <2>1. V \in SUBSET (1 .. Len(f)) /\ b = Pick(f, V)
    BY DEF Windowed
  <2> HIDE DEF V, b
  <2> QED
    BY <1>3, <2>1, PickHistory
<1>7. \A i \in V : \E j \in W : s[j] = f[i]
  <2> HIDE DEF R
  <2>1. R \in SUBSET (1 .. Len(s))
    BY DEF R
  <2> QED
    BY <1>3, <2>1
<1>8. \A j \in W : \E i \in V : f[i] = s[j]
  <2> HIDE DEF R
  <2> QED
    BY <1>3, <1>4
<1> HIDE DEF a, b, V, W
<1>9. a = b
  <2>1. Within(a, b)
    <3> SUFFICES ASSUME NEW i \in 1 .. Len(a)
                 PROVE  \E j \in 1 .. Len(b) : b[j] = a[i]
      BY DEF Within
    <3>1. PICK w \in W : a[i] = s[w]
      BY <1>5
    <3>2. PICK v \in V : f[v] = s[w]
      BY <1>8
    <3> QED
      BY <1>6, <3>1, <3>2
  <2>2. Within(b, a)
    <3> SUFFICES ASSUME NEW i \in 1 .. Len(b)
                 PROVE  \E j \in 1 .. Len(a) : a[j] = b[i]
      BY DEF Within
    <3>1. PICK v \in V : b[i] = f[v]
      BY <1>6
    <3>2. PICK w \in W : s[w] = f[v]
      BY <1>7
    <3> QED
      BY <1>5, <3>1, <3>2
  <2> QED
    BY <1>5, <1>6, <2>1, <2>2, SameHistory
<1> QED
  BY <1>9 DEF TopBottomWindow, a, b, f

\* No two candles are more than six days apart: a fetch that starts five days
\* before the requested range holds a candle before it.
NoLongHoles(s) == \A i \in 1 .. Len(s) - 1 : s[i + 1].day - s[i].day <= 6

LEMMA FetchReaches ==
    ASSUME ReachesBack, NEW s, IsHistory(s), NoLongHoles(s), NEW from \in Nat, NEW to \in Nat,
           s # << >>, from <= LastDay(s)
    PROVE  Complete(Fetched(s, LastDay(s), from), LastDay(s), from, to) <=> s[1].day <= from
<1> DEFINE today == LastDay(s)
           n == Len(s)
           days == MaxOf(LookbackDays, today - from + 5)
           R == {i \in 1 .. n : s[i].day >= today - days}
           f == Fetched(s, today, from)
<1>1. /\ s \in Seq(CandleSet) /\ today \in Nat /\ LookbackDays \in Nat
      /\ \A i \in 1 .. n : s[i].day \in Nat
      /\ \A i, j \in 1 .. n : i < j => s[i].day < s[j].day
  BY HistoryIs, TopBottomAssumption
<1>2. n \in Nat \ {0} /\ today = s[n].day
  BY <1>1, EmptySeq DEF LastDay
<1>3. days \in Nat /\ today - days <= from - 5
  BY <1>1 DEF MaxOf
<1>4. f = Pick(s, R) /\ R \in SUBSET (1 .. n)
  BY DEF Fetched
<1>5. s[1].day <= from => \E i \in R : s[i].day <= from
  <2> SUFFICES ASSUME s[1].day <= from
               PROVE  \E i \in R : s[i].day <= from
    OBVIOUS
  <2> DEFINE S == {i \in 1 .. n : s[i].day <= from}
             m == Max(S)
  <2>1. S # {} /\ S \in SUBSET (1 .. n)
    BY <1>2
  <2>2. IsFiniteSet(S) /\ S \in SUBSET Nat
    <3> HIDE DEF S
    <3> QED
      BY <1>2, <2>1, Places
  <2>3. m \in S /\ \A i \in S : i <= m
    <3> HIDE DEF S
    <3> QED
      BY <2>1, <2>2, MaxIs
  <2> HIDE DEF m
  <2>4. m \in 1 .. n /\ s[m].day <= from /\ s[m].day \in Nat
    BY <1>1, <2>3
  <2>5. s[m].day >= from - 5
    <3>1. CASE m = n
      BY <1>2, <2>4, <3>1
    <3>2. CASE m # n
      <4>1. m + 1 \in 1 .. n /\ m \in 1 .. n - 1
        BY <1>2, <2>4, <3>2
      <4>2. s[m + 1].day \in Nat /\ s[m + 1].day - s[m].day <= 6
        BY <1>1, <4>1 DEF NoLongHoles
      <4>3. ~(s[m + 1].day <= from)
        <5>1. ~(m + 1 <= m)
          BY <2>4
        <5> QED
          BY <2>3, <4>1, <5>1
      <4> QED
        BY <2>4, <4>2, <4>3
    <3> QED
      BY <3>1, <3>2
  <2>6. s[m].day >= today - days
    <3> HIDE DEF days
    <3> QED
      BY <1>1, <1>3, <2>4, <2>5
  <2> QED
    BY <2>4, <2>6
<1>6. n \in R
  <2> HIDE DEF days
  <2> QED
    BY <1>1, <1>2, <1>3
<1> HIDE DEF R, f, days, n
<1>7. /\ IsHistory(f)
      /\ \A k \in 1 .. Len(f) : \E i \in R : f[k] = s[i]
      /\ \A i \in R : \E k \in 1 .. Len(f) : f[k] = s[i]
  BY <1>4, PickHistory DEF n
<1>8. /\ f \in Seq(CandleSet) /\ Len(f) \in Nat /\ LastDay(f) \in Nat
      /\ \A i \in 1 .. Len(f) : f[i].day \in Nat /\ f[i].day <= LastDay(f)
      /\ \A i, j \in 1 .. Len(f) : i < j => f[i].day < f[j].day
  BY <1>7, HistoryIs
<1>9. s[1].day <= from => f[1].day <= from
  <2> SUFFICES ASSUME s[1].day <= from
               PROVE  f[1].day <= from
    OBVIOUS
  <2>1. PICK k \in 1 .. Len(f) : f[k].day <= from
    BY <1>5, <1>7
  <2>2. 1 \in 1 .. Len(f) /\ (k = 1 \/ 1 < k)
    BY <1>8
  <2> QED
    BY <1>8, <2>1, <2>2
<1>10. LastDay(f) >= MinOf(to, today)
  <2>1. PICK k \in 1 .. Len(f) : f[k] = s[n]
    BY <1>6, <1>7
  <2>2. LastDay(f) >= today
    BY <1>2, <1>8, <2>1
  <2> QED
    BY <1>1, <1>8, <2>2 DEF MinOf
<1>11. f[1].day <= from => s[1].day <= from
  <2>1. 1 \in 1 .. Len(f)
    <3>1. PICK k \in 1 .. Len(f) : f[k] = s[n]
      BY <1>6, <1>7
    <3> QED
      BY <1>8
  <2>2. PICK i \in R : f[1] = s[i]
    BY <1>7, <2>1
  <2>3. i \in 1 .. n
    BY <1>4, <2>2
  <2>4. s[1].day <= s[i].day /\ s[1].day \in Nat /\ s[i].day \in Nat
    <3>1. 1 \in 1 .. n /\ (i = 1 \/ 1 < i)
      BY <1>2, <2>3
    <3>2. s[1].day \in Nat /\ s[i].day \in Nat
      BY <1>1, <2>3, <3>1 DEF n
    <3> QED
      BY <1>1, <2>3, <3>1, <3>2 DEF n
  <2> QED
    BY <2>2, <2>4
<1> QED
  BY <1>9, <1>10, <1>11 DEF Complete, f

\* What the answer for the candles of a range has to be.
HonestAnswer(s, from, wanted, answer, valid) ==
    /\ answer.outcome = "done" <=> valid /\ wanted # << >>
    /\ answer.outcome = "done" => answer.trades = TopBottomTrades(Closes(wanted))
    /\ answer.outcome = "done" => (answer.complete <=> s[1].day <= from)

\* A Top-Bottom report of a range that the history reaches.
LEMMA TopBottomIsHonest ==
    ASSUME ReachesBack, NEW s, IsHistory(s), NoLongHoles(s),
           NEW from \in 1 .. LastDay(s), NEW to \in 1 .. LastDay(s)
    PROVE  HonestAnswer(s, from, Windowed(s, from, to), TopBottomReport(s, LastDay(s), from, to), from <= to)
<1> DEFINE wanted == Windowed(s, from, to)
           answer == TopBottomReport(s, LastDay(s), from, to)
           f == Fetched(s, LastDay(s), from)
           trades == TopBottomTrades(Closes(wanted))
           complete == Complete(f, LastDay(s), from, to)
<1>1. from \in Nat /\ to \in Nat /\ LastDay(s) \in Nat /\ from <= LastDay(s)
  BY HistoryIs
<1>2. TopBottomWindow(s, LastDay(s), from, to) = wanted
  BY <1>1, WindowOfFetched
<1>3. s # << >>
  BY <1>1 DEF LastDay
<1>4. complete <=> s[1].day <= from
  BY <1>1, <1>3, FetchReaches
<1>5. answer = IF from > to THEN [outcome |-> "invalid range"]
               ELSE IF wanted = << >> THEN [outcome |-> "insufficient data"]
               ELSE [outcome |-> "done", complete |-> complete, trades |-> trades]
  BY <1>2 DEF TopBottomReport
<1> HIDE DEF wanted, answer, f, trades, complete
<1> SUFFICES HonestAnswer(s, from, wanted, answer, from <= to)
  BY DEF wanted, answer
<1>6. CASE from > to
  <2>1. answer = [outcome |-> "invalid range"]
    BY <1>5, <1>6
  <2>2. answer.outcome = "invalid range" /\ answer.outcome # "done"
    BY <2>1
  <2>3. ~(from <= to)
    BY <1>1, <1>6
  <2> QED
    BY <2>2, <2>3, Zenon DEF HonestAnswer
<1>7. CASE ~(from > to) /\ wanted = << >>
  <2>1. answer = [outcome |-> "insufficient data"]
    BY <1>5, <1>7
  <2>2. answer.outcome = "insufficient data" /\ answer.outcome # "done"
    BY <2>1
  <2> QED
    BY <1>7, <2>2, Zenon DEF HonestAnswer
<1>8. CASE ~(from > to) /\ wanted # << >>
  <2>1. answer = [outcome |-> "done", complete |-> complete, trades |-> trades]
    BY <1>5, <1>8
  <2>2. answer.outcome = "done" /\ answer.trades = trades
    BY <2>1
  <2>3. answer.complete = complete
    BY <2>1
  <2>4. from <= to
    BY <1>1, <1>8
  <2>5. answer.complete <=> s[1].day <= from
    BY <1>4, <2>3, Zenon
  <2> QED
    BY <1>8, <2>2, <2>4, <2>5, Zenon DEF HonestAnswer, trades
<1> QED
  BY <1>6, <1>7, <1>8

\* A System One trade lies within the history, from its entry to its exit.
LEMMA S1TradeLies ==
    ASSUME NEW s, IsHistory(s), NEW k \in 1 .. Len(S1Scan(s).trades)
    PROVE  LET t == S1Scan(s).trades[k]
           IN /\ t.entryAt \in 2 .. Len(s)
              /\ t.exitAt = 0 \/ t.exitAt \in t.entryAt + 1 .. Len(s)
<1> DEFINE x == S1Scan(s).trades
           t == x[k]
<1>1. /\ LoopData(s, 0, S1Signal(s), S1Ma(s), S1Ends(s))
      /\ s \in Seq(CandleSet) /\ Len(s) \in Nat
  BY S1DataIs, HistoryIs
<1>2. LoopInv(s, S1Signal(s), S1Ma(s), S1Ends(s), S1Scan(s))
  BY <1>1, ScanIs DEF S1Scan
<1>3. PICK i \in 1 .. Len(s) - 1 :
          Refused(s, S1Ma(s), i) = "no" /\ t = Taken(s, S1Ma(s), S1Ends(s), i)
  BY <1>2 DEF LoopInv, FromSignal
<1> HIDE DEF t, x
<1>4. S1Ma(s) \in [1 .. Len(s) -> Nat] /\ S1Ends(s) \in [1 .. Len(s) -> S1Exit]
  BY <1>1 DEF LoopData
<1>5. t.entryAt = i + 1 /\ t.exitAt = S1Ends(s)[i + 1].at
  <2> DEFINE ma == S1Ma(s)
             ends == S1Ends(s)
  <2>1. t = Taken(s, ma, ends, i)
    BY <1>3
  <2> HIDE DEF ma, ends
  <2>2. Taken(s, ma, ends, i).entryAt = i + 1 /\ Taken(s, ma, ends, i).exitAt = ends[i + 1].at
    BY DEF Taken, Long
  <2>3. t.entryAt = i + 1 /\ t.exitAt = ends[i + 1].at
    BY <2>1, <2>2
  <2> QED
    BY <2>3 DEF ends
<1>6. i + 1 \in 1 .. Len(s) /\ i + 1 \in 2 .. Len(s)
  BY <1>1
<1>7. S1Ends(s)[i + 1] = MaStopExit(s, S1Ma(s), i + 1)
  BY <1>6 DEF S1Ends
<1>8. MaStopExit(s, S1Ma(s), i + 1).at = 0 \/ MaStopExit(s, S1Ma(s), i + 1).at \in i + 2 .. Len(s)
  <2> DEFINE e == i + 1
             ma == S1Ma(s)
  <2>1. e \in 1 .. Len(s) /\ e + 1 = i + 2
    BY <1>6
  <2>2. ma \in [1 .. Len(s) -> Nat]
    BY <1>4
  <2> HIDE DEF e, ma
  <2>3. CASE MaHit(s, ma, e) = {}
    <3>1. MaStopExit(s, ma, e) = NotYet
      BY <1>1, <2>1, <2>2, <2>3, MaStopExitIs
    <3> QED
      BY <3>1 DEF NotYet, e, ma
  <2>4. CASE MaHit(s, ma, e) # {}
    <3>1. MaStopExit(s, ma, e).at = Min(MaHit(s, ma, e)) /\ Min(MaHit(s, ma, e)) \in e + 1 .. Len(s)
      BY <1>1, <2>1, <2>2, <2>4, MaStopExitIs
    <3>2. MaStopExit(s, ma, e).at \in i + 2 .. Len(s)
      BY <2>1, <3>1
    <3> QED
      BY <3>2 DEF e, ma
  <2> QED
    BY <2>3, <2>4
<1>9. t.entryAt + 1 = i + 2
  BY <1>5, <1>6
<1> QED
  BY <1>5, <1>6, <1>7, <1>8, <1>9 DEF t, x

\* Between candles where no hole is found is none.
LEMMA NoGap ==
    ASSUME NEW s, IsHistory(s), NEW i \in 1 .. Len(s) - 1, i \notin DataGaps(s)
    PROVE  s[i + 1].day - s[i].day <= GapDays
<1> DEFINE d == s[i].day
           e == s[i + 1].day
<1>1. Len(s) \in Nat /\ \A k \in 1 .. Len(s) : s[k].day \in Nat
  BY HistoryIs
<1>2. d \in Nat /\ e \in Nat /\ GapDays \in Nat
  BY <1>1, SystemOneAssumption
<1>3. ~(e - d > GapDays)
  BY DEF DataGaps
<1> HIDE DEF d, e
<1>4. e - d <= GapDays
  BY <1>2, <1>3
<1> QED
  BY <1>4 DEF d, e

\* A trade that is not flagged spans no hole.
Spans(s, t) == t.entryAt .. (IF IsOpen(t) THEN Len(s) ELSE t.exitAt) - 1
Unbroken(s, t) == \A i \in Spans(s, t) : s[i + 1].day - s[i].day <= GapDays

LEMMA UnflaggedIsUnbroken ==
    ASSUME NEW s, IsHistory(s), NEW x \in Seq(S1Trade), NEW k \in 1 .. Len(x),
           x[k].entryAt \in 2 .. Len(s), x[k].exitAt = 0 \/ x[k].exitAt \in x[k].entryAt + 1 .. Len(s)
    PROVE  ~FlagGaps(s, Len(s), x)[k].gap => Unbroken(s, FlagGaps(s, Len(s), x)[k])
<1> DEFINE y == FlagGaps(s, Len(s), x)
           end(t) == IF IsOpen(t) THEN Len(s) ELSE t.exitAt
           in(t) == \E i \in DataGaps(s) : t.entryAt <= i + 1 /\ end(t) >= i
           a == x[k]
           flag == in(a)
           b == y[k]
<1>1. s \in Seq(CandleSet) /\ Len(s) \in Nat /\ \A i \in 1 .. Len(s) : s[i].day \in Nat
  BY HistoryIs
<1>2. b = [a EXCEPT !.gap = flag]
  BY DEF FlagGaps
<1>3. a \in S1Trade /\ a.entryAt \in 2 .. Len(s) /\ (a.exitAt = 0 \/ a.exitAt \in a.entryAt + 1 .. Len(s))
  OBVIOUS
<1>4. flag \in BOOLEAN
  OBVIOUS
<1> HIDE DEF y, b, a, flag
<1>5. b.entryAt = a.entryAt /\ b.exitAt = a.exitAt /\ b.gap = flag
  BY <1>2, <1>3, <1>4 DEF S1Trade
<1>6. ASSUME ~flag, NEW i \in a.entryAt .. end(a) - 1
      PROVE  s[i + 1].day - s[i].day <= GapDays
  <2>1. end(a) \in Nat /\ end(a) <= Len(s) /\ a.entryAt \in Nat /\ a.entryAt >= 2
    BY <1>1, <1>3 DEF IsOpen
  <2> DEFINE last == end(a)
  <2>2. last \in Nat /\ last <= Len(s)
    BY <2>1
  <2>3. flag = \E j \in DataGaps(s) : a.entryAt <= j + 1 /\ last >= j
    BY DEF flag
  <2>4. i \in a.entryAt .. last - 1
    OBVIOUS
  <2> HIDE DEF last, end, in
  <2>5. i \in 1 .. Len(s) - 1 /\ i \in Nat /\ a.entryAt <= i + 1 /\ last >= i
    BY <1>1, <2>1, <2>2, <2>4
  <2>6. i \notin DataGaps(s)
    BY <1>6, <2>3, <2>5
  <2> QED
    BY <2>5, <2>6, NoGap
<1>7. Spans(s, b) = a.entryAt .. end(a) - 1
  BY <1>5 DEF Spans, IsOpen
<1>8. ~b.gap => Unbroken(s, b)
  BY <1>5, <1>6, <1>7 DEF Unbroken
<1> QED
  BY <1>8 DEF b, y

\* The report of System One.
LEMMA SystemOneIsHonest ==
    ASSUME NEW s, IsHistory(s), s # << >>, LongEnough(s)
    PROVE  \A k \in 1 .. Len(SystemOneReport(s, 0, LastDay(s)).trades) :
               LET t == SystemOneReport(s, 0, LastDay(s)).trades[k]
               IN ~t.gap => Unbroken(s, t)
<1> DEFINE trades == SystemOneReport(s, 0, LastDay(s)).trades
           x == S1Scan(s).trades
<1>1. trades = FlagGaps(s, Len(s), x)
  BY S1RunIs, AnsweredIs, BeforeAll DEF SystemOneReport
<1>2. x \in Seq(S1Trade)
  BY S1ScanIs
<1>3. \A k \in 1 .. Len(x) : /\ x[k].entryAt \in 2 .. Len(s)
                             /\ x[k].exitAt = 0 \/ x[k].exitAt \in x[k].entryAt + 1 .. Len(s)
  BY S1TradeLies
<1> HIDE DEF trades, x
<1>4. Len(trades) = Len(x)
  BY <1>1, <1>2, FlagGapsIs
<1>5. \A k \in 1 .. Len(x) : ~trades[k].gap => Unbroken(s, trades[k])
  BY <1>1, <1>2, <1>3, UnflaggedIsUnbroken
<1> QED
  BY <1>4, <1>5 DEF trades

\* The candles of the Top-Bottom histories stay close to one another.
HistoryIsReached ==
    /\ ReachesBack
    /\ Steps["top_bottom"] \subseteq 1 .. 6
    /\ \A s \in History["top_bottom"] : NoLongHoles(s)

HolesInv == BacktestsInv /\ (part = "top_bottom" => NoLongHoles(bars))

LEMMA HolesInvariant == ASSUME HistoryIsReached PROVE BacktestsSpec => []HolesInv
<1>1. BacktestsInit /\ BacktestsInv => HolesInv
  BY DEF BacktestsInit, Init, HolesInv, HistoryIsReached
<1>2. HolesInv /\ [BacktestsNext]_vars /\ BacktestsInv' => HolesInv'
  <2> SUFFICES ASSUME HolesInv, [BacktestsNext]_vars, BacktestsInv', part' = "top_bottom"
               PROVE  NoLongHoles(bars')
    BY DEF HolesInv
  <2>1. CASE bars' = bars /\ part' = part
    BY <2>1 DEF HolesInv, NoLongHoles
  <2>2. CASE CandleComes
    <3>1. part \in Parts /\ IsHistory(bars) /\ NextCandle
      BY <2>2 DEF HolesInv, BacktestsInv, CandleComes
    <3>2. /\ IsHistory(bars') /\ Continues(bars', bars) /\ Len(bars') = Len(bars) + 1 /\ part' = part
          /\ \E days \in Steps[part] : days \in Nat \ {0} /\ LastDay(bars') = LastDay(bars) + days
      BY <3>1, NextCandleIs
    <3>3. part = "top_bottom" /\ NoLongHoles(bars)
      BY <3>2 DEF HolesInv
    <3>4. PICK days \in 1 .. 6 : LastDay(bars') = LastDay(bars) + days
      BY <3>2, <3>3 DEF HistoryIsReached
    <3>5. /\ Len(bars) \in Nat /\ Len(bars') \in Nat /\ LastDay(bars) \in Nat
          /\ \A i \in 1 .. Len(bars) : bars'[i] = bars[i]
      BY <3>1, <3>2, HistoryIs DEF Continues
    <3> SUFFICES ASSUME NEW i \in 1 .. Len(bars') - 1
                 PROVE  bars'[i + 1].day - bars'[i].day <= 6
      BY DEF NoLongHoles
    <3>6. CASE i \in 1 .. Len(bars) - 1
      <4>1. i \in 1 .. Len(bars) /\ i + 1 \in 1 .. Len(bars)
        BY <3>5, <3>6
      <4>2. bars[i + 1].day - bars[i].day <= 6
        BY <3>3, <3>6 DEF NoLongHoles
      <4> QED
        BY <3>5, <4>1, <4>2
    <3>7. CASE i = Len(bars)
      <4>1. i \in 1 .. Len(bars) /\ bars # << >> /\ bars' # << >> /\ i + 1 = Len(bars')
        BY <3>2, <3>5, <3>7
      <4>2. bars'[i + 1].day = LastDay(bars') /\ bars'[i].day = LastDay(bars)
        BY <3>5, <3>7, <4>1 DEF LastDay
      <4> QED
        BY <3>4, <3>5, <4>2
    <3>8. i \in 1 .. Len(bars) - 1 \/ i = Len(bars)
      BY <3>2, <3>5
    <3> QED
      BY <3>6, <3>7, <3>8
  <2> QED
    BY <2>1, <2>2 DEF BacktestsNext, MinuteComes, NextMinute, vars
<1>3. BacktestsSpec => []BacktestsInv
  BY BacktestsHistory
<1> QED
  BY <1>1, <1>2, <1>3, PTL DEF BacktestsSpec

\* Whatever range of a history is asked for, a Top-Bottom report is about all of
\* its candles, and says so where the history reaches back to its start; and a
\* System One trade without a flag spans no hole.  The first needs daily or
\* weekly candles without a hole of a week: the five days that the fetch goes
\* back beyond the start would else find no candle.
THEOREM ReportsStayHonest == ASSUME HistoryIsReached PROVE BacktestsSpec => []ReportsAreHonest
<1>1. HolesInv /\ StartedInv => ReportsAreHonest
  <2> SUFFICES ASSUME HolesInv, StartedInv
               PROVE  ReportsAreHonest
    OBVIOUS
  <2>1. IsHistory(bars) /\ report = Report(part, bars, minutes)
    BY DEF HolesInv, BacktestsInv
  <2>2. ASSUME part = "top_bottom", NEW from \in 1 .. LastDay(bars), NEW to \in 1 .. LastDay(bars)
        PROVE  HonestAnswer(bars, from, Windowed(bars, from, to), TopBottomReport(bars, LastDay(bars), from, to), from <= to)
    <3>1. ReachesBack /\ NoLongHoles(bars)
      BY <2>2 DEF HolesInv, HistoryIsReached
    <3> QED
      BY <2>1, <2>2, <3>1, TopBottomIsHonest
  <2>3. ASSUME part = "system_one"
        PROVE  \A k \in 1 .. Len(report.trades) : ~report.trades[k].gap => Unbroken(bars, report.trades[k])
    <3>1. bars # << >> /\ LongEnough(bars)
      BY <2>3 DEF StartedInv
    <3>2. report = SystemOneReport(bars, 0, LastDay(bars))
      BY <2>1, <2>3 DEF Report
    <3> QED
      BY <2>1, <3>1, <3>2, SystemOneIsHonest
  <2> QED
    BY <2>2, <2>3 DEF ReportsAreHonest, HonestAnswer, Unbroken, Spans
<1> QED
  BY <1>1, HolesInvariant, StartedInvariant, PTL
=============================================================================
