------------------------------ MODULE Breakout15 ------------------------------
(***************************************************************************)
(* One day of the opening-candle breakout backtest:                        *)
(* strategies/breakout15/engine.py.  The `day' of a candle is its slot in  *)
(* the session; a slot without a candle is data the exchange did not       *)
(* deliver.  When one candle breaks both ends of the base candle, its      *)
(* one-minute candles are fetched to tell which end broke first.           *)
(***************************************************************************)
EXTENDS Series

CONSTANTS
    BaseSlot,       \* entry_start
    ExitSlot,       \* exit_start, or the slot exit_mode stands for
    LastSlot,       \* the last candle of the session
    Minutes,        \* one-minute candles that can come (bound)
    MaxMinutes      \* how many of them there are in a candle (bound)

VARIABLE minutes    \* the one-minute candles of the ambiguous candle, as far as fetched

ASSUME BreakoutAssumption ==
    /\ BaseSlot \in Nat /\ ExitSlot \in Nat
    /\ Minutes \subseteq CandleSet /\ MaxMinutes \in Nat

NoDay == [side |-> "none", breakout |-> 0, minute |-> 0, entry |-> NoLevel, stop |-> NoLevel,
          exitAt |-> 0, exitMinute |-> 0, exit |-> NoLevel, reason |-> "NO_ENTRY", flags |-> {}]

Breaks(b, h, l) == b.h > h \/ b.l < l
BreaksBoth(b, h, l) == b.h > h /\ b.l < l

\* The side that was first, none if the minutes show no break; a minute that
\* breaks both ends goes to the end nearer its open.
ResolveSide(ms, h, l) ==
    LET broken == {k \in 1 .. Len(ms) : Breaks(ms[k], h, l)}
        m == ms[Min(broken)]
        tie == BreaksBoth(m, h, l) /\ l <= m.o /\ m.o <= h
        call == IF tie THEN h - m.o <= m.o - l
                ELSE IF BreaksBoth(m, h, l) THEN m.o > h ELSE m.h > h
    IN IF broken = {} THEN [side |-> "none"]
       ELSE [side |-> IF call THEN "CALL" ELSE "PUT", at |-> Min(broken), tie |-> tie]

StopOf(side, h, l) == IF side = "CALL" THEN l ELSE h
Stopped(b, side, stop) == IF side = "CALL" THEN b.l <= stop ELSE b.h >= stop
\* At the level, or at the open of a candle that opened beyond it.
EntryPrice(b, side, h, l) == IF side = "CALL" THEN MaxOf(b.o, h) ELSE MinOf(b.o, l)
StopFill(b, side, stop) == IF side = "CALL" THEN MinOf(b.o, stop) ELSE MaxOf(b.o, stop)

\* The breakout candle broke both ends and opened between them.
ResolvedDay(r0, eb, ms, res, h, l) ==
    LET stop == StopOf(res.side, h, l)
        hit == {k \in res.at .. Len(ms) : Stopped(ms[k], res.side, stop)}
        resolved == [r0 EXCEPT !.side = res.side, !.stop = stop, !.minute = ms[res.at].day,
                               !.entry = EntryPrice(ms[res.at], res.side, h, l), !.exitAt = eb.day,
                               !.reason = "STOP_LOSS", !.flags = @ \cup IF res.tie THEN {"AMBIGUOUS"} ELSE {}]
    IN IF res.side = "none"
       THEN [r0 EXCEPT !.side = "BOTH", !.exitAt = eb.day, !.reason = "STOP_LOSS", !.flags = @ \cup {"AMBIGUOUS"}]
       ELSE IF hit = {} THEN [resolved EXCEPT !.exit = stop, !.flags = @ \cup {"stop assumed"}]
       ELSE [resolved EXCEPT !.exit = StopFill(ms[Min(hit)], res.side, stop), !.exitMinute = ms[Min(hit)].day]
AmbiguousDay(r0, eb, ms, h, l) == ResolvedDay(r0, eb, ms, ResolveSide(ms, h, l), h, l)

\* Mutant: one missing candle is put up with.
X_TimedExit(last, missing) ==
    IF last.day # ExitSlot \/ missing > 1 THEN "DATA_ENDED"
    ELSE IF ExitSlot = LastSlot THEN "MARKET_CLOSE" ELSE "TIMED_EXIT"

\* The timed exit (SECOND_LAST_CLOSE is one too) counts only when no candle is missing.
TimedExit(last, missing) ==
    IF last.day # ExitSlot \/ missing # 0 THEN "DATA_ENDED"
    ELSE IF ExitSlot = LastSlot THEN "MARKET_CLOSE" ELSE "TIMED_EXIT"

\* A side is known from the candle alone.
ClearDay(r0, eb, after, i, missing, h, l) ==
    LET side == IF eb.o > h \/ (eb.h > h /\ ~(eb.l < l)) THEN "CALL" ELSE "PUT"
        stop == StopOf(side, h, l)
        hit == {k \in i .. Len(after) : Stopped(after[k], side, stop)}
        last == after[Len(after)]
        r == [r0 EXCEPT !.side = side, !.entry = EntryPrice(eb, side, h, l), !.stop = stop]
    IN IF hit # {}
       THEN LET b == after[Min(hit)]
            IN [r EXCEPT !.exitAt = b.day, !.exit = StopFill(b, side, stop), !.reason = "STOP_LOSS"]
       ELSE LET why == TimedExit(last, missing)
            IN [r EXCEPT !.exitAt = last.day, !.exit = last.c, !.reason = why,
                         !.flags = @ \cup IF why = "DATA_ENDED" THEN {"incomplete"} ELSE {}]

After(day) == Pick(day, {i \in 1 .. Len(day) : BaseSlot < day[i].day /\ day[i].day <= ExitSlot})

\* run_day
RunDay(day, ms) ==
    LET base == {i \in 1 .. Len(day) : day[i].day = BaseSlot}
        first == day[Min(base)]
        after == After(day)
        missing == ExitSlot - BaseSlot - Len(after)
        out == {i \in 1 .. Len(after) : Breaks(after[i], first.h, first.l)}
        eb == after[Min(out)]
        r0 == [NoDay EXCEPT !.breakout = eb.day]
    IN IF base = {} THEN [NoDay EXCEPT !.reason = "DATA_INCOMPLETE", !.flags = {"no base"}]
       ELSE IF out = {} THEN [NoDay EXCEPT !.flags = IF missing # 0 THEN {"incomplete"} ELSE {}]
       ELSE IF BreaksBoth(eb, first.h, first.l) /\ first.l <= eb.o /\ eb.o <= first.h
            THEN AmbiguousDay(r0, eb, ms, first.h, first.l)
       ELSE ClearDay(r0, eb, after, Min(out), missing, first.h, first.l)

-----------------------------------------------------------------------------
(* ambiguous_candles, then the second pass with the minutes.               *)

Ambiguous == part = "breakout15" /\ RunDay(bars, << >>).side = "BOTH"

NextMinute ==
    /\ Ambiguous
    /\ LET last == LastDay(minutes)
       IN \E m \in Minutes, k \in last + 1 .. MaxMinutes : minutes' = Append(minutes, [m EXCEPT !.day = k])
    /\ UNCHANGED <<part, bars>>

BreakoutInit == minutes = << >>
=============================================================================
