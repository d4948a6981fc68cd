------------------------------ MODULE TradeBook ------------------------------
(***************************************************************************)
(* What every backtest promises of its trades, whatever its rules: it      *)
(* could have been traded candle by candle.  There is one position at a    *)
(* time, a position keeps its side and entry, its stop only moves in its   *)
(* favour, and what has been booked is never rewritten when more candles   *)
(* come.                                                                   *)
(***************************************************************************)
EXTENDS Integers, Sequences

VARIABLES
    now,        \* candles seen
    open,       \* the position, as a set of at most one trade
    closed      \* the trades booked, oldest first

book == <<now, open, closed>>

Fresh(t) == t.entryAt = now'
SameTrade(t, u) == u.side = t.side /\ u.entryAt = t.entryAt /\ u.entry = t.entry
Ratchets(t, u) == IF t.side \in {"BUY", "CALL"} THEN u.stop >= t.stop ELSE u.stop <= t.stop
NewlyBooked == closed'[Len(closed')]
Books(t) == closed' = Append(closed, t) /\ t.exitAt = now'

Init == now \in Nat /\ open = {} /\ closed = << >>

Hold == UNCHANGED <<open, closed>>

Enter ==
    /\ open = {}
    /\ \E t \in open' : Fresh(t) /\ open' = {t}
    /\ UNCHANGED closed

Trail ==
    /\ \E t \in open, u \in open' : SameTrade(t, u) /\ Ratchets(t, u) /\ open' = {u}
    /\ UNCHANGED closed

Exit ==
    /\ closed' # << >>
    /\ \E t \in open : SameTrade(t, NewlyBooked) /\ Ratchets(t, NewlyBooked)
    /\ Books(NewlyBooked)
    /\ open' = {}

Reverse ==
    /\ closed' # << >>
    /\ \E t \in open : SameTrade(t, NewlyBooked) /\ Ratchets(t, NewlyBooked)
    /\ Books(NewlyBooked)
    /\ \E u \in open' : Fresh(u) /\ u.side # NewlyBooked.side /\ open' = {u}

\* Entered and stopped out on the same candle.
InAndOut ==
    /\ open = {} /\ open' = {} /\ closed' # << >>
    /\ Books(NewlyBooked) /\ Fresh(NewlyBooked)

Next == now' = now + 1 /\ (Hold \/ Enter \/ Trail \/ Exit \/ Reverse \/ InAndOut)

Spec == Init /\ [][Next]_book

-----------------------------------------------------------------------------
\* Two trades never overlap, and none is in the future.
OneAtATime ==
    /\ \A k \in 1 .. Len(closed) : closed[k].entryAt <= closed[k].exitAt /\ closed[k].exitAt <= now
    /\ \A j, k \in 1 .. Len(closed) : j < k => closed[j].exitAt <= closed[k].entryAt
    /\ \A t \in open : t.entryAt <= now /\ \A k \in 1 .. Len(closed) : closed[k].exitAt <= t.entryAt

\* A backtest on a longer history books the trades of the shorter one again,
\* each as it was.
BookedIsKept ==
    [][\A k \in 1 .. Len(closed) : k \in 1 .. Len(closed') /\ closed'[k] = closed[k]]_book
=============================================================================
