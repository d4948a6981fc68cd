----------------------------- MODULE MCLiveFeed -----------------------------
\* A small instance of LiveFeed for TLC: two charts of one symbol, one of
\* another, one of a symbol that is not listed.
EXTENDS LiveFeed, TLC

CONSTANTS c1, c2, c3, c4, bhel, itc, unlisted

MCStreams == {c1, c2, c3, c4}
MCSymbols == {bhel, itc, unlisted}
MCListed == {bhel, itc}
MCSymbolOf == (c1 :> bhel) @@ (c2 :> bhel) @@ (c3 :> itc) @@ (c4 :> unlisted)
=============================================================================
