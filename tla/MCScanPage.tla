----------------------------- MODULE MCScanPage -----------------------------
\* Small instances of ScanPage for TLC.
EXTENDS ScanPage, TLC

CONSTANTS j1, j2, me, cupBreakout, c1, c2

TwoJobs == {j1, j2}
OneJob == {j1}
Me == {me}
OneType == {cupBreakout}
OneClick == {c1}
TwoClicks == {c1, c2}
OneStock == {1}
AnyMishap == {"lost", "restart", "reload", "expiry"}
LostOrRestart == {"lost", "restart"}

\* Job ids and clicks are interchangeable.
Symmetry == Permutations(TwoJobs) \cup Permutations(TwoClicks)
=============================================================================
