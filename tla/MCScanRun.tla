------------------------------ MODULE MCScanRun ------------------------------
\* Small instances of ScanRun for TLC.
EXTENDS ScanRun, TLC

CONSTANTS j1, j2, d1, d2, s1, s2, aGroup, expiry

TwoJobs == {j1, j2}
TwoDevices == {d1, d2}
OneDevice == {d1}
OneStock == {s1}
TwoStocks == {s1, s2}
BothTypes == {aGroup, expiry}
AGroupOnly == {aGroup}
ExpiryOnly == {expiry}
NoTypes == {}
Missing == {"missing"}
Kept == {"kept"}
MissingOrKept == {"missing", "kept"}

\* Job ids, devices and stocks are interchangeable in the safety runs.
Symmetry == Permutations(TwoJobs) \cup Permutations(TwoDevices) \cup Permutations(TwoStocks)
=============================================================================
