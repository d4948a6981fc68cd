---------------------------- MODULE MCJobManager ----------------------------
\* A small instance of JobManager for TLC.
EXTENDS JobManager, TLC

CONSTANTS j1, j2, j3, j4, d1, d2, aGroup, cup

MCJobIds == {j1, j2, j3, j4}
MCDevices == {d1, d2}
MCScanTypes == {aGroup, cup}

\* Job ids, devices and scan types are interchangeable; the properties are
\* safety properties.
Symmetry == Permutations(MCJobIds) \cup Permutations(MCDevices) \cup Permutations(MCScanTypes)
=============================================================================
