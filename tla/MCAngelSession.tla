--------------------------- MODULE MCAngelSession ---------------------------
\* A small instance of AngelSession for TLC.
EXTENDS AngelSession, TLC

CONSTANTS r1, r2, r3, acc1, acc2

MCTwoRequests == {r1, r2}
MCThreeRequests == {r1, r2, r3}
MCAccounts == {acc1, acc2}
MCOneAccount == {acc1}

Symmetry == Permutations(Requests)
=============================================================================
