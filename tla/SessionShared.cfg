SPECIFICATION Spec
CONSTANTS
  r1 = r1
  r2 = r2
  r3 = r3
  acc1 = acc1
  acc2 = acc2
  Requests <- MCTwoRequests
  Accounts <- MCAccounts
  NoAccount = NoAccount
  InitialAccount = acc1
  OutsideLogins = 1
  DialogUses = 1
  Glitches = 1
CHECK_DEADLOCK FALSE
SYMMETRY Symmetry
INVARIANTS
  RetriesAreSound
  UndisturbedRequestRecovers
