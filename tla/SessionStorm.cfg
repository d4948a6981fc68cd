SPECIFICATION Spec
CONSTANTS
  r1 = r1
  r2 = r2
  r3 = r3
  acc1 = acc1
  acc2 = acc2
  Requests <- MCThreeRequests
  Accounts <- MCOneAccount
  NoAccount = NoAccount
  InitialAccount = acc1
  OutsideLogins = 0
  DialogUses = 0
  Glitches = 0
CHECK_DEADLOCK FALSE
INVARIANT
  ConcurrentRequestsRecover
