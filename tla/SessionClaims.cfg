\* Claims of comments that do not hold: leave in the one in question.
SPECIFICATION Spec
CONSTANTS
  r1 = r1
  r2 = r2
  r3 = r3
  acc1 = acc1
  acc2 = acc2
  Requests <- MCTwoRequests
  Accounts <- MCAccounts
  NoAccount = NoAccount
  InitialAccount = acc1
  OutsideLogins = 0
  DialogUses = 1
  Glitches = 0
CHECK_DEADLOCK FALSE
INVARIANTS
  SessionIsOfCredentials
PROPERTIES
  \* TestLeavesSessionActive
