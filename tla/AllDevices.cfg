SPECIFICATION Spec
CONSTANTS
  u1 = u1
  s1 = s1
  i1 = i1
  i2 = i2
  r1 = r1
  r2 = r2
  r3 = r3
  j1 = j1
  j2 = j2
  j3 = j3
  j4 = j4
  None = None
  Users = {u1}
  OAuthStates = {}
  Jtis = {j1, j2}
  Instances = {i1}
  Requests = {r1}
  InstanceOf <- OneInstance
  InitialAccounts <- AllVerified
  StatusChanges = {"BLOCKED"}
  Ops = {"login", "changePassword"}
  Faults = {}
  MaxFailedAttempts = 2
  MaxOtpAttempts = 2
  MaxPassword = 2
  MaxOtp = 2
  MaxFailures = 0
INVARIANT NoOutdatedSession
CHECK_DEADLOCK FALSE
