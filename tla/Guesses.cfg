SPECIFICATION FairSpec
CONSTANTS
  u1 = u1
  s1 = s1
  i1 = i1
  i2 = i2
  r1 = r1
  r2 = r2
  r3 = r3
  j1 = j1
  j2 = j2
  j3 = j3
  j4 = j4
  None = None
  Users = {u1}
  OAuthStates = {}
  Jtis = {j1}
  Instances = {i1}
  Requests = {r1, r2}
  InstanceOf <- OneInstance
  InitialAccounts <- NobodyYet
  StatusChanges = {"BLOCKED"}
  Ops = {"createUser", "updateUser", "sendOtp", "verifyOtp", "deleteUser"}
  Faults = {"crash"}
  MaxFailedAttempts = 2
  MaxOtpAttempts = 1
  MaxPassword = 2
  MaxOtp = 3
  MaxFailures = 1
INVARIANT TypeOK
INVARIANT GuessesBounded
INVARIANT SendsBounded
INVARIANT UsedOtpIsGone
PROPERTY RightOtpVerifies
CHECK_DEADLOCK FALSE
