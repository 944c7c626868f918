SPECIFICATION Spec
CONSTANTS
  u1 = u1
  s1 = s1
  i1 = i1
  i2 = i2
  r1 = r1
  r2 = r2
  r3 = r3
  j1 = j1
  j2 = j2
  j3 = j3
  j4 = j4
  None = None
  Users = {u1}
  OAuthStates = {}
  Jtis = {j1, j2, j3}
  Instances = {i1}
  Requests = {r1, r2}
  InstanceOf <- OneInstance
  InitialAccounts <- AllVerified
  StatusChanges = {"BLOCKED"}
  Ops = {"login", "refresh", "changePassword"}
  Faults = {"crash"}
  MaxFailedAttempts = 1
  MaxOtpAttempts = 2
  MaxPassword = 2
  MaxOtp = 2
  MaxFailures = 1
SYMMETRY FreshAndSlots
CHECK_DEADLOCK FALSE
INVARIANT OutdatedIsSpared
INVARIANT LineSurvives
INVARIANT FailuresBounded
INVARIANT LockoutIsTimed
