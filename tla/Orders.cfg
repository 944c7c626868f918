SPECIFICATION FairSpec
CONSTANTS
  u1 = u1
  u2 = u2
  w1 = w1
  w2 = w2
  r1 = r1
  r2 = r2
  r3 = r3
  None = None
  Unlimited = Unlimited
  Users <- OneUser
  Workshops <- OneWorkshop
  Enrollments <- OneEnrollment
  Owner <- OwnerOf
  WorkshopOf <- AtWorkshop
  Requests = {r1, r2}
  InitialSeats <- OneSeat
  FreeWorkshops = {}
  SeatEdits = {}
  Ops = {"createEnrollment", "initPayment", "successPayment", "failPayment", "cancelPayment", "ipnValid", "ipnFailed", "refundPayment", "deleteUser"}
  Faults = {"crash", "init", "gateway"}
  Amounts = {"match", "mismatch"}
  MaxRefunds = 1
  MaxUnderflow = 0
INVARIANTS TypeOK StatusesAgree ValidationExclusive
PROPERTIES PaymentLifecycle LockIsFreed ClaimsEnd
CHECK_DEADLOCK FALSE
