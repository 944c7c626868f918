SPECIFICATION Spec
CONSTANTS
  u1 = u1
  u2 = u2
  w1 = w1
  w2 = w2
  r1 = r1
  r2 = r2
  r3 = r3
  None = None
  Unlimited = Unlimited
  Users <- OneUser
  Workshops <- OneWorkshop
  Enrollments <- OneEnrollment
  Owner <- OwnerOf
  WorkshopOf <- AtWorkshop
  Requests = {r1}
  InitialSeats <- OneSeat
  FreeWorkshops = {w1}
  SeatEdits = {}
  Ops = {"createEnrollment", "cancelEnrollment", "refundPayment"}
  Faults = {}
  Amounts = {"match", "mismatch"}
  MaxRefunds = 1
  MaxUnderflow = 0
INVARIANT SeatsCoverActive
CHECK_DEADLOCK FALSE
