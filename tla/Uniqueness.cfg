SPECIFICATION Spec
CONSTANTS
  u1 = u1
  u2 = u2
  w1 = w1
  w2 = w2
  r1 = r1
  r2 = r2
  r3 = r3
  None = None
  Unlimited = Unlimited
  Users <- OneUser
  Workshops <- TwoWorkshops
  Enrollments <- ThreeOfOneUser
  Owner <- OwnerOf
  WorkshopOf <- AtWorkshop
  Requests = {r1, r2}
  InitialSeats <- OnlyAtFree
  FreeWorkshops = {w2}
  SeatEdits = {}
  Ops = {"createEnrollment", "cancelEnrollment", "updateEnrollmentStatus", "ipnValid", "failPayment"}
  Faults = {}
  Amounts = {"match"}
  MaxRefunds = 1
  MaxUnderflow = 1
SYMMETRY RequestSlots
INVARIANT UniqueActive
