SPECIFICATION Spec
CONSTANTS
  u1 = u1
  u2 = u2
  w1 = w1
  w2 = w2
  r1 = r1
  r2 = r2
  r3 = r3
  None = None
  Unlimited = Unlimited
  Users <- TwoUsers
  Workshops <- OneWorkshop
  Enrollments <- TwoEnrollments
  Owner <- OwnerOf
  WorkshopOf <- AtWorkshop
  Requests = {r1, r2}
  InitialSeats <- OneSeat
  FreeWorkshops = {}
  SeatEdits = {}
  Ops = {"createEnrollment", "initPayment", "ipnValid"}
  Faults = {"init"}
  Amounts = {"match"}
  MaxRefunds = 1
  MaxUnderflow = 0
SYMMETRY RequestSlots
INVARIANT SoldWithinSeats
