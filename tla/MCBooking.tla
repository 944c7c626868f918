------------------------------ MODULE MCBooking ------------------------------
(***************************************************************************)
(* Small instances of Booking.  An enrollment's id says whose it is: the   *)
(* pair of its user and a serial number.                                   *)
(***************************************************************************)
EXTENDS Booking, TLC

CONSTANTS u1, u2, w1, w2, r1, r2, r3

OneWorkshop  == {w1}
TwoWorkshops == {w1, w2}
OneUser      == {u1}
TwoUsers     == {u1, u2}

\* One order; orders of two users who compete; a user's two orders for w1 and
\* one for w2.
OneEnrollment   == {<<u1, 1>>}
TwoEnrollments  == {<<u1, 1>>, <<u2, 1>>}
ThreeOfOneUser  == {<<u1, 1>>, <<u1, 2>>, <<u1, 3>>}

OwnerOf    == [e \in Enrollments |-> e[1]]
AtWorkshop == [e \in Enrollments |-> IF e[2] > 2 THEN w2 ELSE w1]

OneSeat    == w1 :> 1
OnlyAtFree == w1 :> Unlimited @@ w2 :> 1

RequestSlots == Permutations({r1, r2, r3} \cap Requests)
=============================================================================
