----------------------------- MODULE SeatProofs -----------------------------
(***************************************************************************)
(* No overselling.  The workshop's counter covers every active enrollment  *)
(* and every claim on a seat, and never passes a limit the workshop had.   *)
(* This holds where a seat is given back once: without cancelEnrollment    *)
(* and updateEnrollmentStatus, which leave the payment open, and without a *)
(* failing sslPaymentInit, after which createEnrollment gives the seat of  *)
(* a committed enrollment back.  Crashes, deletions, changes of maxSeats   *)
(* and every order of the callbacks are allowed.  Where nothing is deleted *)
(* and no request dies the counter is exact: no seat is lost either.       *)
(***************************************************************************)
EXTENDS BookingProofs, FiniteSetTheorems

USE DEF catalogVars, enrollmentVars, paymentVars, gatewayVars

SingleRelease == NoManualStatus /\ "init" \notin Faults

-----------------------------------------------------------------------------
(***************************************************************************)
(* The inductive invariant.  Limits: the maxSeats that a workshop has or a *)
(* request has read is one of the workshop's limits, and the counter has   *)
(* not passed them all.  ClosedBefore: the order whose seat a request is   *)
(* about to give back exists, so a commit does not create it.              *)
(***************************************************************************)
MaxSeatsKnown == \A w \in Capped : maxSeats[w] \in Limits[w]

ReadsKnown ==
  \A r \in Requests :
    request[r].op = "createEnrollment" /\ request[r].ws \in Capped
      => request[r].limit \in Limits[request[r].ws]

CounterKnown == \A w \in Capped : \E n \in Limits[w] : currentEnrollments[w] <= n

ClosedBefore ==
  \A r \in Requests :
    At(r, "decrement") => paymentStatus[request[r].enr] # "NONE"

Covered(w) ==
  Cardinality(ActiveAt(w)) + Cardinality(Claims(w)) <= currentEnrollments[w]

-----------------------------------------------------------------------------
(***************************************************************************)
(* Counting.                                                               *)
(***************************************************************************)
\* Enrollments and requests are finitely many, in this state and the next.
LEMMA FiniteSeats ==
  ASSUME NEW w
  PROVE  /\ IsFiniteSet(ActiveAt(w)) /\ IsFiniteSet(Claims(w))
         /\ Cardinality(ActiveAt(w)) \in Nat /\ Cardinality(Claims(w)) \in Nat
<1>1. ActiveAt(w) \subseteq Enrollments /\ Claims(w) \subseteq Requests
  BY DEF ActiveAt, Claims
<1> QED  BY <1>1, StoreAssumption, FS_Subset, FS_CardinalityType

\* One element more, at most, is one more, at most.
LEMMA GrowsByOne ==
  ASSUME NEW S, NEW T, NEW x, IsFiniteSet(S), T \subseteq S \cup {x}
  PROVE  Cardinality(T) <= Cardinality(S) + 1
<1>1. /\ IsFiniteSet(S \cup {x})
      /\ Cardinality(S \cup {x}) =
           IF x \in S THEN Cardinality(S) ELSE Cardinality(S) + 1
  BY FS_AddElement
<1>2. Cardinality(S) \in Nat
  BY FS_CardinalityType
<1>3. Cardinality(T) <= Cardinality(S \cup {x}) /\ Cardinality(T) \in Nat
  BY <1>1, FS_Subset, FS_CardinalityType
<1> QED  BY <1>1, <1>2, <1>3

\* One element less, at least, is one less, at least.
LEMMA ShrinksByOne ==
  ASSUME NEW S, NEW T, NEW x \in S, IsFiniteSet(S), T \subseteq S \ {x}
  PROVE  Cardinality(T) <= Cardinality(S) - 1
<1>1. /\ IsFiniteSet(S \ {x}) /\ Cardinality(S) \in Nat
      /\ Cardinality(S \ {x}) = Cardinality(S) - 1
  BY FS_RemoveElement, FS_CardinalityType
<1>2. Cardinality(T) <= Cardinality(S \ {x}) /\ Cardinality(T) \in Nat
  BY <1>1, FS_Subset, FS_CardinalityType
<1> QED  BY <1>1, <1>2

(***************************************************************************)
(* The ways in which a step keeps the counter above the seats in use.      *)
(***************************************************************************)
\* No seat comes into use.
LEMMA Shrinks ==
  ASSUME TypeInv, NEW w \in Workshops, Covered(w),
         currentEnrollments'[w] = currentEnrollments[w],
         ActiveAt(w)' \subseteq ActiveAt(w), Claims(w)' \subseteq Claims(w)
  PROVE  Covered(w)'
<1>1. /\ Cardinality(ActiveAt(w)') <= Cardinality(ActiveAt(w))
      /\ Cardinality(Claims(w)') <= Cardinality(Claims(w))
      /\ Cardinality(ActiveAt(w)') \in Nat /\ Cardinality(Claims(w)') \in Nat
  BY FiniteSeats, FS_Subset, FS_CardinalityType
<1> QED  BY <1>1, FiniteSeats DEF Covered, TypeInv, TypeOK

\* The counter goes up for a new claim.
LEMMA Takes ==
  ASSUME TypeInv, NEW w \in Workshops, NEW r, Covered(w),
         currentEnrollments'[w] = currentEnrollments[w] + 1,
         ActiveAt(w)' \subseteq ActiveAt(w), Claims(w)' \subseteq Claims(w) \cup {r}
  PROVE  Covered(w)'
<1>1. /\ Cardinality(ActiveAt(w)') <= Cardinality(ActiveAt(w))
      /\ Cardinality(ActiveAt(w)') \in Nat
  BY FiniteSeats, FS_Subset, FS_CardinalityType
<1>2. /\ Cardinality(Claims(w)') <= Cardinality(Claims(w)) + 1
      /\ Cardinality(Claims(w)') \in Nat
  <2>1. IsFiniteSet(Claims(w) \cup {r})
    BY FiniteSeats, FS_AddElement
  <2> QED  BY <2>1, FiniteSeats, GrowsByOne, FS_Subset, FS_CardinalityType
<1> QED  BY <1>1, <1>2, FiniteSeats DEF Covered, TypeInv, TypeOK

\* The counter goes down for a claim that ends.
LEMMA GivesBack ==
  ASSUME TypeInv, NEW w \in Workshops, NEW r \in Claims(w), Covered(w),
         currentEnrollments'[w] >= currentEnrollments[w] - 1,
         currentEnrollments'[w] \in Int,
         ActiveAt(w)' \subseteq ActiveAt(w), Claims(w)' \subseteq Claims(w) \ {r}
  PROVE  Covered(w)'
<1>1. /\ Cardinality(ActiveAt(w)') <= Cardinality(ActiveAt(w))
      /\ Cardinality(ActiveAt(w)') \in Nat
  BY FiniteSeats, FS_Subset, FS_CardinalityType
<1>2. /\ Cardinality(Claims(w)') <= Cardinality(Claims(w)) - 1
      /\ Cardinality(Claims(w)') \in Nat
  BY FiniteSeats, ShrinksByOne, FS_Subset, FS_CardinalityType
<1> QED  BY <1>1, <1>2, FiniteSeats DEF Covered, TypeInv, TypeOK

\* A claim becomes an active enrollment.
LEMMA Enrolls ==
  ASSUME TypeInv, NEW w \in Workshops, NEW r \in Claims(w), NEW e, Covered(w),
         currentEnrollments' = currentEnrollments,
         ActiveAt(w)' \subseteq ActiveAt(w) \cup {e}, Claims(w)' \subseteq Claims(w) \ {r}
  PROVE  Covered(w)'
<1>1. /\ Cardinality(ActiveAt(w)') <= Cardinality(ActiveAt(w)) + 1
      /\ Cardinality(ActiveAt(w)') \in Nat
  <2>1. IsFiniteSet(ActiveAt(w) \cup {e})
    BY FiniteSeats, FS_AddElement
  <2> QED  BY <2>1, FiniteSeats, GrowsByOne, FS_Subset, FS_CardinalityType
<1>2. /\ Cardinality(Claims(w)') <= Cardinality(Claims(w)) - 1
      /\ Cardinality(Claims(w)') \in Nat
  BY FiniteSeats, ShrinksByOne, FS_Subset, FS_CardinalityType
<1> QED  BY <1>1, <1>2, FiniteSeats DEF Covered, TypeInv, TypeOK

\* An active enrollment becomes a claim.
LEMMA Closes ==
  ASSUME TypeInv, NEW w \in Workshops, NEW e \in ActiveAt(w), NEW r, Covered(w),
         currentEnrollments' = currentEnrollments,
         ActiveAt(w)' \subseteq ActiveAt(w) \ {e}, Claims(w)' \subseteq Claims(w) \cup {r}
  PROVE  Covered(w)'
<1>1. /\ Cardinality(ActiveAt(w)') <= Cardinality(ActiveAt(w)) - 1
      /\ Cardinality(ActiveAt(w)') \in Nat
  BY FiniteSeats, ShrinksByOne, FS_Subset, FS_CardinalityType
<1>2. /\ Cardinality(Claims(w)') <= Cardinality(Claims(w)) + 1
      /\ Cardinality(Claims(w)') \in Nat
  <2>1. IsFiniteSet(Claims(w) \cup {r})
    BY FiniteSeats, FS_AddElement
  <2> QED  BY <2>1, FiniteSeats, GrowsByOne, FS_Subset, FS_CardinalityType
<1> QED  BY <1>1, <1>2, FiniteSeats DEF Covered, TypeInv, TypeOK

-----------------------------------------------------------------------------
\* A move to a place without a claim adds no claim.
LEMMA MovesClaimNothing ==
  ASSUME TypeInv, NEW r \in Requests, NEW w, Moves(r, ClaimingPCs),
         \A s \in Requests : At(s, "decrement") /\ Found(request[s].enr)'
                               => request'[s] # request[s] \/ Found(request[s].enr)
  PROVE  Claims(w)' \subseteq Claims(w) \ {r}
<1>1. PICK q : request' = [request EXCEPT ![r] = q] /\ q.pc \notin ClaimingPCs
  BY DEF Moves
<1>2. request'[r] = q /\ \A s \in Requests \ {r} : request'[s] = request[s]
  BY <1>1 DEF TypeInv, TypeOK
<1>3. \A s \in Requests : s \in Claims(w)' => s # r
  BY <1>1, <1>2 DEF Claims, HoldsReservation, OwesRelease, At, ClaimingPCs
<1>4. \A s \in Requests \ {r} : s \in Claims(w)' => s \in Claims(w)
  BY <1>2 DEF Claims, HoldsReservation, OwesRelease, At
<1> QED  BY <1>3, <1>4 DEF Claims

-----------------------------------------------------------------------------
(***************************************************************************)
(* The limits.                                                             *)
(***************************************************************************)
LEMMA LimitsAreNumbers ==
  ASSUME NEW w \in Capped
  PROVE  Limits[w] \subseteq Nat /\ InitialSeats[w] \in Limits[w] /\ SeatEdits \subseteq Limits[w]
BY StoreAssumption DEF Limits, Capped

\* A move leaves the reads of createEnrollment as they are.
LEMMA MovesKeepReads ==
  ASSUME TypeInv, ReadsKnown, NEW r \in Requests, Moves(r, {})
  PROVE  ReadsKnown'
BY DEF TypeInv, TypeOK, ReadsKnown, Moves, Limits, Capped

\* Only createEnrollment does more, and it has read one of the limits.
LEMMA ReadsStep ==
  ASSUME TypeInv, MaxSeatsKnown, ReadsKnown, [Next]_vars
  PROVE  ReadsKnown'
<1> USE DEF PCs, AllOps
<1>1. ASSUME NEW r \in Requests,
             \/ Quiet(r) \/ \E u \in Users : CascadeDelete(r, u)
             \/ \E e \in Enrollments : CancelEnrollment(r, e) \/ CommitEnrollment(r, e)
      PROVE  Moves(r, {})
  <2>1. CASE \E e \in Enrollments : CancelEnrollment(r, e)
    BY <2>1, BeginOnMoves DEF CancelEnrollment
  <2>2. CASE \/ Quiet(r) \/ \E u \in Users : CascadeDelete(r, u)
             \/ \E e \in Enrollments : CommitEnrollment(r, e)
    <3>1. Moves(r, ValidatingPCs \cup ClaimingPCs)
      BY <2>2, CommitMoves, CascadeMoves DEF Quiet
    <3> QED  BY <3>1 DEF Moves
  <2> QED  BY <1>1, <2>1, <2>2
<1>2. ASSUME NEW r \in Requests,
             \/ TakeSeat(r) \/ CheckSnapshot(r) \/ AbortEnrollment(r)
             \/ ReleaseReservation(r) \/ SslPaymentInitFails(r) \/ DecrementSeats(r)
             \/ WriteStatus(r) \/ AcquireLock(r)
      PROVE  Moves(r, {})
  BY <1>2, FinishMoves, GotoMoves
  DEF TakeSeat, CheckSnapshot, AbortEnrollment, ReleaseReservation, SslPaymentInitFails,
      DecrementSeats, WriteStatus, AcquireLock, AfterValidation
<1>3. ASSUME NEW r \in Requests,
             \/ GatewayValidates(r) \/ GatewayValidationFails(r) \/ DeleteLock(r)
             \/ SettlePayment(r) \/ ClosePayment(r) \/ CommitRefund(r)
      PROVE  Moves(r, {})
  BY <1>3, FinishMoves, GotoMoves
  DEF GatewayValidates, GatewayValidationFails, DeleteLock, AfterValidation,
      SettlePayment, ClosePayment, CommitRefund
<1>4. ASSUME NEW r \in Requests, NEW u \in Users, NEW w \in Workshops, CreateEnrollment(r, u, w)
      PROVE  ReadsKnown'
  <2>1. PICK q : request' = [request EXCEPT ![r] = q] /\ q.ws = w /\ q.limit = maxSeats[w]
    BY <1>4, CreateSets
  <2>2. Limits' = Limits /\ Capped' = Capped
    BY DEF Limits, Capped
  <2>3. w \in Capped => q.limit \in Limits[w]
    BY <2>1 DEF MaxSeatsKnown
  <2> QED  BY <2>1, <2>2, <2>3 DEF ReadsKnown, TypeInv, TypeOK
<1>5. ASSUME \/ Still
             \/ \E e \in Enrollments : LockExpires(e)
             \/ \E w \in Workshops, n \in SeatEdits : UpdateWorkshop(w, n)
      PROVE  ReadsKnown'
  BY <1>5 DEF Still, LockExpires, UpdateWorkshop, ReadsKnown, Limits, Capped
<1> QED  BY StepCases, MovesKeepReads, <1>1, <1>2, <1>3, <1>4, <1>5

\* The steps that change the counter of a workshop.
LEMMA WritersOfCounter ==
  ASSUME TypeInv, [Next]_vars
  PROVE  \/ UNCHANGED currentEnrollments
         \/ \E r \in Requests :
              TakeSeat(r) \/ ReleaseReservation(r) \/ DecrementSeats(r)
<1>1. ASSUME NEW r \in Requests,
             \/ Quiet(r)
             \/ \E u \in Users, w \in Workshops : CreateEnrollment(r, u, w)
             \/ \E u \in Users : CascadeDelete(r, u)
             \/ \E e \in Enrollments : CancelEnrollment(r, e) \/ CommitEnrollment(r, e)
             \/ CheckSnapshot(r) \/ AbortEnrollment(r) \/ SslPaymentInitFails(r)
             \/ WriteStatus(r) \/ AcquireLock(r) \/ GatewayValidates(r)
             \/ GatewayValidationFails(r) \/ DeleteLock(r)
             \/ SettlePayment(r) \/ ClosePayment(r) \/ CommitRefund(r)
      PROVE  UNCHANGED currentEnrollments
  BY <1>1
  DEF Quiet, CreateEnrollment, CascadeDelete, CancelEnrollment, CommitEnrollment,
      CheckSnapshot, AbortEnrollment, SslPaymentInitFails, WriteStatus, AcquireLock,
      GatewayValidates, GatewayValidationFails, DeleteLock, SettlePayment, ClosePayment,
      CommitRefund
<1>2. ASSUME \/ Still
             \/ \E e \in Enrollments : LockExpires(e)
             \/ \E w \in Workshops, n \in SeatEdits : UpdateWorkshop(w, n)
      PROVE  UNCHANGED currentEnrollments
  BY <1>2 DEF Still, LockExpires, UpdateWorkshop
<1> QED  BY StepCases, <1>1, <1>2

\* The counter goes up only below a limit, and else not.
LEMMA CounterStep ==
  ASSUME TypeInv, ReadsKnown, CounterKnown, [Next]_vars
  PROVE  CounterKnown'
<1> USE DEF CounterKnown, TypeInv, TypeOK
<1>1. CASE UNCHANGED currentEnrollments
  BY <1>1 DEF Limits, Capped
<1>2. ASSUME NEW r \in Requests, TakeSeat(r), NEW w \in Capped
      PROVE  \E n \in Limits[w] : currentEnrollments'[w] <= n
  <2>1. CASE request[r].ws = w
    <3>1. request[r].op = "createEnrollment"
      BY <1>2 DEF TakeSeat, At, RequestsOK, RequestOK, ReservationPCs
    <3>2. request[r].limit \in Limits[w] /\ request[r].limit \in Nat
      BY <2>1, <3>1, LimitsAreNumbers DEF ReadsKnown
    <3>3. currentEnrollments'[w] <= request[r].limit
      BY <1>2, <2>1, <3>2 DEF TakeSeat, ReserveSeat, Capped
    <3> QED  BY <3>2, <3>3
  <2>2. CASE request[r].ws # w
    BY <1>2, <2>2 DEF TakeSeat, ReserveSeat, Capped
  <2> QED  BY <2>1, <2>2
<1>3. ASSUME NEW r \in Requests, ReleaseReservation(r) \/ DecrementSeats(r), NEW w \in Capped
      PROVE  \E n \in Limits[w] : currentEnrollments'[w] <= n
  <2>1. w \in Workshops /\ currentEnrollments[w] \in Int
    BY DEF Capped
  <2>2. currentEnrollments'[w] \in Int /\ currentEnrollments'[w] <= currentEnrollments[w]
    BY <1>3, <2>1 DEF ReleaseReservation, DecrementSeats, ReleaseSeat
  <2>3. PICK n \in Limits[w] : currentEnrollments[w] <= n
    OBVIOUS
  <2> QED  BY <2>1, <2>2, <2>3, LimitsAreNumbers
<1>4. Limits' = Limits /\ Capped' = Capped
  BY DEF Limits, Capped
<1> QED  BY WritersOfCounter, <1>1, <1>2, <1>3, <1>4

\* Only updateWorkshop writes maxSeats, and it writes one of the edits.
LEMMA MaxSeatsStep ==
  ASSUME TypeInv, MaxSeatsKnown, [Next]_vars
  PROVE  MaxSeatsKnown'
<1>1. UNCHANGED maxSeats \/ \E w \in Workshops, n \in SeatEdits : UpdateWorkshop(w, n)
  <2>1. ASSUME NEW r \in Requests,
               \/ Quiet(r)
               \/ \E u \in Users, w \in Workshops : CreateEnrollment(r, u, w)
               \/ \E u \in Users : CascadeDelete(r, u)
               \/ \E e \in Enrollments : CancelEnrollment(r, e) \/ CommitEnrollment(r, e)
               \/ TakeSeat(r) \/ CheckSnapshot(r) \/ AbortEnrollment(r)
               \/ ReleaseReservation(r) \/ SslPaymentInitFails(r)
               \/ DecrementSeats(r) \/ WriteStatus(r)
               \/ AcquireLock(r) \/ GatewayValidates(r) \/ GatewayValidationFails(r)
               \/ DeleteLock(r) \/ SettlePayment(r) \/ ClosePayment(r) \/ CommitRefund(r)
        PROVE  UNCHANGED maxSeats
    BY <2>1
    DEF Quiet, CreateEnrollment, CascadeDelete, CancelEnrollment, CommitEnrollment,
        TakeSeat, CheckSnapshot, AbortEnrollment, ReleaseReservation, SslPaymentInitFails,
        DecrementSeats, WriteStatus, AcquireLock, GatewayValidates,
        GatewayValidationFails, DeleteLock, SettlePayment, ClosePayment, CommitRefund
  <2>2. ASSUME Still \/ \E e \in Enrollments : LockExpires(e)
        PROVE  UNCHANGED maxSeats
    BY <2>2 DEF Still, LockExpires
  <2> QED  BY StepCases, <2>1, <2>2
<1>2. ASSUME NEW w \in Workshops, NEW n \in SeatEdits, UpdateWorkshop(w, n)
      PROVE  MaxSeatsKnown'
  BY <1>2, LimitsAreNumbers DEF UpdateWorkshop, TypeInv, TypeOK, MaxSeatsKnown, Limits, Capped
<1>3. CASE UNCHANGED maxSeats
  BY <1>3 DEF MaxSeatsKnown, Limits, Capped
<1> QED  BY <1>1, <1>2, <1>3

-----------------------------------------------------------------------------
(***************************************************************************)
(* The counter covers the seats in use.                                    *)
(***************************************************************************)
\* Before it gives a seat back, a request has closed the payment.
LEMMA ClosedStep ==
  ASSUME NoManualStatus, TypeInv, CreatedTogether, ClosedBefore, [Next]_vars
  PROVE  ClosedBefore'
<1>1. \A e \in Enrollments : paymentStatus[e] # "NONE" => paymentStatus'[e] # "NONE"
  BY PaymentStep DEF PaymentMoves
<1> USE DEF PCs, ClaimingPCs
<1>2. ASSUME NEW r \in Requests, Moves(r, {"decrement"})
      PROVE  ClosedBefore'
  BY <1>1, <1>2 DEF ClosedBefore, Moves, At, TypeInv, TypeOK, RequestsOK, RequestOK, EnrollmentPCs
<1>3. ASSUME NEW r \in Requests, ClosePayment(r) \/ CommitRefund(r)
      PROVE  ClosedBefore'
  <2>1. request[r].enr \in Enrollments
    BY <1>3 DEF ClosePayment, CommitRefund, At, TypeInv, RequestsOK, RequestOK, EnrollmentPCs
  <2>2. request'[r].enr = request[r].enr /\ \A s \in Requests \ {r} : request'[s] = request[s]
    BY <1>3 DEF ClosePayment, CommitRefund, Goto, TypeInv, TypeOK, RequestRecord
  <2>3. paymentStatus'[request[r].enr] # "NONE"
    BY <1>3, <2>1 DEF ClosePayment, CommitRefund, UpdatePayment, TypeInv, TypeOK
  <2>4. \A s \in Requests : At(s, "decrement") => request[s].enr \in Enrollments
    BY DEF At, TypeInv, RequestsOK, RequestOK, EnrollmentPCs
  <2> QED  BY <1>1, <2>2, <2>3, <2>4 DEF ClosedBefore, At
<1>4. ASSUME NEW r \in Requests,
             \/ Quiet(r) \/ \E u \in Users : CascadeDelete(r, u)
             \/ \E e \in Enrollments : CommitEnrollment(r, e)
      PROVE  Moves(r, {"decrement"})
  <2>1. Moves(r, ValidatingPCs \cup ClaimingPCs)
    BY <1>4, CommitMoves, CascadeMoves DEF Quiet
  <2> QED  BY <2>1 DEF Moves
<1>5. ASSUME NEW r \in Requests,
             \/ TakeSeat(r) \/ CheckSnapshot(r) \/ AbortEnrollment(r)
             \/ ReleaseReservation(r) \/ SslPaymentInitFails(r) \/ DecrementSeats(r)
             \/ WriteStatus(r) \/ AcquireLock(r) \/ GatewayValidates(r)
             \/ GatewayValidationFails(r) \/ DeleteLock(r) \/ SettlePayment(r)
      PROVE  Moves(r, {"decrement"})
  BY <1>5, FinishMoves, GotoMoves
  DEF TakeSeat, CheckSnapshot, AbortEnrollment, ReleaseReservation, SslPaymentInitFails,
      DecrementSeats, WriteStatus, AcquireLock, GatewayValidates, GatewayValidationFails,
      DeleteLock, AfterValidation, SettlePayment
<1>6. ASSUME NEW r \in Requests, NEW u \in Users, NEW w \in Workshops, CreateEnrollment(r, u, w)
      PROVE  ClosedBefore'
  <2>1. PICK q : request' = [request EXCEPT ![r] = q] /\ q.pc \in {"check", "reserve"}
    BY <1>6, CreateSets
  <2>2. paymentStatus' = paymentStatus
    BY <1>6 DEF CreateEnrollment
  <2> QED  BY <2>1, <2>2 DEF ClosedBefore, At, TypeInv, TypeOK
<1>7. ASSUME NEW r \in Requests, NEW e \in Enrollments, CancelEnrollment(r, e)
      PROVE  FALSE
  BY <1>7 DEF CancelEnrollment, BeginOn, NoManualStatus
<1>8. ASSUME \/ Still
             \/ \E e \in Enrollments : LockExpires(e)
             \/ \E w \in Workshops, n \in SeatEdits : UpdateWorkshop(w, n)
      PROVE  ClosedBefore'
  BY <1>8 DEF Still, LockExpires, UpdateWorkshop, ClosedBefore, At
<1> QED  BY StepCases, <1>2, <1>3, <1>4, <1>5, <1>6, <1>7, <1>8

\* createEnrollment's reservation, from the seat taken to the enrollment.
LEMMA ReservationCovered ==
  ASSUME SingleRelease, TypeInv, CreatedTogether, ReadsKnown, ClosedBefore,
         NEW w \in Capped, Covered(w), NEW r \in Requests,
         \/ TakeSeat(r) \/ CheckSnapshot(r) \/ AbortEnrollment(r)
         \/ ReleaseReservation(r) \/ \E e \in Enrollments : CommitEnrollment(r, e)
         \/ \E u \in Users, v \in Workshops : CreateEnrollment(r, u, v)
  PROVE  Covered(w)'
<1>1. w \in Workshops
  BY DEF Capped
<1>2. ASSUME request[r].op = "createEnrollment", request[r].ws = w
      PROVE  request[r].limit # Unlimited
  BY <1>2, LimitsAreNumbers, StoreAssumption DEF ReadsKnown
<1>3. request[r].pc \in ReservationPCs => request[r].op = "createEnrollment"
  BY DEF TypeInv, RequestsOK, RequestOK
<1>4. CASE TakeSeat(r)
  <2>1. ActiveAt(w)' = ActiveAt(w)
    BY <1>4 DEF TakeSeat, ActiveAt, Active, Found
  <2>2. CASE request[r].ws = w
    <3>1. currentEnrollments'[w] = currentEnrollments[w] + 1
      BY <1>1, <1>4, <2>2 DEF TakeSeat, ReserveSeat, TypeInv, TypeOK
    <3>2. Claims(w)' \subseteq Claims(w) \cup {r}
      BY <1>4 DEF TakeSeat, Goto, Claims, HoldsReservation, OwesRelease, At, Found, TypeInv, TypeOK
    <3> QED  BY <1>1, <2>1, <3>1, <3>2, Takes
  <2>3. CASE request[r].ws # w
    <3>1. currentEnrollments'[w] = currentEnrollments[w]
      BY <1>1, <1>4, <2>3 DEF TakeSeat, ReserveSeat, TypeInv, TypeOK
    <3>2. Claims(w)' \subseteq Claims(w)
      BY <1>4, <2>3 DEF TakeSeat, Goto, Claims, HoldsReservation, OwesRelease, At, Found,
         TypeInv, TypeOK, RequestRecord
    <3> QED  BY <1>1, <2>1, <3>1, <3>2, Shrinks
  <2> QED  BY <2>2, <2>3
<1>5. CASE CheckSnapshot(r) \/ AbortEnrollment(r)
  <2>1. ActiveAt(w)' = ActiveAt(w) /\ currentEnrollments' = currentEnrollments
    BY <1>5 DEF CheckSnapshot, AbortEnrollment, ActiveAt, Active, Found
  <2>2. Claims(w)' \subseteq Claims(w)
    BY <1>3, <1>5 DEF CheckSnapshot, AbortEnrollment, Goto, Claims, HoldsReservation,
       OwesRelease, At, Found, TypeInv, TypeOK, RequestRecord, ReservationPCs
  <2> QED  BY <1>1, <2>1, <2>2, Shrinks
<1>6. CASE ReleaseReservation(r)
  <2>1. ActiveAt(w)' = ActiveAt(w)
    BY <1>6 DEF ReleaseReservation, ActiveAt, Active, Found
  <2>2. Moves(r, ClaimingPCs)
    BY <1>6, FinishMoves DEF ReleaseReservation, ClaimingPCs
  <2>3. Claims(w)' \subseteq Claims(w) \ {r}
    BY <1>6, <2>2, MovesClaimNothing DEF ReleaseReservation, Found
  <2>4. CASE request[r].ws = w
    <3>1. r \in Claims(w)
      BY <1>2, <1>3, <1>6, <2>4
      DEF ReleaseReservation, Claims, HoldsReservation, At, ReservationPCs
    <3>2. currentEnrollments'[w] \in Int /\ currentEnrollments'[w] >= currentEnrollments[w] - 1
      BY <1>1, <1>6 DEF ReleaseReservation, ReleaseSeat, TypeInv, TypeOK
    <3> QED  BY <1>1, <2>1, <2>3, <3>1, <3>2, GivesBack
  <2>5. CASE request[r].ws # w
    <3>1. currentEnrollments'[w] = currentEnrollments[w]
      BY <1>1, <1>6, <2>5 DEF ReleaseReservation, ReleaseSeat, TypeInv, TypeOK
    <3> QED  BY <1>1, <2>1, <2>3, <3>1, Shrinks
  <2> QED  BY <2>4, <2>5
<1>7. ASSUME NEW e \in Enrollments, CommitEnrollment(r, e)
      PROVE  Covered(w)'
  <2>1. Moves(r, ClaimingPCs)
    BY <1>7, CommitMoves DEF Moves
  <2>2. \A s \in Requests : At(s, "decrement") => request[s].enr # e
    BY <1>7 DEF CommitEnrollment, ClosedBefore, CreatedTogether
  <2>3. \A f \in Enrollments : Found(f)' => f = e \/ Found(f)
    BY <1>7 DEF CommitEnrollment, Found, TypeInv, TypeOK
  <2>4. Claims(w)' \subseteq Claims(w) \ {r}
    <3>1. \A s \in Requests : At(s, "decrement") /\ Found(request[s].enr)'
             => request'[s] # request[s] \/ Found(request[s].enr)
      BY <2>2, <2>3 DEF At, TypeInv, RequestsOK, RequestOK, EnrollmentPCs, Found
    <3> QED  BY <2>1, <3>1, MovesClaimNothing
  <2>5. currentEnrollments' = currentEnrollments
    BY <1>7 DEF CommitEnrollment
  <2>6. CASE request[r].ws = w
    <3>1. r \in Claims(w)
      BY <1>2, <1>3, <1>7, <2>6
      DEF CommitEnrollment, Claims, HoldsReservation, At, ReservationPCs
    <3>2. ActiveAt(w)' \subseteq ActiveAt(w) \cup {e}
      BY <1>7 DEF CommitEnrollment, ActiveAt, Active, Found, TypeInv, TypeOK
    <3> QED  BY <1>1, <2>4, <2>5, <3>1, <3>2, Enrolls
  <2>7. CASE request[r].ws # w
    <3>1. ActiveAt(w)' \subseteq ActiveAt(w)
      BY <1>7, <2>7 DEF CommitEnrollment, ActiveAt, Active, Found, TypeInv, TypeOK
    <3> QED  BY <1>1, <2>4, <2>5, <3>1, Shrinks
  <2> QED  BY <2>6, <2>7
<1>8. ASSUME NEW u \in Users, NEW v \in Workshops, CreateEnrollment(r, u, v)
      PROVE  Covered(w)'
  <2>1. PICK q : /\ request' = [request EXCEPT ![r] = q]
                 /\ q.pc \in {"check", "reserve"}
                 /\ q.pc = "check" => q.limit = Unlimited
    BY <1>8, CreateSets
  <2>2. ActiveAt(w)' = ActiveAt(w) /\ currentEnrollments' = currentEnrollments
    BY <1>8 DEF CreateEnrollment, ActiveAt, Active, Found
  <2>3. Claims(w)' \subseteq Claims(w)
    BY <1>8, <2>1 DEF CreateEnrollment, Claims, HoldsReservation, OwesRelease, At, Found,
       TypeInv, TypeOK
  <2> QED  BY <1>1, <2>2, <2>3, Shrinks
<1> QED  BY <1>4, <1>5, <1>6, <1>7, <1>8

\* An enrollment's end, from the transaction to the seat given back.
LEMMA ClosingCovered ==
  ASSUME SingleRelease, TypeInv, CreatedTogether, StatusesAgree,
         NEW w \in Capped, Covered(w), NEW r \in Requests,
         ClosePayment(r) \/ CommitRefund(r) \/ DecrementSeats(r)
  PROVE  Covered(w)'
<1> DEFINE e == request[r].enr
<1>1. w \in Workshops /\ e \in Enrollments
  BY DEF Capped, ClosePayment, CommitRefund, DecrementSeats, At, TypeInv, RequestsOK,
     RequestOK, EnrollmentPCs
<1>2. request[r].op # "cancelEnrollment"
  BY DEF SingleRelease, NoManualStatus, TypeInv, RequestsOK, RequestOK
<1>3. CASE ClosePayment(r) \/ CommitRefund(r)
  <2>1. /\ currentEnrollments' = currentEnrollments
        /\ request'[r].enr = e
        /\ request'[r].pc = "decrement"
        /\ request'[r].op = request[r].op
        /\ \A s \in Requests \ {r} : request'[s] = request[s]
    BY <1>3 DEF ClosePayment, CommitRefund, Goto, TypeInv, TypeOK, RequestRecord
  <2>2. PICK s \in {"CANCEL", "FAILED"} : UpdateEnrollment(e, s) /\ UNCHANGED deletedEnrollments
    BY <1>3 DEF ClosePayment, CommitRefund
  <2>3. \A f \in Enrollments : Found(f)' <=> Found(f)
    BY <1>1, <2>2 DEF UpdateEnrollment, Found, TypeInv, TypeOK
  <2>4. \A t \in Requests : At(t, "decrement") => request[t].enr \in Enrollments
    BY DEF At, TypeInv, RequestsOK, RequestOK, EnrollmentPCs
  <2>5. \A t \in Requests \ {r} : t \in Claims(w)' => t \in Claims(w)
    BY <2>1, <2>3, <2>4 DEF Claims, HoldsReservation, OwesRelease, At
  <2>6. CASE Found(e) /\ WorkshopOf[e] = w
    <3>1. e \in ActiveAt(w)
      BY <1>1, <1>3, <2>6 DEF ClosePayment, CommitRefund, UpdatePayment, StatusesAgree,
         ActiveAt, Active, ActiveStatuses
    <3>2. ActiveAt(w)' \subseteq ActiveAt(w) \ {e}
      BY <1>1, <2>2, <2>6 DEF UpdateEnrollment, ActiveAt, Active, ActiveStatuses, Found,
         TypeInv, TypeOK
    <3>3. Claims(w)' \subseteq Claims(w) \cup {r}
      BY <2>5 DEF Claims
    <3> QED  BY <1>1, <2>1, <3>1, <3>2, <3>3, Closes
  <2>7. CASE ~(Found(e) /\ WorkshopOf[e] = w)
    <3>1. ActiveAt(w)' \subseteq ActiveAt(w)
      BY <1>1, <2>2, <2>7 DEF UpdateEnrollment, ActiveAt, Active, ActiveStatuses, Found,
         TypeInv, TypeOK
    <3>2. r \notin Claims(w)'
      BY <1>1, <1>2, <2>1, <2>3, <2>7 DEF Claims, HoldsReservation, OwesRelease, At
    <3>3. Claims(w)' \subseteq Claims(w)
      BY <2>5, <3>2 DEF Claims
    <3> QED  BY <1>1, <2>1, <3>1, <3>3, Shrinks
  <2> QED  BY <2>6, <2>7
<1>4. CASE DecrementSeats(r)
  <2>1. ActiveAt(w)' = ActiveAt(w)
    BY <1>4 DEF DecrementSeats, ActiveAt, Active, Found
  <2>2. Moves(r, ClaimingPCs)
    BY <1>4, FinishMoves DEF DecrementSeats, ClaimingPCs
  <2>3. Claims(w)' \subseteq Claims(w) \ {r}
    BY <1>4, <2>2, MovesClaimNothing DEF DecrementSeats, Found
  <2>4. CASE Found(e) /\ WorkshopOf[e] = w
    <3>1. r \in Claims(w)
      BY <1>4, <2>4 DEF DecrementSeats, Claims, OwesRelease
    <3>2. currentEnrollments'[w] \in Int /\ currentEnrollments'[w] >= currentEnrollments[w] - 1
      BY <1>1, <1>4 DEF DecrementSeats, ReleaseSeat, TypeInv, TypeOK
    <3> QED  BY <1>1, <2>1, <2>3, <3>1, <3>2, GivesBack
  <2>5. CASE ~(Found(e) /\ WorkshopOf[e] = w)
    <3>1. currentEnrollments'[w] = currentEnrollments[w]
      BY <1>1, <1>2, <1>4, <2>5 DEF DecrementSeats, ReleaseSeat, TypeInv, TypeOK
    <3> QED  BY <1>1, <2>1, <2>3, <3>1, Shrinks
  <2> QED  BY <2>4, <2>5
<1> QED  BY <1>3, <1>4

\* The other steps take no seat and add no claim.
LEMMA RestCovered ==
  ASSUME SingleRelease, TypeInv, StatusesAgree, NEW w \in Capped, Covered(w), NEW r \in Requests,
         \/ Quiet(r) \/ \E u \in Users : CascadeDelete(r, u)
         \/ AcquireLock(r) \/ GatewayValidates(r) \/ GatewayValidationFails(r)
         \/ DeleteLock(r) \/ SettlePayment(r)
  PROVE  Covered(w)'
<1>1. w \in Workshops /\ currentEnrollments' = currentEnrollments
  BY DEF Capped, Quiet, CascadeDelete, AcquireLock, GatewayValidates,
     GatewayValidationFails, DeleteLock, SettlePayment
<1>2. Moves(r, ClaimingPCs)
  <2>1. CASE Quiet(r) \/ \E u \in Users : CascadeDelete(r, u)
    <3>1. Moves(r, ValidatingPCs \cup ClaimingPCs)
      BY <2>1, CascadeMoves DEF Quiet
    <3> QED  BY <3>1 DEF Moves
  <2>2. CASE \/ AcquireLock(r) \/ GatewayValidates(r) \/ GatewayValidationFails(r)
             \/ DeleteLock(r) \/ SettlePayment(r)
    BY <2>2, FinishMoves, GotoMoves
    DEF AcquireLock, GatewayValidates, GatewayValidationFails, DeleteLock, AfterValidation,
        SettlePayment, PCs, ClaimingPCs
  <2> QED  BY <2>1, <2>2
<1>3. \A e \in Enrollments : (Found(e)' => Found(e)) /\ (Active(e)' => Active(e))
  <2>1. CASE SettlePayment(r)
    <3>1. request[r].enr \in Enrollments
      BY <2>1, WorksOnEnrollment DEF SettlePayment, At, EnrollmentPCs
    <3> QED  BY <2>1, <3>1 DEF SettlePayment, UpdatePayment, UpdateEnrollment, StatusesAgree,
               Active, ActiveStatuses, Found, TypeInv, TypeOK
  <2>2. CASE ~SettlePayment(r)
    BY <2>2 DEF Quiet, CascadeDelete, AcquireLock, GatewayValidates, GatewayValidationFails,
       DeleteLock, Active, Found
  <2> QED  BY <2>1, <2>2
<1>4. \A s \in Requests : At(s, "decrement") => request[s].enr \in Enrollments
  BY DEF At, TypeInv, RequestsOK, RequestOK, EnrollmentPCs
<1>5. Claims(w)' \subseteq Claims(w)
  <2>1. \A s \in Requests : At(s, "decrement") /\ Found(request[s].enr)'
           => request'[s] # request[s] \/ Found(request[s].enr)
    BY <1>3, <1>4 DEF Found
  <2> QED  BY <1>2, <2>1, MovesClaimNothing
<1>6. ActiveAt(w)' \subseteq ActiveAt(w)
  BY <1>3 DEF ActiveAt
<1> QED  BY <1>1, <1>5, <1>6, Shrinks

\* Every step keeps the counter above the seats in use.
LEMMA CoveredStep ==
  ASSUME SingleRelease, TypeInv, CreatedTogether, StatusesAgree, ReadsKnown, ClosedBefore,
         SeatsCoverActive, [Next]_vars
  PROVE  SeatsCoverActive'
<1> SUFFICES ASSUME NEW w \in Capped
             PROVE  Covered(w)'
  BY DEF SeatsCoverActive, Covered, Capped
<1>1. Covered(w) /\ w \in Workshops
  BY DEF SeatsCoverActive, Covered, Capped
<1>2. CASE \/ Still
           \/ \E e \in Enrollments : LockExpires(e)
           \/ \E v \in Workshops, n \in SeatEdits : UpdateWorkshop(v, n)
  <2>1. UNCHANGED <<currentEnrollments, enrollmentVars, request>>
    BY <1>2 DEF Still, LockExpires, UpdateWorkshop
  <2>2. ActiveAt(w)' = ActiveAt(w) /\ Claims(w)' = Claims(w)
    BY <2>1 DEF ActiveAt, Active, Found, Claims, HoldsReservation, OwesRelease, At
  <2> QED  BY <1>1, <2>1, <2>2, Shrinks
<1>3. ASSUME NEW r \in Requests,
             \/ \E e \in Enrollments : CancelEnrollment(r, e)
             \/ SslPaymentInitFails(r) \/ WriteStatus(r)
      PROVE  FALSE
  BY <1>3 DEF SingleRelease, NoManualStatus, CancelEnrollment, BeginOn,
     SslPaymentInitFails, WriteStatus, At, TypeInv, RequestsOK, RequestOK
<1> QED  BY StepCases, ReservationCovered, ClosingCovered, RestCovered, <1>1, <1>2, <1>3

-----------------------------------------------------------------------------
\* The invariant as a whole, on top of TypeInv, CreatedTogether and StatusesAgree.
SeatInv == MaxSeatsKnown /\ ReadsKnown /\ CounterKnown /\ ClosedBefore /\ SeatsCoverActive

\* In the beginning no seat is in use.
LEMMA SeatInit == Init => SeatInv
<1> SUFFICES ASSUME Init PROVE SeatInv
  OBVIOUS
<1>1. MaxSeatsKnown /\ ReadsKnown /\ CounterKnown /\ ClosedBefore
  BY StoreAssumption, LimitsAreNumbers
  DEF Init, Idle, MaxSeatsKnown, ReadsKnown, CounterKnown, ClosedBefore, At, Capped
<1>2. SeatsCoverActive
  <2> SUFFICES ASSUME NEW w \in Capped
               PROVE  Cardinality(ActiveAt(w)) + Cardinality(Claims(w)) <= currentEnrollments[w]
    BY DEF SeatsCoverActive
  <2>1. ActiveAt(w) = {} /\ Claims(w) = {}
    BY DEF Init, Idle, ActiveAt, Active, Found, Claims, HoldsReservation, OwesRelease, At
  <2>2. currentEnrollments[w] = 0
    BY DEF Init, Capped
  <2> QED  BY <2>1, <2>2, FS_EmptySet
<1> QED  BY <1>1, <1>2 DEF SeatInv

(***************************************************************************)
(* The limits, the counter and the claims stay in step while requests take *)
(* and give back seats in any order, and die at any await.                 *)
(***************************************************************************)
THEOREM SeatInvariant ==
  ASSUME SingleRelease
  PROVE  Spec => []SeatInv
<1>1. TypeInv /\ CreatedTogether /\ StatusesAgree /\ SeatInv /\ [Next]_vars => SeatInv'
  BY MaxSeatsStep, ReadsStep, CounterStep, ClosedStep, CoveredStep DEF SeatInv, SingleRelease
<1>2. Spec => []StatusesAgree
  BY StatusesMoveTogether DEF SingleRelease
<1> QED  BY <1>1, <1>2, SeatInit, TypeInvariant, CreatedTogetherHolds, PTL DEF Spec

(***************************************************************************)
(* currentEnrollments, which createEnrollment compares with maxSeats, is   *)
(* never below the seats that are taken or promised.                       *)
(***************************************************************************)
THEOREM CounterCoversSeats ==
  ASSUME SingleRelease
  PROVE  Spec => []SeatsCoverActive
BY SeatInvariant, PTL DEF SeatInv

(***************************************************************************)
(* However many users compete for the last seat, no workshop with a limit  *)
(* has more active enrollments than a limit it had.                        *)
(***************************************************************************)
THEOREM NeverOversold ==
  ASSUME SingleRelease
  PROVE  Spec => []NoOversell
<1>1. TypeInv /\ SeatInv => NoOversell
  <2> SUFFICES ASSUME TypeInv, SeatInv, NEW w \in Capped
               PROVE  \E n \in Limits[w] : Cardinality(ActiveAt(w)) <= n
    BY DEF NoOversell
  <2>1. PICK n \in Limits[w] : currentEnrollments[w] <= n
    BY DEF SeatInv, CounterKnown
  <2>2. Cardinality(ActiveAt(w)) + Cardinality(Claims(w)) <= currentEnrollments[w]
    BY DEF SeatInv, SeatsCoverActive
  <2>3. n \in Nat /\ currentEnrollments[w] \in Int
    BY <2>1, LimitsAreNumbers DEF Capped, TypeInv, TypeOK
  <2> QED  BY <2>1, <2>2, <2>3, FiniteSeats
<1> QED  BY <1>1, SeatInvariant, TypeInvariant, PTL

-----------------------------------------------------------------------------
(***************************************************************************)
(* The other direction: no seat is counted that nobody uses or claims.  It *)
(* needs that no request dies with its claim, that no deletion hides an    *)
(* enrollment or a workshop from the decrement, and that nobody closes an  *)
(* enrollment by its status alone; that a seat is given back twice it      *)
(* allows.                                                                 *)
(***************************************************************************)
NothingVanishes ==
  /\ Ops \cap {"updateEnrollmentStatus", "deleteUser", "deleteWorkshop"} = {}
  /\ "crash" \notin Faults

NothingDeleted == deletedWorkshops = {} /\ deletedEnrollments = {}

Used(w) ==
  currentEnrollments[w] <= Cardinality(ActiveAt(w)) + Cardinality(Claims(w))

NoSeatLost == \A w \in Capped : Used(w)

\* The seats in use are finitely many in the next state, too.
LEMMA FiniteNext ==
  ASSUME NEW w
  PROVE  /\ IsFiniteSet(ActiveAt(w)') /\ IsFiniteSet(Claims(w)')
         /\ Cardinality(ActiveAt(w)') \in Nat /\ Cardinality(Claims(w)') \in Nat
<1>1. ActiveAt(w)' \subseteq Enrollments /\ Claims(w)' \subseteq Requests
  BY DEF ActiveAt, Claims
<1> QED  BY <1>1, StoreAssumption, FS_Subset, FS_CardinalityType

\* No seat goes out of use.
LEMMA UseGrows ==
  ASSUME TypeInv, NEW w \in Workshops, Used(w),
         currentEnrollments'[w] = currentEnrollments[w],
         ActiveAt(w) \subseteq ActiveAt(w)', Claims(w) \subseteq Claims(w)'
  PROVE  Used(w)'
<1>1. /\ Cardinality(ActiveAt(w)) <= Cardinality(ActiveAt(w)')
      /\ Cardinality(Claims(w)) <= Cardinality(Claims(w)')
  BY FiniteNext, FS_Subset
<1> QED  BY <1>1, FiniteSeats, FiniteNext DEF Used, TypeInv, TypeOK

\* The counter goes up, and there is a new claim.
LEMMA UseTaken ==
  ASSUME TypeInv, NEW w \in Workshops, Used(w), NEW r \in Claims(w)', r \notin Claims(w),
         currentEnrollments'[w] = currentEnrollments[w] + 1,
         ActiveAt(w) \subseteq ActiveAt(w)', Claims(w) \subseteq Claims(w)'
  PROVE  Used(w)'
<1>1. Cardinality(ActiveAt(w)) <= Cardinality(ActiveAt(w)')
  BY FiniteNext, FS_Subset
<1>2. Cardinality(Claims(w)) <= Cardinality(Claims(w)') - 1
  BY FiniteNext, ShrinksByOne
<1> QED  BY <1>1, <1>2, FiniteSeats, FiniteNext DEF Used, TypeInv, TypeOK

\* The counter goes down, and at most one claim ends.
LEMMA UseGivenBack ==
  ASSUME TypeInv, NEW w \in Workshops, Used(w), NEW r,
         currentEnrollments'[w] = currentEnrollments[w] - 1,
         ActiveAt(w) \subseteq ActiveAt(w)', Claims(w) \ {r} \subseteq Claims(w)'
  PROVE  Used(w)'
<1>1. Cardinality(ActiveAt(w)) <= Cardinality(ActiveAt(w)')
  BY FiniteNext, FS_Subset
<1>2. Cardinality(Claims(w)) <= Cardinality(Claims(w)') + 1
  BY FiniteNext, GrowsByOne
<1> QED  BY <1>1, <1>2, FiniteSeats, FiniteNext DEF Used, TypeInv, TypeOK

\* At most one claim ends, and there is an active enrollment more.
LEMMA UseEnrolled ==
  ASSUME TypeInv, NEW w \in Workshops, Used(w), NEW r,
         NEW e \in ActiveAt(w)', e \notin ActiveAt(w),
         currentEnrollments' = currentEnrollments,
         ActiveAt(w) \subseteq ActiveAt(w)', Claims(w) \ {r} \subseteq Claims(w)'
  PROVE  Used(w)'
<1>1. Cardinality(ActiveAt(w)) <= Cardinality(ActiveAt(w)') - 1
  BY FiniteNext, ShrinksByOne
<1>2. Cardinality(Claims(w)) <= Cardinality(Claims(w)') + 1
  BY FiniteNext, GrowsByOne
<1> QED  BY <1>1, <1>2, FiniteSeats, FiniteNext DEF Used, TypeInv, TypeOK

\* At most one enrollment ends, and there is a claim more.
LEMMA UseClosed ==
  ASSUME TypeInv, NEW w \in Workshops, Used(w), NEW e,
         NEW r \in Claims(w)', r \notin Claims(w),
         currentEnrollments' = currentEnrollments,
         ActiveAt(w) \ {e} \subseteq ActiveAt(w)', Claims(w) \subseteq Claims(w)'
  PROVE  Used(w)'
<1>1. Cardinality(ActiveAt(w)) <= Cardinality(ActiveAt(w)') + 1
  BY FiniteNext, GrowsByOne
<1>2. Cardinality(Claims(w)) <= Cardinality(Claims(w)') - 1
  BY FiniteNext, ShrinksByOne
<1> QED  BY <1>1, <1>2, FiniteSeats, FiniteNext DEF Used, TypeInv, TypeOK

\* Only the two deletions hide a document.
LEMMA NothingDeletedStep ==
  ASSUME NothingVanishes, TypeInv, NothingDeleted, [Next]_vars
  PROVE  NothingDeleted'
<1>1. ASSUME NEW r \in Requests, Arrive(r)
      PROVE  NothingDeleted'
  BY <1>1
  DEF NothingVanishes, NothingDeleted, Arrive, CreateEnrollment, CascadeDelete,
      CancelEnrollment, ReadForUpdate, InitPayment, SuccessPayment, HandleIPNValid,
      FailOrCancelPayment, HandleIPNFailed, RefundPayment
<1>2. ASSUME NEW r \in Requests, Resume(r) \/ Crash(r)
      PROVE  NothingDeleted'
  BY <1>2
  DEF NothingDeleted, Resume, Crash, TakeSeat, FullyBooked, CheckSnapshot, CommitEnrollment,
      AbortEnrollment, ReleaseReservation, SslPaymentInit, SslPaymentInitFails,
      DecrementSeats, WriteStatus, AcquireLock, GatewayValidates, GatewayValidationFails,
      DeleteLock, CheckAmount, SettlePayment, StoreInvoice, ClosePayment,
      SslRefundPayment, SslRefundFails, CommitRefund, AbortTransaction, SaveDeletedUser
<1>3. ASSUME NEW e \in Enrollments, CustomerPays(e) \/ LockExpires(e)
      PROVE  NothingDeleted'
  BY <1>3 DEF NothingDeleted, CustomerPays, LockExpires
<1>4. ASSUME NEW w \in Workshops,
             DeleteWorkshop(w) \/ \E n \in SeatEdits : UpdateWorkshop(w, n)
      PROVE  NothingDeleted'
  BY <1>4 DEF NothingVanishes, NothingDeleted, DeleteWorkshop, UpdateWorkshop
<1>5. CASE UNCHANGED vars
  BY <1>5 DEF NothingDeleted, vars
<1> QED  BY <1>1, <1>2, <1>3, <1>4, <1>5 DEF Next

\* No enrollment is hidden, and only r moves: the others keep their claims.
LEMMA OthersClaim ==
  ASSUME TypeInv, NEW r \in Requests, NEW w,
         \A s \in Requests \ {r} : request'[s] = request[s],
         \A e \in Enrollments : Found(e) => Found(e)'
  PROVE  Claims(w) \ {r} \subseteq Claims(w)'
<1>1. \A s \in Requests : At(s, "decrement") => request[s].enr \in Enrollments
  BY DEF At, TypeInv, RequestsOK, RequestOK, EnrollmentPCs
<1>2. ASSUME NEW s \in Requests \ {r}, OwesRelease(s, w)
      PROVE  OwesRelease(s, w)'
  BY <1>1, <1>2 DEF OwesRelease, At
<1>3. ASSUME NEW s \in Requests \ {r}, HoldsReservation(s, w)
      PROVE  HoldsReservation(s, w)'
  BY <1>3 DEF HoldsReservation
<1> QED  BY <1>2, <1>3 DEF Claims

\* A request without a claim of w moves, and no enrollment ends.
LEMMA UnclaimedMoves ==
  ASSUME TypeInv, NEW w \in Workshops, Used(w), NEW r \in Requests, r \notin Claims(w),
         \A s \in Requests \ {r} : request'[s] = request[s],
         \A e \in Enrollments : (Found(e) => Found(e)') /\ (Active(e) => Active(e)'),
         currentEnrollments' = currentEnrollments
  PROVE  Used(w)'
<1>1. Claims(w) \subseteq Claims(w)'
  BY OthersClaim
<1>2. ActiveAt(w) \subseteq ActiveAt(w)'
  BY DEF ActiveAt
<1> QED  BY <1>1, <1>2, UseGrows

\* Only a request at one of these places has a claim.
LEMMA ClaimsAt ==
  ASSUME NEW r \in Requests, NEW w, request[r].pc \notin ClaimingPCs
  PROVE  r \notin Claims(w)
BY DEF Claims, HoldsReservation, OwesRelease, At, ClaimingPCs

\* An arriving request claims nothing, unless it cancels an enrollment.
LEMMA ArriveUses ==
  ASSUME NothingVanishes, TypeInv, NothingDeleted, NEW w \in Workshops, Used(w),
         NEW r \in Requests, Arrive(r)
  PROVE  Used(w)'
<1>1. At(r, "idle") /\ r \notin Claims(w)
      /\ \A s \in Requests \ {r} : request'[s] = request[s]
  <2>1. At(r, "idle") /\ \E q : request' = [request EXCEPT ![r] = q]
    BY DEF Arrive, CreateEnrollment, CascadeDelete, CancelEnrollment, ReadForUpdate,
       InitPayment, SuccessPayment, HandleIPNValid, FailOrCancelPayment, HandleIPNFailed,
       RefundPayment, BeginOn
  <2> QED  BY <2>1, ClaimsAt DEF At, ClaimingPCs, TypeInv, TypeOK
<1>2. ASSUME NEW e \in Enrollments, CancelEnrollment(r, e)
      PROVE  Used(w)'
  <2>1. /\ request'[r].pc = "decrement" /\ request'[r].op = "cancelEnrollment"
        /\ request'[r].enr = e
    BY <1>2 DEF CancelEnrollment, BeginOn, Idle, TypeInv, TypeOK
  <2>2. /\ enrollmentStatus' = [enrollmentStatus EXCEPT ![e] = "CANCEL"]
        /\ deletedEnrollments' = deletedEnrollments
        /\ currentEnrollments' = currentEnrollments
    BY <1>2 DEF CancelEnrollment, UpdateEnrollment, Active
  <2>3. \A f \in Enrollments : Found(f) => Found(f)'
    BY <2>2 DEF Found, TypeInv, TypeOK
  <2>4. Claims(w) \subseteq Claims(w)'
    BY <1>1, <2>3, OthersClaim
  <2>5. CASE WorkshopOf[e] = w
    <3>1. r \in Claims(w)'
      BY <2>1, <2>5 DEF Claims, OwesRelease, At
    <3>2. ActiveAt(w) \ {e} \subseteq ActiveAt(w)'
      BY <2>2 DEF ActiveAt, Active, Found, TypeInv, TypeOK
    <3> QED  BY <1>1, <2>2, <2>4, <3>1, <3>2, UseClosed
  <2>6. CASE WorkshopOf[e] # w
    <3>1. ActiveAt(w) \subseteq ActiveAt(w)'
      BY <2>2, <2>6 DEF ActiveAt, Active, Found, TypeInv, TypeOK
    <3> QED  BY <2>2, <2>4, <3>1, UseGrows
  <2> QED  BY <2>5, <2>6
<1>3. ASSUME \A e \in Enrollments : ~CancelEnrollment(r, e)
      PROVE  Used(w)'
  <2>1. /\ enrollmentStatus' = enrollmentStatus
        /\ deletedEnrollments' = deletedEnrollments
        /\ currentEnrollments' = currentEnrollments
    BY <1>3 DEF NothingVanishes, Arrive, CreateEnrollment, CascadeDelete, ReadForUpdate,
       InitPayment, SuccessPayment, HandleIPNValid, FailOrCancelPayment, HandleIPNFailed,
       RefundPayment
  <2>2. \A e \in Enrollments : (Found(e) => Found(e)') /\ (Active(e) => Active(e)')
    BY <2>1 DEF Active, Found
  <2> QED  BY <1>1, <2>1, <2>2, UnclaimedMoves
<1> QED  BY <1>2, <1>3

\* createEnrollment, from the reservation to the enrollment or the release.
LEMMA ReservationUses ==
  ASSUME TypeInv, NothingDeleted, ReadsKnown, NEW w \in Capped, Used(w), NEW r \in Requests,
         \/ TakeSeat(r) \/ CheckSnapshot(r) \/ AbortEnrollment(r)
         \/ ReleaseReservation(r) \/ \E e \in Enrollments : CommitEnrollment(r, e)
  PROVE  Used(w)'
<1>1. w \in Workshops /\ request[r].op = "createEnrollment" /\ request[r].ws \in Workshops
  BY DEF Capped, TakeSeat, CheckSnapshot, AbortEnrollment, ReleaseReservation,
     CommitEnrollment, At, TypeInv, RequestsOK, RequestOK, ReservationPCs
<1>2. request[r].ws = w => request[r].limit # Unlimited
  BY <1>1, LimitsAreNumbers, StoreAssumption DEF ReadsKnown
<1>3. \A s \in Requests \ {r} : request'[s] = request[s]
  <2>1. DOMAIN request = Requests
    BY DEF TypeInv, TypeOK
  <2>2. \/ \E label : Goto(r, label)
        \/ Finish(r)
        \/ \E e \in Enrollments :
             request' = [request EXCEPT ![r].enr = e, ![r].pc = "open"]
    BY DEF TakeSeat, CheckSnapshot, AbortEnrollment, ReleaseReservation, CommitEnrollment
  <2> QED  BY <2>1, <2>2 DEF Goto, Finish
<1>4. r \in Claims(w) /\ request[r].pc # "decrement" => request[r].ws = w
  BY DEF Claims, HoldsReservation, OwesRelease, At
<1>5. ASSUME \A e \in Enrollments : ~CommitEnrollment(r, e)
      PROVE  /\ Claims(w) \ {r} \subseteq Claims(w)'
             /\ ActiveAt(w) \subseteq ActiveAt(w)'
  <2>1. UNCHANGED <<enrollmentStatus, deletedEnrollments>>
    BY <1>5 DEF TakeSeat, CheckSnapshot, AbortEnrollment, ReleaseReservation
  <2>2. \A e \in Enrollments : (Found(e) => Found(e)') /\ (Active(e) => Active(e)')
    BY <2>1 DEF Active, Found
  <2> QED  BY <1>3, <2>2, OthersClaim DEF ActiveAt
<1>6. CASE TakeSeat(r)
  <2>1. /\ Claims(w) \ {r} \subseteq Claims(w)' /\ ActiveAt(w) \subseteq ActiveAt(w)'
        /\ r \notin Claims(w)
    BY <1>5, <1>6, ClaimsAt DEF TakeSeat, CommitEnrollment, At, ClaimingPCs
  <2>2. CASE request[r].ws = w
    <3>1. currentEnrollments'[w] = currentEnrollments[w] + 1
      BY <1>1, <1>6, <2>2 DEF TakeSeat, ReserveSeat, TypeInv, TypeOK
    <3>2. r \in Claims(w)'
      BY <1>1, <1>2, <1>6, <2>2 DEF TakeSeat, Goto, Claims, HoldsReservation, TypeInv,
         TypeOK, RequestRecord
    <3> QED  BY <1>1, <2>1, <3>1, <3>2, UseTaken
  <2>3. CASE request[r].ws # w
    <3>1. currentEnrollments'[w] = currentEnrollments[w]
      BY <1>1, <1>6, <2>3 DEF TakeSeat, ReserveSeat, TypeInv, TypeOK
    <3> QED  BY <1>1, <2>1, <3>1, UseGrows
  <2> QED  BY <2>2, <2>3
<1>7. CASE CheckSnapshot(r) \/ AbortEnrollment(r)
  <2>1. Claims(w) \ {r} \subseteq Claims(w)' /\ ActiveAt(w) \subseteq ActiveAt(w)'
    BY <1>5, <1>7 DEF CheckSnapshot, AbortEnrollment, CommitEnrollment, Goto, Finish, At,
       TypeInv, TypeOK
  <2>2. r \in Claims(w) => r \in Claims(w)'
    BY <1>1, <1>7 DEF CheckSnapshot, AbortEnrollment, Goto, Claims, HoldsReservation,
       OwesRelease, At, TypeInv, TypeOK, RequestRecord
  <2>3. currentEnrollments' = currentEnrollments
    BY <1>7 DEF CheckSnapshot, AbortEnrollment
  <2> QED  BY <1>1, <2>1, <2>2, <2>3, UseGrows
<1>8. CASE ReleaseReservation(r)
  <2>1. Claims(w) \ {r} \subseteq Claims(w)' /\ ActiveAt(w) \subseteq ActiveAt(w)'
    BY <1>5, <1>8 DEF ReleaseReservation, CommitEnrollment, At
  <2>2. CASE request[r].ws = w
    <3>1. currentEnrollments'[w] = currentEnrollments[w] - 1
      BY <1>1, <1>2, <1>8, <2>2 DEF ReleaseReservation, ReleaseSeat, NothingDeleted,
         TypeInv, TypeOK
    <3> QED  BY <1>1, <2>1, <3>1, UseGivenBack
  <2>3. CASE request[r].ws # w
    <3>1. currentEnrollments'[w] = currentEnrollments[w]
      BY <1>1, <1>8, <2>3 DEF ReleaseReservation, ReleaseSeat, TypeInv, TypeOK
    <3>2. r \notin Claims(w)
      BY <1>4, <1>8, <2>3 DEF ReleaseReservation, At
    <3> QED  BY <1>1, <2>1, <3>1, <3>2, UseGrows
  <2> QED  BY <2>2, <2>3
<1>9. ASSUME NEW e \in Enrollments, CommitEnrollment(r, e)
      PROVE  Used(w)'
  <2>1. /\ enrollmentStatus[e] = "NONE" /\ enrollmentStatus'[e] \in ActiveStatuses
        /\ \A f \in Enrollments \ {e} : enrollmentStatus'[f] = enrollmentStatus[f]
        /\ deletedEnrollments' = {} /\ WorkshopOf[e] = request[r].ws
        /\ currentEnrollments' = currentEnrollments
    BY <1>9 DEF CommitEnrollment, ActiveStatuses, NothingDeleted, TypeInv, TypeOK
  <2>2. \A f \in Enrollments : (Found(f) => Found(f)') /\ (Active(f) => Active(f)')
    BY <2>1 DEF Active, Found
  <2>3. Claims(w) \ {r} \subseteq Claims(w)' /\ ActiveAt(w) \subseteq ActiveAt(w)'
    BY <1>3, <2>2, OthersClaim DEF ActiveAt
  <2>4. CASE request[r].ws = w
    <3>1. e \in ActiveAt(w)' /\ e \notin ActiveAt(w)
      BY <2>1, <2>4 DEF ActiveAt, Active, Found, ActiveStatuses
    <3> QED  BY <1>1, <2>1, <2>3, <3>1, UseEnrolled
  <2>5. CASE request[r].ws # w
    <3>1. r \notin Claims(w)
      BY <1>4, <1>9, <2>5 DEF CommitEnrollment, At
    <3> QED  BY <1>1, <2>1, <2>3, <3>1, UseGrows
  <2> QED  BY <2>4, <2>5
<1> QED  BY <1>6, <1>7, <1>8, <1>9

\* An enrollment's end, from the transaction to the seat given back.
LEMMA ClosingUses ==
  ASSUME TypeInv, NothingDeleted, NEW w \in Workshops, Used(w), NEW r \in Requests,
         ClosePayment(r) \/ CommitRefund(r) \/ DecrementSeats(r)
  PROVE  Used(w)'
<1> DEFINE e == request[r].enr
<1>1. e \in Enrollments
  BY DEF ClosePayment, CommitRefund, DecrementSeats, At, TypeInv, RequestsOK, RequestOK,
     EnrollmentPCs
<1>2. \A s \in Requests \ {r} : request'[s] = request[s]
  BY DEF ClosePayment, CommitRefund, DecrementSeats, Goto, Finish, TypeInv, TypeOK
<1>3. CASE ClosePayment(r) \/ CommitRefund(r)
  <2>1. /\ currentEnrollments' = currentEnrollments
        /\ request'[r].enr = e /\ request'[r].pc = "decrement"
        /\ request[r].pc \notin ClaimingPCs
    BY <1>3 DEF ClosePayment, CommitRefund, Goto, At, ClaimingPCs, TypeInv, TypeOK,
       RequestRecord
  <2>2. PICK s \in {"CANCEL", "FAILED"} : UpdateEnrollment(e, s) /\ UNCHANGED deletedEnrollments
    BY <1>3 DEF ClosePayment, CommitRefund
  <2>3. \A f \in Enrollments : Found(f) => Found(f)'
    BY <1>1, <2>2 DEF UpdateEnrollment, Found, TypeInv, TypeOK
  <2>4. Claims(w) \subseteq Claims(w)' /\ r \notin Claims(w)
    BY <1>2, <2>1, <2>3, OthersClaim, ClaimsAt
  <2>5. ActiveAt(w) \ {e} \subseteq ActiveAt(w)'
    BY <1>1, <2>2 DEF UpdateEnrollment, ActiveAt, Active, Found, TypeInv, TypeOK
  <2>6. CASE e \in ActiveAt(w)
    <3>1. r \in Claims(w)'
      BY <1>1, <2>1, <2>3, <2>6 DEF Claims, OwesRelease, At, ActiveAt, Active
    <3> QED  BY <2>1, <2>4, <2>5, <3>1, UseClosed
  <2>7. CASE e \notin ActiveAt(w)
    BY <2>1, <2>4, <2>5, <2>7, UseGrows
  <2> QED  BY <2>6, <2>7
<1>4. CASE DecrementSeats(r)
  <2>1. UNCHANGED <<enrollmentStatus, deletedEnrollments>>
    BY <1>4 DEF DecrementSeats
  <2>2. \A f \in Enrollments : (Found(f) => Found(f)') /\ (Active(f) => Active(f)')
    BY <2>1 DEF Active, Found
  <2>3. Claims(w) \ {r} \subseteq Claims(w)' /\ ActiveAt(w) \subseteq ActiveAt(w)'
    BY <1>2, <2>2, OthersClaim DEF ActiveAt
  <2>4. CASE (request[r].op = "cancelEnrollment" \/ Found(e)) /\ WorkshopOf[e] = w
    <3>1. currentEnrollments'[w] = currentEnrollments[w] - 1
      BY <1>1, <1>4, <2>4 DEF DecrementSeats, ReleaseSeat, NothingDeleted, TypeInv, TypeOK
    <3> QED  BY <2>3, <3>1, UseGivenBack
  <2>5. CASE ~((request[r].op = "cancelEnrollment" \/ Found(e)) /\ WorkshopOf[e] = w)
    <3>1. currentEnrollments'[w] = currentEnrollments[w]
      BY <1>1, <1>4, <2>5 DEF DecrementSeats, ReleaseSeat, TypeInv, TypeOK
    <3>2. r \notin Claims(w)
      BY <1>4, <2>5 DEF DecrementSeats, Claims, HoldsReservation, OwesRelease, At
    <3> QED  BY <2>3, <3>1, <3>2, UseGrows
  <2> QED  BY <2>4, <2>5
<1> QED  BY <1>3, <1>4

\* The other requests that go on have no claim, and end no enrollment.
LEMMA RestUses ==
  ASSUME TypeInv, NEW w \in Workshops, Used(w), NEW r \in Requests,
         \/ FullyBooked(r) \/ SslPaymentInit(r) \/ SslPaymentInitFails(r)
         \/ AcquireLock(r) \/ GatewayValidates(r) \/ GatewayValidationFails(r)
         \/ DeleteLock(r) \/ CheckAmount(r) \/ SettlePayment(r) \/ StoreInvoice(r)
         \/ SslRefundPayment(r) \/ SslRefundFails(r) \/ AbortTransaction(r)
         \/ SaveDeletedUser(r)
  PROVE  Used(w)'
<1>1. request[r].pc \notin ClaimingPCs /\ currentEnrollments' = currentEnrollments
  BY DEF FullyBooked, SslPaymentInit, SslPaymentInitFails, AcquireLock, GatewayValidates,
     GatewayValidationFails, DeleteLock, CheckAmount, SettlePayment, StoreInvoice,
     SslRefundPayment, SslRefundFails, AbortTransaction, SaveDeletedUser, At, ClaimingPCs
<1>2. \A s \in Requests \ {r} : request'[s] = request[s]
  BY DEF FullyBooked, SslPaymentInit, SslPaymentInitFails, AcquireLock, GatewayValidates,
     GatewayValidationFails, DeleteLock, CheckAmount, SettlePayment, StoreInvoice,
     SslRefundPayment, SslRefundFails, AbortTransaction, SaveDeletedUser, Goto, Finish,
     TypeInv, TypeOK
<1>3. \A e \in Enrollments : (Found(e) => Found(e)') /\ (Active(e) => Active(e)')
  <2>1. CASE SettlePayment(r)
    <3>1. request[r].enr \in Enrollments
      BY <2>1, WorksOnEnrollment DEF SettlePayment, At, EnrollmentPCs
    <3> QED  BY <2>1, <3>1 DEF SettlePayment, UpdateEnrollment, Active, ActiveStatuses,
               Found, TypeInv, TypeOK
  <2>2. CASE ~SettlePayment(r)
    BY <2>2 DEF FullyBooked, SslPaymentInit, SslPaymentInitFails, AcquireLock,
       GatewayValidates, GatewayValidationFails, DeleteLock, CheckAmount, StoreInvoice,
       SslRefundPayment, SslRefundFails, AbortTransaction, SaveDeletedUser, Active, Found
  <2> QED  BY <2>1, <2>2
<1> QED  BY <1>1, <1>2, <1>3, ClaimsAt, UnclaimedMoves

\* Every step uses what the counter counts.
LEMMA UseStep ==
  ASSUME NothingVanishes, TypeInv, NothingDeleted, ReadsKnown, NoSeatLost, [Next]_vars
  PROVE  NoSeatLost'
<1> SUFFICES ASSUME NEW w \in Capped
             PROVE  Used(w)'
  BY DEF NoSeatLost, Capped
<1>1. Used(w) /\ w \in Workshops
  BY DEF NoSeatLost, Capped
<1>2. ASSUME NEW r \in Requests, Resume(r)
      PROVE  Used(w)'
  <2>1. ~WriteStatus(r)
    BY DEF WriteStatus, At, NothingVanishes, TypeInv, RequestsOK, RequestOK
  <2> QED  BY <1>1, <1>2, <2>1, ReservationUses, ClosingUses, RestUses DEF Resume
<1>3. CASE \/ UNCHANGED vars
           \/ \E e \in Enrollments : CustomerPays(e) \/ LockExpires(e)
           \/ \E v \in Workshops :
                DeleteWorkshop(v) \/ \E n \in SeatEdits : UpdateWorkshop(v, n)
  <2>1. UNCHANGED <<currentEnrollments, enrollmentVars, request>>
    BY <1>3 DEF vars, CustomerPays, LockExpires, DeleteWorkshop, UpdateWorkshop
  <2>2. ActiveAt(w)' = ActiveAt(w) /\ Claims(w)' = Claims(w)
    BY <2>1 DEF ActiveAt, Active, Found, Claims, HoldsReservation, OwesRelease, At
  <2> QED  BY <1>1, <2>1, <2>2, UseGrows
<1>4. ASSUME NEW r \in Requests, Crash(r)
      PROVE  FALSE
  BY <1>4 DEF Crash, NothingVanishes
<1> QED  BY <1>1, <1>2, <1>3, <1>4, ArriveUses DEF Next

(***************************************************************************)
(* No seat is lost: the counter is never above the seats that are taken or *)
(* claimed, if no request dies, nothing is deleted and no status is        *)
(* written by hand, even if seats are given back twice.                    *)
(***************************************************************************)
THEOREM SeatsAreUsed ==
  ASSUME NothingVanishes
  PROVE  Spec => []NoSeatLost
<1>1. Init => NothingDeleted /\ NoSeatLost /\ MaxSeatsKnown /\ ReadsKnown
  <2> SUFFICES ASSUME Init
               PROVE  NothingDeleted /\ NoSeatLost /\ MaxSeatsKnown /\ ReadsKnown
    OBVIOUS
  <2>1. MaxSeatsKnown /\ ReadsKnown
    BY SeatInit DEF SeatInv
  <2>2. \A w \in Capped : currentEnrollments[w] = 0
    BY DEF Init, Capped
  <2> QED  BY <2>1, <2>2, FiniteSeats DEF Init, NothingDeleted, NoSeatLost, Used
<1>2. TypeInv /\ NothingDeleted /\ [Next]_vars => NothingDeleted'
  BY NothingDeletedStep
<1>3. TypeInv /\ MaxSeatsKnown /\ ReadsKnown /\ [Next]_vars
        => MaxSeatsKnown' /\ ReadsKnown'
  BY MaxSeatsStep, ReadsStep
<1>4. TypeInv /\ NothingDeleted /\ ReadsKnown /\ NoSeatLost /\ [Next]_vars => NoSeatLost'
  BY UseStep
<1> QED  BY <1>1, <1>2, <1>3, <1>4, TypeInvariant, PTL DEF Spec

(***************************************************************************)
(* createEnrollment, the callbacks and the refund keep the counter exact:  *)
(* it is the number of active enrollments and claims, however they         *)
(* overlap, if nothing gives a seat back twice and nothing loses one.      *)
(***************************************************************************)
THEOREM SeatsConserved ==
  ASSUME SingleRelease, NothingVanishes
  PROVE  Spec => []SeatConservation
<1>1. TypeInv /\ SeatsCoverActive /\ NoSeatLost => SeatConservation
  <2> SUFFICES ASSUME TypeInv, SeatsCoverActive, NoSeatLost, NEW w \in Capped
               PROVE  Cardinality(ActiveAt(w)) + Cardinality(Claims(w)) = currentEnrollments[w]
    BY DEF SeatConservation
  <2>1. /\ Cardinality(ActiveAt(w)) + Cardinality(Claims(w)) <= currentEnrollments[w]
        /\ currentEnrollments[w] <= Cardinality(ActiveAt(w)) + Cardinality(Claims(w))
        /\ currentEnrollments[w] \in Int
    BY DEF SeatsCoverActive, NoSeatLost, Used, Capped, TypeInv, TypeOK
  <2> QED  BY <2>1, FiniteSeats
<1> QED  BY <1>1, SeatsAreUsed, CounterCoversSeats, TypeInvariant, PTL
=============================================================================
