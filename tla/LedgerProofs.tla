---------------------------- MODULE LedgerProofs ----------------------------
(***************************************************************************)
(* Booking implements SeatLedger, where a seat is given back once: under   *)
(* the same assumption as in SeatProofs.  A step of Booking is a step of   *)
(* the ledger only when it writes an enrollment's status: the commit of    *)
(* createEnrollment is Enroll, the payment's success is Confirm, and a     *)
(* failure, a refund or the cascade of deleteUser is Close.                *)
(***************************************************************************)
EXTENDS SeatProofs

USE DEF catalogVars, enrollmentVars, paymentVars, gatewayVars

-----------------------------------------------------------------------------
\* Only an enrollment that exists is marked as deleted.
DeletedExisted == \A e \in deletedEnrollments : enrollmentStatus[e] # "NONE"

\* Every step keeps it so: the cascade marks what it finds.
LEMMA DeletedStep ==
  ASSUME TypeInv, DeletedExisted, [Next]_vars
  PROVE  DeletedExisted'
<1> USE DEF TypeInv, TypeOK, DeletedExisted, At, EnrollmentPCs
<1>1. CASE UNCHANGED <<enrollmentVars, paymentStatus>>
  BY <1>1
<1>2. ASSUME NEW r \in Requests, NEW e \in Enrollments,
             CommitEnrollment(r, e) \/ CancelEnrollment(r, e)
      PROVE  DeletedExisted'
  BY <1>2 DEF CommitEnrollment, CancelEnrollment, UpdateEnrollment
<1>3. ASSUME NEW r \in Requests, NEW u \in Users, CascadeDelete(r, u)
      PROVE  DeletedExisted'
  BY <1>3 DEF CascadeDelete, Found
<1>4. ASSUME NEW r \in Requests, WriteStatus(r)
      PROVE  DeletedExisted'
  BY <1>4 DEF WriteStatus, UpdateEnrollment, RequestsOK, RequestOK, ENROLLMENT_STATUS
<1>5. ASSUME NEW r \in Requests, SettlePayment(r) \/ ClosePayment(r) \/ CommitRefund(r)
      PROVE  DeletedExisted'
  BY <1>5, WorksOnEnrollment DEF SettlePayment, ClosePayment, CommitRefund, UpdateEnrollment
<1> QED  BY WritersOfStatus, <1>1, <1>2, <1>3, <1>4, <1>5

\* The cascade of deleteUser never marks an enrollment that does not exist.
THEOREM DeletedExistedHolds == Spec => []DeletedExisted
<1>1. Init => DeletedExisted
  BY DEF Init, DeletedExisted
<1> QED  BY <1>1, TypeInvariant, DeletedStep, PTL DEF Spec

-----------------------------------------------------------------------------
\* The seats of the ledger are those of the active enrollments.
LEMMA SeatedIsActive ==
  \A w : Ledger!Seated(w) = ActiveAt(w)
BY DEF Ledger!Seated, ActiveAt, Active, ActiveStatuses, Stage, Found

\* The ledger counts as Booking does.
LEMMA SameCount == \A S : Ledger!Cardinality(S) = Cardinality(S)
BY DEF Ledger!Cardinality, Cardinality

\* createEnrollment commits only while the ledger has room and the user no seat.
LEMMA CommitIsEnroll ==
  ASSUME TypeInv, DeletedExisted, SeatInv, NEW r \in Requests, NEW e \in Enrollments,
         CommitEnrollment(r, e)
  PROVE  Ledger!Enroll(e)
<1> DEFINE w == WorkshopOf[e]
<1>1. w \in Workshops /\ request[r].ws = w /\ request[r].op = "createEnrollment"
  BY StoreAssumption DEF CommitEnrollment, At, TypeInv, RequestsOK, RequestOK, ReservationPCs
<1>2. Ledger!HasRoom(w)
  <2>1. CASE w \in Capped
    <3>1. r \in Claims(w)
      BY <1>1, <2>1, LimitsAreNumbers, StoreAssumption
      DEF CommitEnrollment, SeatInv, ReadsKnown, Claims, HoldsReservation, At
    <3>2. Cardinality(Claims(w)) >= 1
      BY <3>1, FiniteSeats, FS_EmptySet
    <3>3. PICK n \in Limits[w] : currentEnrollments[w] <= n
      BY <2>1 DEF SeatInv, CounterKnown
    <3>4. Cardinality(ActiveAt(w)) + Cardinality(Claims(w)) <= currentEnrollments[w]
      BY <2>1 DEF SeatInv, SeatsCoverActive
    <3>5. n \in Nat /\ currentEnrollments[w] \in Int
      BY <1>1, <2>1, <3>3, LimitsAreNumbers DEF TypeInv, TypeOK
    <3>6. Cardinality(ActiveAt(w)) < n
      BY <3>2, <3>3, <3>4, <3>5, FiniteSeats
    <3> QED  BY <3>3, <3>6, SeatedIsActive, SameCount DEF Ledger!HasRoom
  <2>2. CASE w \notin Capped
    <3>1. Limits[w] = {}
      BY <1>1, <2>2 DEF Limits
    <3> QED  BY <3>1 DEF Ledger!HasRoom
  <2> QED  BY <2>1, <2>2
<1>3. Stage[e] = "absent"
  BY DEF CommitEnrollment, Stage
<1>4. \A f \in Ledger!Seated(w) : Owner[f] # Owner[e]
  <2>1. e \notin ActiveAt(w)
    BY DEF CommitEnrollment, ActiveAt, Active, Found
  <2> QED  BY <2>1, SeatedIsActive
           DEF CommitEnrollment, IndexAllows, SamePair, ActiveAt, ActiveStatuses
<1>5. \E s \in {"pending", "confirmed"} : Stage' = [Stage EXCEPT ![e] = s]
  <2>1. e \notin deletedEnrollments /\ deletedEnrollments' = deletedEnrollments
    BY DEF CommitEnrollment, DeletedExisted
  <2>2. CASE enrollmentStatus' = [enrollmentStatus EXCEPT ![e] = "PENDING"]
    <3>1. Stage' = [Stage EXCEPT ![e] = "pending"]
      BY <2>1, <2>2 DEF Stage, Found, TypeInv, TypeOK
    <3> QED  BY <3>1
  <2>3. CASE enrollmentStatus' = [enrollmentStatus EXCEPT ![e] = "COMPLETE"]
    <3>1. Stage' = [Stage EXCEPT ![e] = "confirmed"]
      BY <2>1, <2>3 DEF Stage, Found, TypeInv, TypeOK
    <3> QED  BY <3>1
  <2> QED  BY <2>2, <2>3 DEF CommitEnrollment
<1> QED  BY <1>2, <1>3, <1>4, <1>5 DEF Ledger!Enroll

\* A success confirms the enrollment, if it is still there.
LEMMA SettleIsConfirm ==
  ASSUME TypeInv, StatusesAgree, NEW r \in Requests, SettlePayment(r)
  PROVE  Ledger!Confirm(request[r].enr) \/ UNCHANGED Stage
<1> DEFINE e == request[r].enr
<1>1. e \in Enrollments
  BY WorksOnEnrollment DEF SettlePayment, At, EnrollmentPCs
<1>2. CASE Found(e)
  <2>1. enrollmentStatus[e] = "PENDING"
    BY <1>1, <1>2 DEF SettlePayment, UpdatePayment, StatusesAgree
  <2>2. enrollmentStatus' = [enrollmentStatus EXCEPT ![e] = "COMPLETE"]
        /\ deletedEnrollments' = deletedEnrollments
    BY <1>2 DEF SettlePayment, UpdateEnrollment
  <2>3. Stage[e] = "pending" /\ Stage' = [Stage EXCEPT ![e] = "confirmed"]
    BY <1>1, <1>2, <2>1, <2>2 DEF Stage, Found, TypeInv, TypeOK
  <2> QED  BY <2>3 DEF Ledger!Confirm
<1>3. CASE ~Found(e)
  BY <1>3 DEF SettlePayment, UpdateEnrollment, Stage, Found
<1> QED  BY <1>2, <1>3

\* A failure or a refund closes the enrollment, if it is still there.
LEMMA CloseIsClose ==
  ASSUME TypeInv, StatusesAgree, NEW r \in Requests, ClosePayment(r) \/ CommitRefund(r)
  PROVE  Ledger!Close({request[r].enr}) \/ UNCHANGED Stage
<1> DEFINE e == request[r].enr
<1>1. e \in Enrollments
  BY WorksOnEnrollment DEF ClosePayment, CommitRefund, At, EnrollmentPCs
<1>2. PICK s \in {"CANCEL", "FAILED"} : UpdateEnrollment(e, s) /\ UNCHANGED deletedEnrollments
  BY DEF ClosePayment, CommitRefund
<1>3. CASE Found(e)
  <2>1. enrollmentStatus[e] \in {"PENDING", "COMPLETE"}
    BY <1>1, <1>3 DEF ClosePayment, CommitRefund, UpdatePayment, StatusesAgree
  <2>2. enrollmentStatus' = [enrollmentStatus EXCEPT ![e] = s]
    BY <1>2, <1>3 DEF UpdateEnrollment
  <2>3. Stage[e] \in {"pending", "confirmed"}
    BY <1>1, <1>3, <2>1 DEF Stage, Found
  <2>4. Stage' = [f \in Enrollments |-> IF f \in {e} THEN "closed" ELSE Stage[f]]
    BY <1>1, <1>2, <1>3, <2>2 DEF Stage, Found, TypeInv, TypeOK
  <2> QED  BY <2>3, <2>4 DEF Ledger!Close
<1>4. CASE ~Found(e)
  BY <1>2, <1>4 DEF UpdateEnrollment, Stage, Found
<1> QED  BY <1>3, <1>4

\* The cascade of deleteUser closes all seats of the user.
LEMMA CascadeIsClose ==
  ASSUME TypeInv, NEW r \in Requests, NEW u \in Users, CascadeDelete(r, u)
  PROVE  Ledger!Close({e \in Enrollments : Owner[e] = u /\ Active(e)})
<1> DEFINE S == {e \in Enrollments : Owner[e] = u /\ Active(e)}
<1>1. \A e \in S : Stage[e] \in {"pending", "confirmed"}
  BY DEF Stage, Active, ActiveStatuses, Found
<1>2. Stage' = [e \in Enrollments |-> IF e \in S THEN "closed" ELSE Stage[e]]
  BY DEF CascadeDelete, Stage, Active, ActiveStatuses, Found, TypeInv, TypeOK,
     ENROLLMENT_STATUS
<1> QED  BY <1>1, <1>2 DEF Ledger!Close

\* Every step of Booking is a step of the ledger or none.
LEMMA LedgerStep ==
  ASSUME SingleRelease, TypeInv, StatusesAgree, SeatInv, DeletedExisted, [Next]_vars
  PROVE  [Ledger!Next]_Stage
<1>1. CASE UNCHANGED <<enrollmentVars, paymentStatus>>
  BY <1>1 DEF Stage, Found
<1>2. ASSUME NEW r \in Requests, NEW e \in Enrollments, CommitEnrollment(r, e)
      PROVE  Ledger!Next
  BY <1>2, CommitIsEnroll DEF Ledger!Next
<1>3. ASSUME NEW r \in Requests, NEW u \in Users, CascadeDelete(r, u)
      PROVE  Ledger!Next
  BY <1>3, CascadeIsClose DEF Ledger!Next
<1>4. ASSUME NEW r \in Requests, SettlePayment(r)
      PROVE  [Ledger!Next]_Stage
  BY <1>4, SettleIsConfirm, WorksOnEnrollment DEF Ledger!Next, SettlePayment, At, EnrollmentPCs
<1>5. ASSUME NEW r \in Requests, ClosePayment(r) \/ CommitRefund(r)
      PROVE  [Ledger!Next]_Stage
  <2>1. {request[r].enr} \in SUBSET Enrollments
    BY <1>5, WorksOnEnrollment DEF ClosePayment, CommitRefund, At, EnrollmentPCs
  <2> QED  BY <1>5, <2>1, CloseIsClose DEF Ledger!Next
<1>6. ASSUME NEW r \in Requests,
             WriteStatus(r) \/ \E e \in Enrollments : CancelEnrollment(r, e)
      PROVE  FALSE
  BY <1>6 DEF SingleRelease, NoManualStatus, CancelEnrollment, BeginOn, WriteStatus, At,
     TypeInv, RequestsOK, RequestOK
<1> QED  BY WritersOfStatus, <1>1, <1>2, <1>3, <1>4, <1>5, <1>6

(***************************************************************************)
(* The refinement: requests, payments, callbacks, crashes and counters     *)
(* together behave as the ledger of seats does.                            *)
(***************************************************************************)
THEOREM BookingImplementsLedger ==
  ASSUME SingleRelease
  PROVE  Spec => ImplementsLedger
<1>1. Init => Ledger!Init
  BY DEF Init, Ledger!Init, Stage
<1>2. TypeInv /\ StatusesAgree /\ SeatInv /\ DeletedExisted /\ [Next]_vars
        => [Ledger!Next]_Stage
  BY LedgerStep
<1>3. Spec => []StatusesAgree
  BY StatusesMoveTogether DEF SingleRelease
<1>4. Spec => []SeatInv
  BY SeatInvariant
<1> QED
  BY <1>1, <1>2, <1>3, <1>4, TypeInvariant, DeletedExistedHolds, PTL
  DEF Spec, ImplementsLedger, Ledger!Spec
=============================================================================
