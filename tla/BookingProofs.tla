---------------------------- MODULE BookingProofs ----------------------------
(***************************************************************************)
(* What Booking guarantees of orders: payments are settled once, a user    *)
(* has one active enrollment per workshop, the two statuses of an order    *)
(* agree, and one validation of a payment runs at a time.                  *)
(***************************************************************************)
EXTENDS BookingTypes

USE DEF catalogVars, enrollmentVars, paymentVars, gatewayVars

-----------------------------------------------------------------------------
\* A request that is past the creation of its order has an enrollment.
LEMMA WorksOnEnrollment ==
  ASSUME TypeInv, NEW r \in Requests, request[r].pc \in EnrollmentPCs
  PROVE  request[r].enr \in Enrollments
BY DEF TypeInv, RequestsOK, RequestOK

(***************************************************************************)
(* The actions that write an enrollment's or a payment's status.           *)
(***************************************************************************)
LEMMA WritersOfStatus ==
  ASSUME TypeInv, [Next]_vars
  PROVE  \/ UNCHANGED <<enrollmentVars, paymentStatus>>
         \/ \E r \in Requests :
              \/ \E e \in Enrollments : CommitEnrollment(r, e) \/ CancelEnrollment(r, e)
              \/ \E u \in Users : CascadeDelete(r, u)
              \/ WriteStatus(r) \/ SettlePayment(r) \/ ClosePayment(r) \/ CommitRefund(r)
<1>1. ASSUME NEW r \in Requests,
             \/ Quiet(r)
             \/ \E u \in Users, w \in Workshops : CreateEnrollment(r, u, w)
             \/ TakeSeat(r) \/ CheckSnapshot(r) \/ AbortEnrollment(r)
             \/ ReleaseReservation(r) \/ SslPaymentInitFails(r) \/ DecrementSeats(r)
             \/ AcquireLock(r) \/ GatewayValidates(r) \/ GatewayValidationFails(r)
             \/ DeleteLock(r)
      PROVE  UNCHANGED <<enrollmentVars, paymentStatus>>
  BY <1>1
  DEF Quiet, CreateEnrollment, TakeSeat, CheckSnapshot, AbortEnrollment,
      ReleaseReservation, SslPaymentInitFails, DecrementSeats, AcquireLock,
      GatewayValidates, GatewayValidationFails, DeleteLock
<1>2. ASSUME \/ Still
             \/ \E e \in Enrollments : LockExpires(e)
             \/ \E w \in Workshops, n \in SeatEdits : UpdateWorkshop(w, n)
      PROVE  UNCHANGED <<enrollmentVars, paymentStatus>>
  BY <1>2 DEF Still, LockExpires, UpdateWorkshop
<1> QED  BY StepCases, <1>1, <1>2

-----------------------------------------------------------------------------
(***************************************************************************)
(* Payments.  A payment comes to exist with its enrollment, and each       *)
(* update of its status names the status it starts from.                   *)
(***************************************************************************)
PaymentMoves ==
  \A e \in Enrollments : paymentStatus'[e] # paymentStatus[e] =>
    <<paymentStatus[e], paymentStatus'[e]>> \in
      {<<"NONE", "UNPAID">>, <<"NONE", "PAID">>, <<"UNPAID", "PAID">>,
       <<"UNPAID", "FAILED">>, <<"UNPAID", "CANCELLED">>,
       <<"PAID", "REFUNDED">>}

CreatedTogether ==
  \A e \in Enrollments : enrollmentStatus[e] = "NONE" <=> paymentStatus[e] = "NONE"

\* Every step creates both or none and moves a payment along its lifecycle.
LEMMA PaymentStep ==
  ASSUME TypeInv, CreatedTogether, [Next]_vars
  PROVE  CreatedTogether' /\ PaymentMoves
<1> USE DEF TypeInv, TypeOK, CreatedTogether, PaymentMoves, At, EnrollmentPCs
<1>1. CASE UNCHANGED <<enrollmentVars, paymentStatus>>
  BY <1>1
<1>2. ASSUME NEW r \in Requests, NEW e \in Enrollments, CommitEnrollment(r, e)
      PROVE  CreatedTogether' /\ PaymentMoves
  BY <1>2 DEF CommitEnrollment
<1>3. ASSUME NEW r \in Requests, NEW e \in Enrollments, CancelEnrollment(r, e)
      PROVE  CreatedTogether' /\ PaymentMoves
  BY <1>3 DEF CancelEnrollment, UpdateEnrollment, Found
<1>4. ASSUME NEW r \in Requests, NEW u \in Users, CascadeDelete(r, u)
      PROVE  CreatedTogether' /\ PaymentMoves
  BY <1>4 DEF CascadeDelete
<1>5. ASSUME NEW r \in Requests, WriteStatus(r)
      PROVE  CreatedTogether' /\ PaymentMoves
  BY <1>5, WorksOnEnrollment
  DEF WriteStatus, UpdateEnrollment, Found, RequestsOK, RequestOK, ENROLLMENT_STATUS
<1>6. ASSUME NEW r \in Requests, SettlePayment(r)
      PROVE  CreatedTogether' /\ PaymentMoves
  BY <1>6, WorksOnEnrollment DEF SettlePayment, UpdatePayment, UpdateEnrollment, Found
<1>7. ASSUME NEW r \in Requests, ClosePayment(r)
      PROVE  CreatedTogether' /\ PaymentMoves
  BY <1>7, WorksOnEnrollment DEF ClosePayment, UpdatePayment, UpdateEnrollment, Found
<1>8. ASSUME NEW r \in Requests, CommitRefund(r)
      PROVE  CreatedTogether' /\ PaymentMoves
  BY <1>8, WorksOnEnrollment DEF CommitRefund, UpdatePayment, UpdateEnrollment, Found
<1> QED  BY WritersOfStatus, <1>1, <1>2, <1>3, <1>4, <1>5, <1>6, <1>7, <1>8

\* createEnrollment's transaction makes both documents or none.
THEOREM CreatedTogetherHolds == Spec => []CreatedTogether
<1>1. Init => CreatedTogether
  BY DEF Init, CreatedTogether
<1> QED  BY <1>1, TypeInvariant, PaymentStep, PTL DEF Spec

(***************************************************************************)
(* However often and late the gateway calls back, and whatever is refunded *)
(* or cancelled meanwhile, a payment leaves UNPAID once and PAID only for  *)
(* REFUNDED.                                                               *)
(***************************************************************************)
THEOREM PaymentsSettleOnce == Spec => PaymentLifecycle
<1>1. TypeInv /\ CreatedTogether /\ [Next]_vars =>
        [\A e \in Enrollments : paymentStatus'[e] # paymentStatus[e] =>
           <<paymentStatus[e], paymentStatus'[e]>> \in
             {<<"NONE", "UNPAID">>, <<"NONE", "PAID">>, <<"UNPAID", "PAID">>,
              <<"UNPAID", "FAILED">>, <<"UNPAID", "CANCELLED">>,
              <<"PAID", "REFUNDED">>}]_vars
  BY PaymentStep DEF PaymentMoves
<1> QED  BY <1>1, TypeInvariant, CreatedTogetherHolds, PTL DEF Spec, PaymentLifecycle

-----------------------------------------------------------------------------
\* A status the unique index allows keeps the pair of user and workshop unique.
LEMMA IndexKeepsUnique ==
  ASSUME TypeOK, UniqueActive, NEW e \in Enrollments, NEW s \in ENROLLMENT_STATUS,
         IndexAllows(e, s), UNCHANGED deletedEnrollments,
         enrollmentStatus' = [enrollmentStatus EXCEPT ![e] = s]
  PROVE  UniqueActive'
BY DEF TypeOK, UniqueActive, IndexAllows, Active, Found, SamePair

\* Every write of a status passes the index, or makes an enrollment inactive.
LEMMA UniqueStep ==
  ASSUME TypeInv, UniqueActive, [Next]_vars
  PROVE  UniqueActive'
<1> USE DEF TypeInv, At, EnrollmentPCs, ENROLLMENT_STATUS
<1>1. CASE UNCHANGED <<enrollmentVars, paymentStatus>>
  BY <1>1 DEF UniqueActive, Active, Found
<1>2. ASSUME NEW r \in Requests, NEW e \in Enrollments, CommitEnrollment(r, e)
      PROVE  UniqueActive'
  BY <1>2, IndexKeepsUnique DEF CommitEnrollment, IndexAllows, ActiveStatuses
<1>3. ASSUME NEW r \in Requests, NEW e \in Enrollments, CancelEnrollment(r, e)
      PROVE  UniqueActive'
  BY <1>3, IndexKeepsUnique
  DEF CancelEnrollment, UpdateEnrollment, IndexAllows, Active, ActiveStatuses
<1>4. ASSUME NEW r \in Requests, NEW u \in Users, CascadeDelete(r, u)
      PROVE  UniqueActive'
  BY <1>4 DEF CascadeDelete, UniqueActive, Active, Found
<1>5. ASSUME NEW r \in Requests, WriteStatus(r)
      PROVE  UniqueActive'
  <2> DEFINE e == request[r].enr
             s == request[r].status
  <2>1. e \in Enrollments /\ s \in ENROLLMENT_STATUS
    BY <1>5 DEF WriteStatus, RequestsOK, RequestOK
  <2>2. CASE UNCHANGED enrollmentStatus
    BY <1>5, <2>2 DEF WriteStatus, UniqueActive, Active, Found
  <2>3. CASE IndexAllows(e, s) /\ enrollmentStatus' = [enrollmentStatus EXCEPT ![e] = s]
    BY <1>5, <2>1, <2>3, IndexKeepsUnique DEF WriteStatus
  <2> QED  BY <1>5, <2>2, <2>3 DEF WriteStatus, UpdateEnrollment
<1>6. ASSUME NEW r \in Requests, SettlePayment(r)
      PROVE  UniqueActive'
  <2> DEFINE e == request[r].enr
  <2>1. e \in Enrollments
    BY <1>6, WorksOnEnrollment DEF SettlePayment
  <2>2. CASE Found(e)
    BY <1>6, <2>1, <2>2, IndexKeepsUnique DEF SettlePayment, UpdateEnrollment
  <2>3. CASE ~Found(e)
    BY <1>6, <2>3 DEF SettlePayment, UpdateEnrollment, UniqueActive, Active, Found
  <2> QED  BY <2>2, <2>3
<1>7. ASSUME NEW r \in Requests, ClosePayment(r) \/ CommitRefund(r)
      PROVE  UniqueActive'
  <2> DEFINE e == request[r].enr
  <2>1. e \in Enrollments
    BY <1>7, WorksOnEnrollment DEF ClosePayment, CommitRefund
  <2>2. PICK s \in {"CANCEL", "FAILED"} : UpdateEnrollment(e, s)
    BY <1>7 DEF ClosePayment, CommitRefund
  <2>3. CASE Found(e)
    BY <1>7, <2>1, <2>2, <2>3, IndexKeepsUnique
    DEF ClosePayment, CommitRefund, UpdateEnrollment, IndexAllows, ActiveStatuses
  <2>4. CASE ~Found(e)
    BY <1>7, <2>2, <2>4
    DEF ClosePayment, CommitRefund, UpdateEnrollment, UniqueActive, Active, Found
  <2> QED  BY <2>3, <2>4
<1> QED  BY WritersOfStatus, <1>1, <1>2, <1>3, <1>4, <1>5, <1>6, <1>7

(***************************************************************************)
(* A user never has two active enrollments for one workshop, whatever      *)
(* creates, revives or rewrites enrollments concurrently.                  *)
(***************************************************************************)
THEOREM OneActivePerUser == Spec => []UniqueActive
<1>1. Init => UniqueActive
  BY DEF Init, UniqueActive, Active, Found
<1> QED  BY <1>1, TypeInvariant, UniqueStep, PTL DEF Spec

-----------------------------------------------------------------------------
(***************************************************************************)
(* Without the two operations that write an enrollment's status and not    *)
(* its payment's, the transactions keep both documents in step.            *)
(***************************************************************************)
NoManualStatus == Ops \cap {"cancelEnrollment", "updateEnrollmentStatus"} = {}

\* Each transaction takes both documents from one agreeing pair to another.
LEMMA StatusesStep ==
  ASSUME NoManualStatus, TypeInv, CreatedTogether, StatusesAgree, [Next]_vars
  PROVE  StatusesAgree'
<1> USE DEF TypeInv, TypeOK, At, EnrollmentPCs, StatusesAgree
<1>1. CASE UNCHANGED <<enrollmentVars, paymentStatus>>
  BY <1>1 DEF Found
<1>2. ASSUME NEW r \in Requests, NEW e \in Enrollments, CommitEnrollment(r, e)
      PROVE  StatusesAgree'
  BY <1>2 DEF CommitEnrollment, Found
<1>3. ASSUME NEW r \in Requests, NEW e \in Enrollments, CancelEnrollment(r, e)
      PROVE  StatusesAgree'
  BY <1>3 DEF CancelEnrollment, BeginOn, NoManualStatus
<1>4. ASSUME NEW r \in Requests, NEW u \in Users, CascadeDelete(r, u)
      PROVE  StatusesAgree'
  BY <1>4 DEF CascadeDelete, Found
<1>5. ASSUME NEW r \in Requests, WriteStatus(r)
      PROVE  StatusesAgree'
  BY <1>5 DEF WriteStatus, RequestsOK, RequestOK, NoManualStatus
<1>6. ASSUME NEW r \in Requests, SettlePayment(r)
      PROVE  StatusesAgree'
  BY <1>6, WorksOnEnrollment DEF SettlePayment, UpdatePayment, UpdateEnrollment, Found
<1>7. ASSUME NEW r \in Requests, ClosePayment(r)
      PROVE  StatusesAgree'
  BY <1>7, WorksOnEnrollment DEF ClosePayment, UpdatePayment, UpdateEnrollment, Found
<1>8. ASSUME NEW r \in Requests, CommitRefund(r)
      PROVE  StatusesAgree'
  BY <1>8, WorksOnEnrollment DEF CommitRefund, UpdatePayment, UpdateEnrollment, Found
<1> QED  BY WritersOfStatus, <1>1, <1>2, <1>3, <1>4, <1>5, <1>6, <1>7, <1>8

(***************************************************************************)
(* Whichever of the callbacks, the IPN and the refund wins, an order that  *)
(* is found has one of the five agreeing pairs of statuses.                *)
(***************************************************************************)
THEOREM StatusesMoveTogether ==
  ASSUME NoManualStatus
  PROVE  Spec => []StatusesAgree
<1>1. Init => StatusesAgree
  BY DEF Init, StatusesAgree, Found
<1>2. TypeInv /\ CreatedTogether /\ StatusesAgree /\ [Next]_vars => StatusesAgree'
  BY StatusesStep
<1> QED  BY <1>1, <1>2, TypeInvariant, CreatedTogetherHolds, PTL DEF Spec

-----------------------------------------------------------------------------
(***************************************************************************)
(* The validation lock.  While it validates, a request holds the key of    *)
(* its order, alone: another one finds the key, and the key outlives the   *)
(* call unless the gateway takes longer than the key lives.                *)
(***************************************************************************)
LockProtects ==
  /\ \A r \in Requests : request[r].pc \in ValidatingPCs => request[r].enr \in valLock
  /\ \A r, s \in Requests :
       /\ request[r].pc \in ValidatingPCs
       /\ request[s].pc \in ValidatingPCs
       /\ request[r].enr = request[s].enr
       => r = s

\* A request that moves elsewhere does not disturb the others.
LEMMA MovesKeepLock ==
  ASSUME TypeInv, LockProtects, NEW r \in Requests, Moves(r, ValidatingPCs),
         UNCHANGED valLock
  PROVE  LockProtects'
BY DEF TypeInv, TypeOK, LockProtects, Moves

\* Every step keeps the lock's protection while answers come in time.
LEMMA LockStep ==
  ASSUME "slow" \notin Faults, TypeInv, LockProtects, [Next]_vars
  PROVE  LockProtects'
<1> USE DEF ValidatingPCs, At, PCs
<1>1. ASSUME NEW r \in Requests,
             \/ Quiet(r) \/ \E u \in Users : CascadeDelete(r, u)
             \/ \E e \in Enrollments : CancelEnrollment(r, e) \/ CommitEnrollment(r, e)
      PROVE  LockProtects'
  <2>1. CASE \E e \in Enrollments : CancelEnrollment(r, e)
    <3>1. Moves(r, ValidatingPCs) /\ UNCHANGED valLock
      BY <2>1, BeginOnMoves DEF CancelEnrollment, AllOps
    <3> QED  BY <3>1, MovesKeepLock
  <2>2. CASE \/ Quiet(r) \/ \E u \in Users : CascadeDelete(r, u)
             \/ \E e \in Enrollments : CommitEnrollment(r, e)
    <3>1. Moves(r, ValidatingPCs \cup ClaimingPCs) /\ UNCHANGED valLock
      BY <2>2, CommitMoves, CascadeMoves DEF Quiet, CascadeDelete, CommitEnrollment
    <3> QED  BY <3>1, MovesKeepLock DEF Moves
  <2> QED  BY <1>1, <2>1, <2>2
<1>2. ASSUME NEW r \in Requests,
             \/ TakeSeat(r) \/ CheckSnapshot(r) \/ AbortEnrollment(r)
             \/ ReleaseReservation(r) \/ SslPaymentInitFails(r) \/ DecrementSeats(r)
             \/ WriteStatus(r) \/ SettlePayment(r) \/ ClosePayment(r) \/ CommitRefund(r)
      PROVE  LockProtects'
  <2>1. Moves(r, ValidatingPCs) /\ UNCHANGED valLock
    BY <1>2, FinishMoves, GotoMoves
    DEF TakeSeat, CheckSnapshot, AbortEnrollment, ReleaseReservation, SslPaymentInitFails,
        DecrementSeats, WriteStatus, SettlePayment, ClosePayment, CommitRefund
  <2> QED  BY <2>1, MovesKeepLock
<1>3. ASSUME NEW r \in Requests, NEW u \in Users, NEW w \in Workshops, CreateEnrollment(r, u, w)
      PROVE  LockProtects'
  <2>1. PICK q : request' = [request EXCEPT ![r] = q] /\ q.pc \in {"check", "reserve"}
    BY <1>3, CreateSets
  <2> QED  BY <1>3, <2>1 DEF CreateEnrollment, LockProtects, TypeInv, TypeOK
<1>4. ASSUME NEW r \in Requests, AcquireLock(r)
      PROVE  LockProtects'
  <2>1. CASE request[r].enr \in valLock
    <3>1. Moves(r, ValidatingPCs) /\ UNCHANGED valLock
      BY <1>4, <2>1, GotoMoves DEF AcquireLock, AfterValidation, TypeInv, TypeOK
    <3> QED  BY <3>1, MovesKeepLock
  <2>2. CASE request[r].enr \notin valLock
    BY <1>4, <2>2 DEF AcquireLock, Goto, LockProtects, TypeInv, TypeOK, RequestRecord
  <2> QED  BY <2>1, <2>2
<1>5. ASSUME NEW r \in Requests, GatewayValidates(r) \/ GatewayValidationFails(r)
      PROVE  LockProtects'
  BY <1>5 DEF GatewayValidates, GatewayValidationFails, Goto, LockProtects, TypeInv,
     TypeOK, RequestRecord
<1>6. ASSUME NEW r \in Requests, DeleteLock(r)
      PROVE  LockProtects'
  BY <1>6 DEF DeleteLock, Goto, Finish, Idle, AfterValidation, LockProtects, TypeInv,
     TypeOK, RequestRecord
<1>7. ASSUME NEW e \in Enrollments, LockExpires(e)
      PROVE  LockProtects'
  BY <1>7 DEF LockExpires, Validating, LockProtects
<1>8. ASSUME Still \/ \E w \in Workshops, n \in SeatEdits : UpdateWorkshop(w, n)
      PROVE  LockProtects'
  BY <1>8 DEF Still, UpdateWorkshop, LockProtects
<1> QED  BY StepCases, <1>1, <1>2, <1>3, <1>4, <1>5, <1>6, <1>7, <1>8

(***************************************************************************)
(* The redirect and the IPN of one payment never both call the gateway's   *)
(* validation at a time, as long as it answers within 30 seconds; crashes, *)
(* expiry of the key and failing validations do not change that.           *)
(***************************************************************************)
THEOREM OneValidationAtATime ==
  ASSUME "slow" \notin Faults
  PROVE  Spec => []ValidationExclusive
<1>1. Init => LockProtects
  BY DEF Init, Idle, LockProtects, ValidatingPCs
<1>2. TypeInv /\ LockProtects /\ [Next]_vars => LockProtects'
  BY LockStep
<1>3. LockProtects => ValidationExclusive
  BY DEF LockProtects, ValidationExclusive, At, ValidatingPCs
<1> QED  BY <1>1, <1>2, <1>3, TypeInvariant, PTL DEF Spec
=============================================================================
