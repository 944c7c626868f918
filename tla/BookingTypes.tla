---------------------------- MODULE BookingTypes ----------------------------
(***************************************************************************)
(* Type correctness of Booking, proved from what each pc says of its       *)
(* request, and the lemmas about steps that the other proofs share.        *)
(***************************************************************************)
EXTENDS Booking, TLAPS

USE DEF catalogVars, enrollmentVars, paymentVars, gatewayVars

-----------------------------------------------------------------------------
(***************************************************************************)
(* The inductive invariant: a request that stands at an await has set what *)
(* it goes on with.                                                        *)
(***************************************************************************)
EnrollmentPCs == {"open", "write", "lock", "validate", "unlock", "reject",
                  "amount", "settle", "invoice", "close", "refundCall",
                  "refund", "decrement"}

ReservationPCs == {"reserve", "check", "commit", "release"}

RequestOK(q) ==
  /\ q.op \in Ops \cup {"none"}
  /\ q.pc \in EnrollmentPCs => q.enr \in Enrollments
  /\ q.op = "createEnrollment" => q.user \in Users /\ q.ws \in Workshops
  /\ q.pc \in ReservationPCs => q.op = "createEnrollment"
  /\ q.pc = "write" => q.op = "updateEnrollmentStatus" /\ q.status \in ENROLLMENT_STATUS
  /\ q.pc = "saveUser" => q.user \in Users

RequestsOK == \A r \in Requests : RequestOK(request[r])

TypeInv == TypeOK /\ RequestsOK

\* An idle slot is well-typed.
LEMMA IdleOK == Idle \in RequestRecord /\ RequestOK(Idle)
BY StoreAssumption DEF Idle, RequestRecord, RequestOK, PCs, EnrollmentPCs, ReservationPCs

\* A request may go to a label if it has what the label goes on with.
LEMMA GotoOK ==
  ASSUME TypeInv, NEW r \in Requests, NEW label \in PCs, Goto(r, label),
         label \in EnrollmentPCs => request[r].enr \in Enrollments,
         label \in ReservationPCs => request[r].op = "createEnrollment",
         label \notin {"write", "saveUser"}
  PROVE  request' \in [Requests -> RequestRecord] /\ RequestsOK'
BY DEF TypeInv, TypeOK, RequestsOK, RequestOK, RequestRecord, Goto

\* A request may always end.
LEMMA FinishOK ==
  ASSUME TypeInv, NEW r \in Requests, Finish(r)
  PROVE  request' \in [Requests -> RequestRecord] /\ RequestsOK'
BY IdleOK DEF TypeInv, TypeOK, RequestsOK, Finish

\* A slot may take any well-typed request.
LEMMA NewRequestOK ==
  ASSUME TypeInv, NEW r \in Requests, NEW q \in RequestRecord, RequestOK(q),
         request' = [request EXCEPT ![r] = q]
  PROVE  request' \in [Requests -> RequestRecord] /\ RequestsOK'
BY DEF TypeInv, TypeOK, RequestsOK

\* An arriving request that works on an enrollment is well-typed.
LEMMA BeginOnOK ==
  ASSUME TypeInv, NEW r \in Requests, NEW e \in Enrollments,
         NEW op \in AllOps, op # "createEnrollment",
         NEW label \in EnrollmentPCs \ {"write"}, BeginOn(r, op, e, label)
  PROVE  request' \in [Requests -> RequestRecord] /\ RequestsOK'
<1> DEFINE q == [Idle EXCEPT !.op = op, !.enr = e, !.pc = label]
<1>1. q \in RequestRecord /\ RequestOK(q)
  BY StoreAssumption DEF BeginOn, Idle, RequestRecord, RequestOK, PCs, EnrollmentPCs, ReservationPCs
<1>2. request' = [request EXCEPT ![r] = q]
  BY DEF BeginOn
<1> HIDE DEF q
<1> QED  BY <1>1, <1>2, NewRequestOK

\* A step that leaves the requests alone keeps them well-typed.
LEMMA UnchangedOK ==
  ASSUME TypeInv, UNCHANGED request
  PROVE  request' \in [Requests -> RequestRecord] /\ RequestsOK'
BY DEF TypeInv, TypeOK, RequestsOK

-----------------------------------------------------------------------------
\* The new enrollment becomes what its request goes on with.
LEMMA CommitType ==
  ASSUME TypeInv, NEW r \in Requests, NEW e \in Enrollments, CommitEnrollment(r, e)
  PROVE  TypeInv'
<1> USE DEF TypeInv, TypeOK
<1>1. CASE request[r].ws \in FreeWorkshops
  BY <1>1, FinishOK DEF CommitEnrollment, ENROLLMENT_STATUS, PAYMENT_STATUS
<1>2. CASE request[r].ws \notin FreeWorkshops
  <2> DEFINE q == [request[r] EXCEPT !.enr = e, !.pc = "open"]
  <2>1. q \in RequestRecord /\ RequestOK(q)
    <3>1. PICK p \in RequestRecord : p = request[r] /\ RequestOK(p)
      BY DEF RequestsOK
    <3>2. q = [p EXCEPT !.enr = e, !.pc = "open"]
      BY <3>1
    <3> QED  BY <3>1, <3>2 DEF RequestOK, RequestRecord, PCs, EnrollmentPCs, ReservationPCs
  <2>2. request' = [request EXCEPT ![r] = q]
    BY <1>2 DEF CommitEnrollment
  <2> HIDE DEF q
  <2>3. request' \in [Requests -> RequestRecord] /\ RequestsOK'
    BY <2>1, <2>2, NewRequestOK
  <2> QED  BY <1>2, <2>3 DEF CommitEnrollment, ENROLLMENT_STATUS, PAYMENT_STATUS
<1> QED  BY <1>1, <1>2

(***************************************************************************)
(* Every step keeps the types: of a request that goes on, ...              *)
(***************************************************************************)
LEMMA ResumeType ==
  ASSUME TypeInv, NEW r \in Requests, Resume(r) \/ Crash(r)
  PROVE  TypeInv'
<1> USE DEF TypeInv, TypeOK, RequestsOK, RequestOK, PCs, EnrollmentPCs,
            ReservationPCs, ENROLLMENT_STATUS, PAYMENT_STATUS
<1>1. CASE TakeSeat(r)
  BY <1>1, GotoOK DEF At, TakeSeat, ReserveSeat
<1>2. CASE FullyBooked(r)
  BY <1>2, FinishOK DEF FullyBooked
<1>3. CASE CheckSnapshot(r)
  BY <1>3, GotoOK DEF At, CheckSnapshot
<1>4. CASE AbortEnrollment(r)
  BY <1>4, GotoOK DEF AbortEnrollment
<1>5. CASE ReleaseReservation(r)
  BY <1>5, FinishOK DEF At, ReleaseReservation, ReleaseSeat
<1>6. CASE SslPaymentInit(r)
  BY <1>6, FinishOK DEF At, SslPaymentInit
<1>7. CASE SslPaymentInitFails(r)
  BY <1>7, GotoOK, FinishOK DEF At, SslPaymentInitFails
<1>8. CASE DecrementSeats(r)
  BY <1>8, FinishOK DEF At, DecrementSeats, ReleaseSeat
<1>9. CASE WriteStatus(r)
  BY <1>9, FinishOK DEF At, WriteStatus, UpdateEnrollment
<1>10. CASE AcquireLock(r)
  BY <1>10, GotoOK DEF At, AcquireLock, AfterValidation
<1>11. CASE GatewayValidates(r)
  BY <1>11, GotoOK DEF At, GatewayValidates
<1>12. CASE GatewayValidationFails(r)
  BY <1>12, GotoOK DEF At, GatewayValidationFails
<1>13. CASE DeleteLock(r)
  BY <1>13, GotoOK, FinishOK DEF At, DeleteLock, AfterValidation
<1>14. CASE CheckAmount(r)
  BY <1>14, GotoOK, FinishOK DEF At, CheckAmount
<1>15. CASE SettlePayment(r)
  BY <1>15, GotoOK, FinishOK DEF At, SettlePayment, UpdatePayment, UpdateEnrollment
<1>16. CASE StoreInvoice(r)
  BY <1>16, FinishOK DEF At, StoreInvoice
<1>17. CASE ClosePayment(r)
  BY <1>17, GotoOK DEF At, ClosePayment, UpdatePayment, UpdateEnrollment
<1>18. CASE SslRefundPayment(r)
  BY <1>18, GotoOK, FinishOK DEF At, SslRefundPayment
<1>19. CASE SslRefundFails(r)
  BY <1>19, FinishOK DEF SslRefundFails
<1>20. CASE CommitRefund(r)
  BY <1>20, GotoOK DEF At, CommitRefund, UpdatePayment, UpdateEnrollment
<1>21. CASE AbortTransaction(r)
  BY <1>21, FinishOK DEF AbortTransaction
<1>22. CASE SaveDeletedUser(r)
  BY <1>22, FinishOK DEF At, SaveDeletedUser
<1>23. CASE Crash(r)
  BY <1>23, FinishOK DEF Crash
<1> QED
  BY <1>1, <1>2, <1>3, <1>4, <1>5, <1>6, <1>7, <1>8, <1>9, <1>10, <1>11, <1>12,
     <1>13, <1>14, <1>15, <1>16, <1>17, <1>18, <1>19, <1>20, <1>21, <1>22, <1>23,
     CommitType
  DEF Resume

(***************************************************************************)
(* ... of a request that arrives, ...                                      *)
(***************************************************************************)
LEMMA ArriveType ==
  ASSUME TypeInv, NEW r \in Requests, Arrive(r)
  PROVE  TypeInv'
<1> USE DEF TypeInv, TypeOK
<1>1. ASSUME NEW u \in Users, NEW w \in Workshops, CreateEnrollment(r, u, w)
      PROVE  TypeInv'
  <2>1. request' \in [Requests -> RequestRecord] /\ RequestsOK'
    <3> DEFINE q == [Idle EXCEPT !.op    = "createEnrollment",
                                !.pc    = IF maxSeats[w] = Unlimited THEN "check"
                                                                     ELSE "reserve",
                                !.user  = u,
                                !.ws    = w,
                                !.limit = maxSeats[w]]
    <3>1. q \in RequestRecord /\ RequestOK(q)
      BY <1>1, StoreAssumption DEF CreateEnrollment, Idle, RequestRecord, RequestOK,
         PCs, EnrollmentPCs, ReservationPCs, AllOps, ENROLLMENT_STATUS
    <3>2. request' = [request EXCEPT ![r] = q]
      BY <1>1 DEF CreateEnrollment
    <3> HIDE DEF q
    <3> QED  BY <3>1, <3>2, NewRequestOK
  <2> QED  BY <1>1, <2>1 DEF CreateEnrollment
<1>2. ASSUME NEW u \in Users, CascadeDelete(r, u)
      PROVE  TypeInv'
  <2>1. request' \in [Requests -> RequestRecord] /\ RequestsOK'
    <3> DEFINE q == [Idle EXCEPT !.op = "deleteUser", !.pc = "saveUser", !.user = u]
    <3>1. q \in RequestRecord /\ RequestOK(q)
      BY <1>2, StoreAssumption DEF CascadeDelete, Idle, RequestRecord, RequestOK,
         PCs, EnrollmentPCs, ReservationPCs, AllOps, ENROLLMENT_STATUS
    <3>2. request' = [request EXCEPT ![r] = q]
      BY <1>2 DEF CascadeDelete
    <3> HIDE DEF q
    <3> QED  BY <3>1, <3>2, NewRequestOK
  <2> QED  BY <1>2, <2>1 DEF CascadeDelete
<1>3. ASSUME NEW e \in Enrollments, NEW s \in ENROLLMENT_STATUS, ReadForUpdate(r, e, s)
      PROVE  TypeInv'
  <2>1. request' \in [Requests -> RequestRecord] /\ RequestsOK'
    <3> DEFINE q == [Idle EXCEPT !.op = "updateEnrollmentStatus", !.pc = "write",
                                !.enr = e, !.status = s]
    <3>1. q \in RequestRecord /\ RequestOK(q)
      BY <1>3, StoreAssumption DEF ReadForUpdate, Idle, RequestRecord, RequestOK,
         PCs, EnrollmentPCs, ReservationPCs, AllOps, ENROLLMENT_STATUS
    <3>2. request' = [request EXCEPT ![r] = q]
      BY <1>3 DEF ReadForUpdate
    <3> HIDE DEF q
    <3> QED  BY <3>1, <3>2, NewRequestOK
  <2> QED  BY <1>3, <2>1 DEF ReadForUpdate
<1>4. ASSUME NEW e \in Enrollments,
             \/ CancelEnrollment(r, e) \/ InitPayment(r, e) \/ SuccessPayment(r, e)
             \/ HandleIPNValid(r, e) \/ HandleIPNFailed(r, e) \/ RefundPayment(r, e)
             \/ \E op \in {"failPayment", "cancelPayment"} : FailOrCancelPayment(r, e, op)
      PROVE  TypeInv'
  <2>1. CASE CancelEnrollment(r, e)
    BY <2>1, BeginOnOK DEF CancelEnrollment, UpdateEnrollment, AllOps, EnrollmentPCs,
       ENROLLMENT_STATUS
  <2>2. CASE InitPayment(r, e)
    BY <2>2, BeginOnOK DEF InitPayment, AllOps, EnrollmentPCs
  <2>3. CASE SuccessPayment(r, e)
    BY <2>3, BeginOnOK DEF SuccessPayment, AllOps, EnrollmentPCs
  <2>4. CASE HandleIPNValid(r, e)
    BY <2>4, BeginOnOK DEF HandleIPNValid, AllOps, EnrollmentPCs
  <2>5. CASE HandleIPNFailed(r, e)
    BY <2>5, BeginOnOK DEF HandleIPNFailed, AllOps, EnrollmentPCs
  <2>6. CASE RefundPayment(r, e)
    BY <2>6, BeginOnOK DEF RefundPayment, AllOps, EnrollmentPCs
  <2>7. ASSUME NEW op \in {"failPayment", "cancelPayment"}, FailOrCancelPayment(r, e, op)
        PROVE  TypeInv'
    BY <2>7, BeginOnOK DEF FailOrCancelPayment, AllOps, EnrollmentPCs
  <2> QED  BY <1>4, <2>1, <2>2, <2>3, <2>4, <2>5, <2>6, <2>7
<1> QED  BY <1>1, <1>2, <1>3, <1>4 DEF Arrive

(***************************************************************************)
(* ... and of everything that is not a request.                            *)
(***************************************************************************)
LEMMA EnvironmentType ==
  ASSUME TypeInv,
         \/ \E e \in Enrollments : CustomerPays(e) \/ LockExpires(e)
         \/ \E w \in Workshops : DeleteWorkshop(w) \/ \E n \in SeatEdits : UpdateWorkshop(w, n)
  PROVE  TypeInv'
<1> USE DEF TypeInv, TypeOK
<1>1. ASSUME NEW e \in Enrollments, CustomerPays(e) \/ LockExpires(e)
      PROVE  TypeInv'
  BY <1>1, UnchangedOK DEF CustomerPays, LockExpires
<1>2. ASSUME NEW w \in Workshops, DeleteWorkshop(w)
      PROVE  TypeInv'
  BY <1>2, UnchangedOK DEF DeleteWorkshop
<1>3. ASSUME NEW w \in Workshops, NEW n \in SeatEdits, UpdateWorkshop(w, n)
      PROVE  TypeInv'
  BY <1>3, UnchangedOK, StoreAssumption DEF UpdateWorkshop
<1> QED  BY <1>1, <1>2, <1>3

\* Every step of the specification keeps the types.
LEMMA TypeStep == ASSUME TypeInv, [Next]_vars PROVE TypeInv'
<1>1. CASE UNCHANGED vars
  BY <1>1, UnchangedOK DEF vars, TypeInv, TypeOK
<1>2. CASE Next
  BY <1>2, ResumeType, ArriveType, EnvironmentType DEF Next
<1> QED  BY <1>1, <1>2

\* The initial state has them.
LEMMA TypeInit == Init => TypeInv
BY IdleOK, StoreAssumption DEF Init, TypeInv, TypeOK, RequestsOK, ENROLLMENT_STATUS, PAYMENT_STATUS

(***************************************************************************)
(* No interleaving of requests leaves one at an await without what it goes *)
(* on with, and no variable leaves its type.                               *)
(***************************************************************************)
THEOREM TypeInvariant == Spec => []TypeInv
BY TypeInit, TypeStep, PTL DEF Spec

(***************************************************************************)
(* The documents, the Redis lock, the gateway's state and the requests     *)
(* keep their types, for any users, workshops and requests.                *)
(***************************************************************************)
THEOREM TypeCorrect == Spec => []TypeOK
BY TypeInvariant, PTL DEF TypeInv

-----------------------------------------------------------------------------
(***************************************************************************)
(* How requests move.  Most steps only take one request to a place that is *)
(* not in P and do not make it hold another reservation.                   *)
(***************************************************************************)
ValidatingPCs == {"validate", "unlock", "reject"}
ClaimingPCs   == {"check", "commit", "release", "decrement"}

Moves(r, P) ==
  \E q : /\ request' = [request EXCEPT ![r] = q]
         /\ q.pc \notin P
         /\ q.op = "createEnrollment" =>
              /\ request[r].op = "createEnrollment"
              /\ q.ws = request[r].ws
              /\ q.limit = request[r].limit

Quiet(r) ==
  /\ Moves(r, ValidatingPCs \cup ClaimingPCs)
  /\ UNCHANGED <<maxSeats, currentEnrollments, enrollmentVars, paymentStatus, valLock>>

Still ==
  UNCHANGED <<maxSeats, currentEnrollments, enrollmentVars, paymentStatus, valLock, request>>

\* Ending a request is a move.
LEMMA FinishMoves ==
  ASSUME NEW r \in Requests, NEW P, "idle" \notin P, Finish(r)
  PROVE  Moves(r, P)
<1>1. Idle.pc = "idle" /\ Idle.op = "none"
  BY DEF Idle
<1> QED  BY <1>1 DEF Finish, Moves

\* Going on to another await is a move.
LEMMA GotoMoves ==
  ASSUME TypeInv, NEW r \in Requests, NEW P, NEW label \in PCs, label \notin P,
         Goto(r, label)
  PROVE  Moves(r, P)
<1> DEFINE q == [request[r] EXCEPT !.pc = label]
<1>1. request' = [request EXCEPT ![r] = q]
  BY DEF Goto
<1>2. q.pc = label /\ q.op = request[r].op /\ q.ws = request[r].ws
      /\ q.limit = request[r].limit
  BY DEF TypeInv, TypeOK, RequestRecord
<1> HIDE DEF q
<1> QED  BY <1>1, <1>2 DEF Moves

\* Beginning to work on an enrollment is a move.
LEMMA BeginOnMoves ==
  ASSUME NEW r \in Requests, NEW P, NEW e \in Enrollments, NEW op \in AllOps,
         op # "createEnrollment", NEW label \in PCs, label \notin P,
         BeginOn(r, op, e, label)
  PROVE  Moves(r, P)
<1> DEFINE q == [Idle EXCEPT !.op = op, !.enr = e, !.pc = label]
<1>1. q.pc = label /\ q.op = op
  BY DEF Idle
<1>2. request' = [request EXCEPT ![r] = q]
  BY DEF BeginOn
<1> HIDE DEF q
<1> QED  BY <1>1, <1>2 DEF Moves

\* createEnrollment's commit ends its request or takes it to the gateway.
LEMMA CommitMoves ==
  ASSUME TypeInv, NEW r \in Requests, NEW e \in Enrollments, CommitEnrollment(r, e)
  PROVE  Moves(r, ValidatingPCs \cup ClaimingPCs)
<1> USE DEF ValidatingPCs, ClaimingPCs
<1>1. CASE Finish(r)
  BY <1>1, FinishMoves
<1>2. CASE request' = [request EXCEPT ![r].enr = e, ![r].pc = "open"]
  <2> DEFINE q == [request[r] EXCEPT !.enr = e, !.pc = "open"]
  <2>1. request' = [request EXCEPT ![r] = q]
    BY <1>2
  <2>2. q.pc = "open" /\ q.op = request[r].op /\ q.ws = request[r].ws
        /\ q.limit = request[r].limit
    <3>1. PICK p \in RequestRecord : p = request[r]
      BY DEF TypeInv, TypeOK
    <3>2. q = [p EXCEPT !.enr = e, !.pc = "open"]
      BY <3>1
    <3> QED  BY <3>1, <3>2 DEF RequestRecord
  <2> HIDE DEF q
  <2> QED  BY <2>1, <2>2 DEF Moves
<1> QED  BY <1>1, <1>2 DEF CommitEnrollment

\* deleteUser begins without a claim and without the lock.
LEMMA CascadeMoves ==
  ASSUME NEW r \in Requests, NEW u \in Users, CascadeDelete(r, u)
  PROVE  Moves(r, ValidatingPCs \cup ClaimingPCs)
<1> DEFINE q == [Idle EXCEPT !.op = "deleteUser", !.pc = "saveUser", !.user = u]
<1>1. request' = [request EXCEPT ![r] = q]
  BY DEF CascadeDelete
<1>2. q.pc = "saveUser" /\ q.op = "deleteUser"
  BY DEF Idle
<1> HIDE DEF q
<1> QED  BY <1>1, <1>2 DEF Moves, ValidatingPCs, ClaimingPCs

\* createEnrollment begins with the limit it has read.
LEMMA CreateSets ==
  ASSUME TypeInv, NEW r \in Requests, NEW u \in Users, NEW w \in Workshops,
         CreateEnrollment(r, u, w)
  PROVE  \E q : /\ request' = [request EXCEPT ![r] = q]
                /\ q.ws = w
                /\ q.limit = maxSeats[w]
                /\ q.pc \in {"check", "reserve"}
                /\ q.pc = "check" => q.limit = Unlimited
<1> DEFINE q == [Idle EXCEPT !.op    = "createEnrollment",
                             !.pc    = IF maxSeats[w] = Unlimited THEN "check"
                                                                  ELSE "reserve",
                             !.user  = u,
                             !.ws    = w,
                             !.limit = maxSeats[w]]
<1>1. request' = [request EXCEPT ![r] = q]
  BY DEF CreateEnrollment
<1>2. q.ws = w /\ q.limit = maxSeats[w] /\ q.pc \in {"check", "reserve"}
      /\ (q.pc = "check" => maxSeats[w] = Unlimited)
  BY DEF Idle
<1> HIDE DEF q
<1> QED  BY <1>1, <1>2

\* Of the arriving requests, only these do more than move.
LEMMA ArriveCases ==
  ASSUME TypeInv, NEW r \in Requests, Arrive(r)
  PROVE  \/ Quiet(r)
         \/ \E u \in Users, w \in Workshops : CreateEnrollment(r, u, w)
         \/ \E u \in Users : CascadeDelete(r, u)
         \/ \E e \in Enrollments : CancelEnrollment(r, e)
<1> USE DEF Quiet, PCs, ValidatingPCs, ClaimingPCs, AllOps
<1>1. ASSUME NEW e \in Enrollments,
             \/ InitPayment(r, e) \/ SuccessPayment(r, e) \/ HandleIPNValid(r, e)
             \/ HandleIPNFailed(r, e) \/ RefundPayment(r, e)
             \/ \E op \in {"failPayment", "cancelPayment"} : FailOrCancelPayment(r, e, op)
      PROVE  Quiet(r)
  BY <1>1, BeginOnMoves
  DEF InitPayment, SuccessPayment, HandleIPNValid, HandleIPNFailed, RefundPayment,
      FailOrCancelPayment
<1>2. ASSUME NEW e \in Enrollments, NEW s \in ENROLLMENT_STATUS, ReadForUpdate(r, e, s)
      PROVE  Quiet(r)
  <2> DEFINE q == [Idle EXCEPT !.op = "updateEnrollmentStatus", !.pc = "write",
                               !.enr = e, !.status = s]
  <2>1. q.pc = "write" /\ q.op = "updateEnrollmentStatus"
    BY DEF Idle
  <2>2. request' = [request EXCEPT ![r] = q]
    BY <1>2 DEF ReadForUpdate
  <2> HIDE DEF q
  <2> QED  BY <1>2, <2>1, <2>2 DEF ReadForUpdate, Moves
<1> QED  BY <1>1, <1>2 DEF Arrive

\* Of the requests that go on, these.
LEMMA ResumeCases ==
  ASSUME TypeInv, NEW r \in Requests, Resume(r) \/ Crash(r)
  PROVE  \/ Quiet(r)
         \/ TakeSeat(r) \/ CheckSnapshot(r) \/ AbortEnrollment(r)
         \/ ReleaseReservation(r) \/ SslPaymentInitFails(r)
         \/ \E e \in Enrollments : CommitEnrollment(r, e)
         \/ DecrementSeats(r) \/ WriteStatus(r)
         \/ AcquireLock(r) \/ GatewayValidates(r) \/ GatewayValidationFails(r)
         \/ DeleteLock(r) \/ SettlePayment(r) \/ ClosePayment(r) \/ CommitRefund(r)
<1> USE DEF Quiet, PCs, ValidatingPCs, ClaimingPCs
<1>1. CASE \/ FullyBooked(r) \/ SslPaymentInit(r) \/ StoreInvoice(r)
           \/ SslRefundFails(r) \/ AbortTransaction(r) \/ SaveDeletedUser(r) \/ Crash(r)
  BY <1>1, FinishMoves
  DEF FullyBooked, SslPaymentInit, StoreInvoice, SslRefundFails, AbortTransaction,
      SaveDeletedUser, Crash
<1>2. CASE CheckAmount(r) \/ SslRefundPayment(r)
  BY <1>2, FinishMoves, GotoMoves DEF CheckAmount, SslRefundPayment
<1> QED  BY <1>1, <1>2 DEF Resume

\* The steps of the specification, as far as the safety invariants see them.
LEMMA StepCases ==
  ASSUME TypeInv, [Next]_vars
  PROVE  \/ Still
         \/ \E e \in Enrollments : LockExpires(e)
         \/ \E w \in Workshops, n \in SeatEdits : UpdateWorkshop(w, n)
         \/ \E r \in Requests :
              \/ Quiet(r)
              \/ \E u \in Users, w \in Workshops : CreateEnrollment(r, u, w)
              \/ \E u \in Users : CascadeDelete(r, u)
              \/ \E e \in Enrollments : CancelEnrollment(r, e) \/ CommitEnrollment(r, e)
              \/ TakeSeat(r) \/ CheckSnapshot(r) \/ AbortEnrollment(r)
              \/ ReleaseReservation(r) \/ SslPaymentInitFails(r)
              \/ DecrementSeats(r) \/ WriteStatus(r)
              \/ AcquireLock(r) \/ GatewayValidates(r) \/ GatewayValidationFails(r)
              \/ DeleteLock(r) \/ SettlePayment(r) \/ ClosePayment(r) \/ CommitRefund(r)
<1>1. CASE UNCHANGED vars
  BY <1>1 DEF vars, Still
<1>2. CASE \/ \E e \in Enrollments : CustomerPays(e)
           \/ \E w \in Workshops : DeleteWorkshop(w)
  BY <1>2 DEF CustomerPays, DeleteWorkshop, Still
<1> QED  BY <1>1, <1>2, ArriveCases, ResumeCases DEF Next
=============================================================================
