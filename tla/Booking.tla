------------------------------- MODULE Booking -------------------------------
(***************************************************************************)
(* The booking core: the enrollment and payment services at work on the    *)
(* shared documents, together with the administration of workshops and     *)
(* users, crashes and the expiry of Redis keys.                            *)
(***************************************************************************)
EXTENDS EnrollmentService, PaymentService

-----------------------------------------------------------------------------
\* updateWorkshop, as far as booking sees it: another maxSeats.
UpdateWorkshop(w, n) ==
  /\ n \in SeatEdits
  /\ w \notin deletedWorkshops
  /\ maxSeats' = [maxSeats EXCEPT ![w] = n]
  /\ UNCHANGED <<deletedWorkshops, deletedUsers, currentEnrollments,
                 enrollmentVars, paymentVars, valLock, gatewayVars, request>>

\* deleteWorkshop marks the workshop, whoever is enrolled in it.
DeleteWorkshop(w) ==
  /\ "deleteWorkshop" \in Ops
  /\ w \notin deletedWorkshops
  /\ deletedWorkshops' = deletedWorkshops \cup {w}
  /\ UNCHANGED <<maxSeats, deletedUsers, currentEnrollments, enrollmentVars,
                 paymentVars, valLock, gatewayVars, request>>

(***************************************************************************)
(* deleteUser: the user's pre-save hook first marks the user's             *)
(* enrollments as deleted, then the user's document is saved.              *)
(***************************************************************************)
CascadeDelete(r, u) ==
  /\ "deleteUser" \in Ops
  /\ At(r, "idle")
  /\ u \notin deletedUsers
  /\ deletedEnrollments' =
       deletedEnrollments \cup {e \in Enrollments : Owner[e] = u /\ Found(e)}
  /\ request' = [request EXCEPT ![r] =
       [Idle EXCEPT !.op = "deleteUser", !.pc = "saveUser", !.user = u]]
  /\ UNCHANGED <<catalogVars, currentEnrollments, enrollmentStatus,
                 paymentVars, valLock, gatewayVars>>

SaveDeletedUser(r) ==
  /\ At(r, "saveUser")
  /\ deletedUsers' = deletedUsers \cup {request[r].user}
  /\ Finish(r)
  /\ UNCHANGED <<maxSeats, deletedWorkshops, currentEnrollments,
                 enrollmentVars, paymentVars, valLock, gatewayVars>>

\* The process that handles a request dies; nothing of the request is resumed.
Crash(r) ==
  /\ "crash" \in Faults
  /\ ~At(r, "idle")
  /\ Finish(r)
  /\ UNCHANGED <<catalogVars, currentEnrollments, enrollmentVars, paymentVars,
                 valLock, gatewayVars>>

-----------------------------------------------------------------------------
\* A request arrives at the server.
Arrive(r) ==
  \/ \E u \in Users, w \in Workshops : CreateEnrollment(r, u, w)
  \/ \E u \in Users : CascadeDelete(r, u)
  \/ \E e \in Enrollments :
       \/ CancelEnrollment(r, e)
       \/ \E s \in ENROLLMENT_STATUS : ReadForUpdate(r, e, s)
       \/ InitPayment(r, e)
       \/ SuccessPayment(r, e)
       \/ HandleIPNValid(r, e)
       \/ \E op \in {"failPayment", "cancelPayment"} : FailOrCancelPayment(r, e, op)
       \/ HandleIPNFailed(r, e)
       \/ RefundPayment(r, e)

\* A request in flight goes on from the await at which it stands.
Resume(r) ==
  \/ TakeSeat(r) \/ FullyBooked(r) \/ CheckSnapshot(r)
  \/ \E e \in Enrollments : CommitEnrollment(r, e)
  \/ AbortEnrollment(r) \/ ReleaseReservation(r)
  \/ SslPaymentInit(r) \/ SslPaymentInitFails(r)
  \/ DecrementSeats(r) \/ WriteStatus(r)
  \/ AcquireLock(r) \/ GatewayValidates(r) \/ GatewayValidationFails(r)
  \/ DeleteLock(r) \/ CheckAmount(r) \/ SettlePayment(r) \/ StoreInvoice(r)
  \/ ClosePayment(r) \/ SslRefundPayment(r) \/ SslRefundFails(r)
  \/ CommitRefund(r) \/ AbortTransaction(r)
  \/ SaveDeletedUser(r)

Next ==
  \/ \E r \in Requests : Arrive(r) \/ Resume(r) \/ Crash(r)
  \/ \E e \in Enrollments : CustomerPays(e) \/ LockExpires(e)
  \/ \E w \in Workshops : DeleteWorkshop(w) \/ \E n \in SeatEdits : UpdateWorkshop(w, n)

Spec == Init /\ [][Next]_vars

(***************************************************************************)
(* The server goes on with every request it handles, and Redis drops a key *)
(* whose time is over.  Nobody is obliged to ask, to pay or to call back.  *)
(***************************************************************************)
Fairness ==
  /\ \A r \in Requests : WF_vars(Resume(r))
  /\ \A e \in Enrollments : WF_vars(LockExpires(e))

FairSpec == Spec /\ Fairness

-----------------------------------------------------------------------------
(***************************************************************************)
(* Seats.  A request claims a seat of w while it holds a reservation that  *)
(* is not an enrollment yet, or has closed an enrollment whose seat it has *)
(* still to give back.                                                     *)
(***************************************************************************)
Capped == {w \in Workshops : InitialSeats[w] # Unlimited}

Limits ==
  [w \in Workshops |-> IF w \in Capped THEN {InitialSeats[w]} \cup SeatEdits ELSE {}]

HoldsReservation(r, w) ==
  /\ request[r].op = "createEnrollment"
  /\ request[r].pc \in {"check", "commit", "release"}
  /\ request[r].limit # Unlimited
  /\ request[r].ws = w

OwesRelease(r, w) ==
  /\ At(r, "decrement")
  /\ WorkshopOf[request[r].enr] = w
  /\ request[r].op = "cancelEnrollment" \/ Found(request[r].enr)

Claims(w) == {r \in Requests : HoldsReservation(r, w) \/ OwesRelease(r, w)}

(***************************************************************************)
(* The counter never falls below the seats in use: every active enrollment *)
(* and every claim is counted, whatever crashed or was deleted meanwhile.  *)
(* It is what createEnrollment's guard relies on, and holds as long as no  *)
(* seat is given back twice (no cancelEnrollment, no failing               *)
(* sslPaymentInit, no stale write of updateEnrollmentStatus).              *)
(***************************************************************************)
SeatsCoverActive ==
  \A w \in Capped :
    Cardinality(ActiveAt(w)) + Cardinality(Claims(w)) <= currentEnrollments[w]

(***************************************************************************)
(* No workshop with a limit has more active enrollments, paid for or not,  *)
(* than a limit it had: what reserving a seat first is for.                *)
(***************************************************************************)
NoOversell ==
  \A w \in Capped : \E n \in Limits[w] : Cardinality(ActiveAt(w)) <= n

(***************************************************************************)
(* README: overselling workshops is prevented.  No more enrollments are    *)
(* COMPLETE than a limit the workshop had.                                 *)
(***************************************************************************)
SoldWithinSeats ==
  \A w \in Capped : \E n \in Limits[w] :
    Cardinality({e \in ActiveAt(w) : enrollmentStatus[e] = "COMPLETE"}) <= n

(***************************************************************************)
(* Without crashes and deletions no seat is lost either: the counter is    *)
(* exactly the number of active enrollments and claims.                    *)
(***************************************************************************)
SeatConservation ==
  \A w \in Capped :
    Cardinality(ActiveAt(w)) + Cardinality(Claims(w)) = currentEnrollments[w]

-----------------------------------------------------------------------------
(***************************************************************************)
(* A user has at most one active enrollment for a workshop, although the   *)
(* check of createEnrollment reads a snapshot, and although callbacks and  *)
(* the administrator may make an enrollment active again.                  *)
(***************************************************************************)
UniqueActive ==
  \A e, f \in Enrollments : Active(e) /\ Active(f) /\ SamePair(e, f) => e = f

(***************************************************************************)
(* Payment and enrollment of an order move together, in one transaction    *)
(* each time, whichever callback or refund wins.                           *)
(***************************************************************************)
StatusesAgree ==
  \A e \in Enrollments : Found(e) =>
    <<paymentStatus[e], enrollmentStatus[e]>> \in
      {<<"UNPAID", "PENDING">>, <<"PAID", "COMPLETE">>, <<"FAILED", "FAILED">>,
       <<"CANCELLED", "CANCEL">>, <<"REFUNDED", "CANCEL">>}

(***************************************************************************)
(* A payment is settled once: it leaves UNPAID for one of PAID, FAILED and *)
(* CANCELLED, can then only be refunded, and only if it was PAID, however  *)
(* often and late the gateway calls back.                                  *)
(***************************************************************************)
PaymentLifecycle ==
  [][\A e \in Enrollments : paymentStatus'[e] # paymentStatus[e] =>
       <<paymentStatus[e], paymentStatus'[e]>> \in
         {<<"NONE", "UNPAID">>, <<"NONE", "PAID">>, <<"UNPAID", "PAID">>,
          <<"UNPAID", "FAILED">>, <<"UNPAID", "CANCELLED">>,
          <<"PAID", "REFUNDED">>}]_vars

\* enrollment.service.ts: once an enrollment leaves PENDING it must not regress.
NoRegress ==
  [][\A e \in Enrollments :
       enrollmentStatus[e] \notin {"NONE", "PENDING"} =>
         enrollmentStatus'[e] # "PENDING"]_vars

(***************************************************************************)
(* user.model.ts: when a user is soft-deleted, the user's enrollments are  *)
(* marked as deleted too.                                                  *)
(***************************************************************************)
DeletedUserHasNoEnrollment ==
  \A e \in Enrollments : Found(e) => Owner[e] \notin deletedUsers

-----------------------------------------------------------------------------
(***************************************************************************)
(* sslCommerz.service.ts: the lock prevents a concurrent IPN and callback  *)
(* from both calling the gateway's validation of one payment.              *)
(***************************************************************************)
ValidationExclusive ==
  \A r, s \in Requests :
    At(r, "validate") /\ At(s, "validate") /\ request[r].enr = request[s].enr
      => r = s

(***************************************************************************)
(* payment.service.ts validates a payment with SSLCommerz before it is     *)
(* marked PAID: the gateway's answer is on record.                         *)
(***************************************************************************)
PaidIsValidated ==
  \A e \in Enrollments :
    paymentStatus[e] = "PAID" /\ WorkshopOf[e] \notin FreeWorkshops
      => paymentGatewayData[e] # "none"

\* payment.service.ts: the update PAID -> REFUNDED is to prevent double refunds.
RefundedOnce == \A e \in Enrollments : refunds[e] <= 1

(***************************************************************************)
(* README: payments come with a PDF invoice.  A payment that was PAID      *)
(* through the gateway eventually has its invoiceUrl or is refunded.       *)
(***************************************************************************)
PaidGetsInvoice ==
  \A e \in Enrollments :
    paymentStatus[e] = "PAID" /\ e \in charged
      ~> e \in invoiceUrl \/ paymentStatus[e] = "REFUNDED"

\* A validation lock does not outlive the request that set it for ever.
LockIsFreed == \A e \in Enrollments : e \in valLock ~> e \notin valLock

\* A claim on a seat is temporary: it ends as an enrollment or a release.
ClaimsEnd ==
  \A r \in Requests, w \in Workshops : r \in Claims(w) ~> r \notin Claims(w)

-----------------------------------------------------------------------------
(***************************************************************************)
(* The ledger of seats that the enrollments' documents amount to.          *)
(***************************************************************************)
Stage ==
  [e \in Enrollments |->
     CASE enrollmentStatus[e] = "NONE"                     -> "absent"
       [] Found(e) /\ enrollmentStatus[e] = "PENDING"      -> "pending"
       [] Found(e) /\ enrollmentStatus[e] = "COMPLETE"     -> "confirmed"
       [] OTHER                                            -> "closed"]

Ledger == INSTANCE SeatLedger WITH stage <- Stage

(***************************************************************************)
(* Booking implements the ledger: seats are taken only while there is one, *)
(* one per user and workshop, and a seat given up is not taken back.       *)
(***************************************************************************)
ImplementsLedger == Ledger!Spec
=============================================================================
