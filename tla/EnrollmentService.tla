-------------------------- MODULE EnrollmentService --------------------------
(***************************************************************************)
(* enrollment.service.ts and enrollment.repository.ts: taking a seat and   *)
(* creating an enrollment with its payment, cancelling an enrollment, and  *)
(* the administrator's change of an enrollment's status.  A request that   *)
(* ends at its first await changes nothing and is not represented.         *)
(***************************************************************************)
EXTENDS SSLCommerz

(***************************************************************************)
(* createEnrollment, for a user whom checkAuth let in, reads the           *)
(* workshop's maxSeats.  Without a limit no seat is reserved.              *)
(***************************************************************************)
CreateEnrollment(r, u, w) ==
  /\ "createEnrollment" \in Ops
  /\ At(r, "idle")
  /\ u \notin deletedUsers
  /\ w \notin deletedWorkshops
  /\ request' = [request EXCEPT ![r] =
       [Idle EXCEPT !.op    = "createEnrollment",
                    !.pc    = IF maxSeats[w] = Unlimited THEN "check"
                                                         ELSE "reserve",
                    !.user  = u,
                    !.ws    = w,
                    !.limit = maxSeats[w]]]
  /\ UNCHANGED <<catalogVars, currentEnrollments, enrollmentVars, paymentVars,
                 valLock, gatewayVars>>

\* The seat is taken against the limit that was read, outside the transaction.
TakeSeat(r) ==
  /\ At(r, "reserve")
  /\ ReserveSeat(request[r].ws, request[r].limit)
  /\ Goto(r, "check")
  /\ UNCHANGED <<catalogVars, enrollmentVars, paymentVars, valLock, gatewayVars>>

FullyBooked(r) ==
  /\ At(r, "reserve")
  /\ request[r].ws \in deletedWorkshops
       \/ currentEnrollments[request[r].ws] >= request[r].limit
  /\ Finish(r)
  /\ UNCHANGED <<catalogVars, currentEnrollments, enrollmentVars, paymentVars,
                 valLock, gatewayVars>>

\* What the transaction requires of its snapshot.
MayEnroll(u, w) ==
  /\ u \notin deletedUsers
  /\ w \notin deletedWorkshops
  /\ ~ \E e \in ActiveAt(w) : Owner[e] = u

\* The transaction's reads, all from one snapshot.
CheckSnapshot(r) ==
  /\ At(r, "check")
  /\ MayEnroll(request[r].user, request[r].ws)
  /\ Goto(r, "commit")
  /\ UNCHANGED <<catalogVars, currentEnrollments, enrollmentVars, paymentVars,
                 valLock, gatewayVars>>

(***************************************************************************)
(* The transaction commits: enrollment and payment come into being, and    *)
(* the enrollment has its payment.  A free enrollment is complete at once; *)
(* any other one goes on to open a session at the gateway.                 *)
(***************************************************************************)
CommitEnrollment(r, e) ==
  /\ At(r, "commit")
  /\ enrollmentStatus[e] = "NONE"
  /\ Owner[e] = request[r].user
  /\ WorkshopOf[e] = request[r].ws
  /\ IndexAllows(e, "PENDING")
  /\ IF request[r].ws \in FreeWorkshops
       THEN /\ enrollmentStatus' = [enrollmentStatus EXCEPT ![e] = "COMPLETE"]
            /\ paymentStatus' = [paymentStatus EXCEPT ![e] = "PAID"]
            /\ Finish(r)
       ELSE /\ enrollmentStatus' = [enrollmentStatus EXCEPT ![e] = "PENDING"]
            /\ paymentStatus' = [paymentStatus EXCEPT ![e] = "UNPAID"]
            /\ request' = [request EXCEPT ![r].enr = e, ![r].pc = "open"]
  /\ UNCHANGED <<catalogVars, currentEnrollments, deletedEnrollments,
                 paymentGatewayData, invoiceUrl, valLock, gatewayVars>>

\* MUTANT of AbortEnrollment: the reservation is forgotten.
AbortWithoutRelease(r) ==
  /\ request[r].pc \in {"check", "commit"}
  /\ Finish(r)
  /\ UNCHANGED <<catalogVars, currentEnrollments, enrollmentVars, paymentVars,
                 valLock, gatewayVars>>

\* MUTANT of AbortEnrollment: the transaction is retried without an end.
AbortAndRetry(r) ==
  /\ request[r].pc \in {"check", "commit"}
  /\ Goto(r, "check")
  /\ UNCHANGED <<catalogVars, currentEnrollments, enrollmentVars, paymentVars,
                 valLock, gatewayVars>>

\* A check fails, the index refuses the insert or the transaction aborts.
AbortEnrollment(r) ==
  /\ request[r].pc \in {"check", "commit"}
  /\ Goto(r, "release")
  /\ UNCHANGED <<catalogVars, currentEnrollments, enrollmentVars, paymentVars,
                 valLock, gatewayVars>>

\* releaseSeat in the catch block: also reached when sslPaymentInit fails.
ReleaseReservation(r) ==
  /\ At(r, "release")
  /\ IF request[r].limit = Unlimited THEN UNCHANGED currentEnrollments
                                     ELSE ReleaseSeat(request[r].ws)
  /\ Finish(r)
  /\ UNCHANGED <<catalogVars, enrollmentVars, paymentVars, valLock, gatewayVars>>

-----------------------------------------------------------------------------
(***************************************************************************)
(* cancelEnrollment: one update checks the status and writes CANCEL; the   *)
(* workshop's counter is decremented in a second one.  The payment is left *)
(* as it is.                                                               *)
(***************************************************************************)
CancelEnrollment(r, e) ==
  /\ Active(e)
  /\ currentEnrollments[WorkshopOf[e]] > -MaxUnderflow
  /\ UpdateEnrollment(e, "CANCEL")
  /\ BeginOn(r, "cancelEnrollment", e, "decrement")
  /\ UNCHANGED <<catalogVars, currentEnrollments, deletedEnrollments,
                 paymentVars, valLock, gatewayVars>>

\* The counter's decrement, after the update or the transaction that closed e.
DecrementSeats(r) ==
  /\ At(r, "decrement")
  /\ LET e == request[r].enr
     IN IF request[r].op = "cancelEnrollment" \/ Found(e)
          THEN ReleaseSeat(WorkshopOf[e])
          ELSE UNCHANGED currentEnrollments
  /\ Finish(r)
  /\ UNCHANGED <<catalogVars, enrollmentVars, paymentVars, valLock, gatewayVars>>

-----------------------------------------------------------------------------
(***************************************************************************)
(* updateEnrollmentStatus reads the status, and writes another one later.  *)
(***************************************************************************)
ReadForUpdate(r, e, status) ==
  /\ Found(e)
  /\ enrollmentStatus[e] = "PENDING"
  /\ "updateEnrollmentStatus" \in Ops
  /\ At(r, "idle")
  /\ request' = [request EXCEPT ![r] =
       [Idle EXCEPT !.op = "updateEnrollmentStatus", !.pc = "write",
                    !.enr = e, !.status = status]]
  /\ UNCHANGED <<catalogVars, currentEnrollments, enrollmentVars, paymentVars,
                 valLock, gatewayVars>>

\* findOneAndUpdate by id alone; the index may refuse the new status.
WriteStatus(r) ==
  LET e == request[r].enr
      s == request[r].status
  IN /\ At(r, "write")
     /\ IF IndexAllows(e, s) THEN UpdateEnrollment(e, s)
                             ELSE UNCHANGED enrollmentStatus
     /\ Finish(r)
     /\ UNCHANGED <<catalogVars, currentEnrollments, deletedEnrollments,
                    paymentVars, valLock, gatewayVars>>
=============================================================================
