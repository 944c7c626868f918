--------------------------- MODULE PaymentService ---------------------------
(***************************************************************************)
(* payment.service.ts and payment.repository.ts: the gateway's redirects   *)
(* (success, fail, cancel), its notification (IPN), a repeated start of    *)
(* the payment and the administrator's refund.  Callbacks may come several *)
(* times, late and in any order.  A request that ends at its first read,   *)
(* because of the status or of an amount that does not match, changes      *)
(* nothing and is not represented.                                         *)
(***************************************************************************)
EXTENDS SSLCommerz

\* The documents that populate("user") and populate("workshop") find.
Populated(e) == Owner[e] \notin deletedUsers /\ WorkshopOf[e] \notin deletedWorkshops

\* initPayment finds the payment not yet paid and its enrollment pending.
InitPayment(r, e) ==
  /\ Found(e) /\ Owner[e] \notin deletedUsers
  /\ paymentStatus[e] # "PAID"
  /\ enrollmentStatus[e] = "PENDING"
  /\ BeginOn(r, "initPayment", e, "open")
  /\ UNCHANGED <<catalogVars, currentEnrollments, enrollmentVars, paymentVars,
                 valLock, gatewayVars>>

-----------------------------------------------------------------------------
(***************************************************************************)
(* The gateway reports the customer's payment, by the redirect or by the   *)
(* IPN.  The redirect's handler stops at a payment it reads as PAID.       *)
(***************************************************************************)
SuccessPayment(r, e) ==
  /\ e \in charged
  /\ paymentStatus[e] # "PAID"
  /\ BeginOn(r, "successPayment", e, "lock")
  /\ UNCHANGED <<catalogVars, currentEnrollments, enrollmentVars, paymentVars,
                 valLock, gatewayVars>>

HandleIPNValid(r, e) ==
  /\ e \in charged
  /\ BeginOn(r, "ipnValid", e, "lock")
  /\ UNCHANGED <<catalogVars, currentEnrollments, enrollmentVars, paymentVars,
                 valLock, gatewayVars>>

\* successPayment compares the amount the gateway's stored answer reports.
CheckAmount(r) ==
  /\ At(r, "amount")
  /\ IF paymentGatewayData[request[r].enr] = "mismatch" THEN Finish(r)
                                                        ELSE Goto(r, "settle")
  /\ UNCHANGED <<catalogVars, currentEnrollments, enrollmentVars, paymentVars,
                 valLock, gatewayVars>>

(***************************************************************************)
(* The transaction UNPAID -> PAID with the enrollment's COMPLETE.          *)
(* successPayment aborts when the enrollment is not found, handleIPN does  *)
(* not look; the unique index may refuse COMPLETE.  Only successPayment    *)
(* goes on to an invoice, which needs the user's and the workshop's names. *)
(***************************************************************************)
SettlePayment(r) ==
  LET e == request[r].enr
  IN /\ At(r, "settle")
     /\ UpdatePayment(e, "PAID", "UNPAID")
     /\ IF Found(e) THEN IndexAllows(e, "COMPLETE")
                    ELSE request[r].op = "ipnValid"
     /\ UpdateEnrollment(e, "COMPLETE")
     /\ IF request[r].op = "successPayment" /\ Populated(e)
          THEN Goto(r, "invoice")
          ELSE Finish(r)
     /\ UNCHANGED <<catalogVars, currentEnrollments, deletedEnrollments,
                    paymentGatewayData, invoiceUrl, valLock, gatewayVars>>

\* MUTANT of AbortTransaction: the seat is given back by whoever tried.
AbortButDecrement(r) ==
  /\ request[r].pc \in {"settle", "close", "refund"}
  /\ IF At(r, "settle") THEN Finish(r) ELSE Goto(r, "decrement")
  /\ UNCHANGED <<catalogVars, currentEnrollments, enrollmentVars, paymentVars,
                 valLock, gatewayVars>>

(***************************************************************************)
(* A transaction of the service that finds the payment's status changed,   *)
(* or aborts (a write conflict, the index, an enrollment not found).       *)
(***************************************************************************)
AbortTransaction(r) ==
  /\ request[r].pc \in {"settle", "close", "refund"}
  /\ Finish(r)
  /\ UNCHANGED <<catalogVars, currentEnrollments, enrollmentVars, paymentVars,
                 valLock, gatewayVars>>

\* successPayment makes the invoice and stores its URL; failures are logged.
StoreInvoice(r) ==
  /\ At(r, "invoice")
  /\ \/ invoiceUrl' = invoiceUrl \cup {request[r].enr}
     \/ "gateway" \in Faults /\ UNCHANGED invoiceUrl
  /\ Finish(r)
  /\ UNCHANGED <<catalogVars, currentEnrollments, enrollmentVars,
                 paymentStatus, paymentGatewayData, valLock, gatewayVars>>

-----------------------------------------------------------------------------
(***************************************************************************)
(* The gateway reports an attempt to pay that failed or was cancelled: the *)
(* redirects' handlers look at the status first, handleIPN does not.       *)
(***************************************************************************)
FailOrCancelPayment(r, e, op) ==
  /\ op \in {"failPayment", "cancelPayment"}
  /\ e \in gatewaySession
  /\ paymentStatus[e] = "UNPAID"
  /\ BeginOn(r, op, e, "close")
  /\ UNCHANGED <<catalogVars, currentEnrollments, enrollmentVars, paymentVars,
                 valLock, gatewayVars>>

HandleIPNFailed(r, e) ==
  /\ e \in gatewaySession
  /\ BeginOn(r, "ipnFailed", e, "close")
  /\ UNCHANGED <<catalogVars, currentEnrollments, enrollmentVars, paymentVars,
                 valLock, gatewayVars>>

\* MUTANT of ClosePayment: the payment's status is written to both documents.
CloseWithPaymentStatus(r) ==
  LET e == request[r].enr
      s == IF request[r].op = "cancelPayment" THEN "CANCELLED" ELSE "FAILED"
  IN /\ At(r, "close")
     /\ UpdatePayment(e, s, "UNPAID")
     /\ UpdateEnrollment(e, s)
     /\ Goto(r, "decrement")
     /\ UNCHANGED <<catalogVars, currentEnrollments, deletedEnrollments,
                    paymentGatewayData, invoiceUrl, valLock, gatewayVars>>

\* The transaction UNPAID -> FAILED or CANCELLED; DecrementSeats follows.
ClosePayment(r) ==
  LET e == request[r].enr
      cancelled == request[r].op = "cancelPayment"
  IN /\ At(r, "close")
     /\ UpdatePayment(e, IF cancelled THEN "CANCELLED" ELSE "FAILED", "UNPAID")
     /\ UpdateEnrollment(e, IF cancelled THEN "CANCEL" ELSE "FAILED")
     /\ Goto(r, "decrement")
     /\ UNCHANGED <<catalogVars, currentEnrollments, deletedEnrollments,
                    paymentGatewayData, invoiceUrl, valLock, gatewayVars>>

-----------------------------------------------------------------------------
(***************************************************************************)
(* refundPayment reads a PAID payment; with no stored gateway answer, and  *)
(* so no bank_tran_id, it skips the gateway's refund.                      *)
(***************************************************************************)
RefundPayment(r, e) ==
  /\ paymentStatus[e] = "PAID"
  /\ BeginOn(r, "refundPayment", e,
             IF paymentGatewayData[e] = "none" THEN "refund" ELSE "refundCall")
  /\ UNCHANGED <<catalogVars, currentEnrollments, enrollmentVars, paymentVars,
                 valLock, gatewayVars>>

\* MUTANT of CommitRefund: the enrollment stays as it is.
RefundPaymentOnly(r) ==
  /\ At(r, "refund")
  /\ UpdatePayment(request[r].enr, "REFUNDED", "PAID")
  /\ Goto(r, "decrement")
  /\ UNCHANGED <<catalogVars, currentEnrollments, enrollmentVars,
                 paymentGatewayData, invoiceUrl, valLock, gatewayVars>>

\* The transaction PAID -> REFUNDED; DecrementSeats follows.
CommitRefund(r) ==
  LET e == request[r].enr
  IN /\ At(r, "refund")
     /\ UpdatePayment(e, "REFUNDED", "PAID")
     /\ UpdateEnrollment(e, "CANCEL")
     /\ Goto(r, "decrement")
     /\ UNCHANGED <<catalogVars, currentEnrollments, deletedEnrollments,
                    paymentGatewayData, invoiceUrl, valLock, gatewayVars>>
=============================================================================
