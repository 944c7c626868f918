----------------------------- MODULE SSLCommerz -----------------------------
(***************************************************************************)
(* sslCommerz.service.ts: the calls to the payment gateway, and what the   *)
(* gateway and the customer do on their side.  Each handler of the other   *)
(* services passes through these steps at the await of the call.           *)
(***************************************************************************)
EXTENDS BookingStore

(***************************************************************************)
(* The customer pays for an order at the gateway's page.                   *)
(***************************************************************************)
CustomerPays(e) ==
  /\ e \in gatewaySession \ charged
  /\ charged' = charged \cup {e}
  /\ UNCHANGED <<catalogVars, currentEnrollments, enrollmentVars, paymentVars,
                 valLock, gatewaySession, refunds, request>>

(***************************************************************************)
(* sslPaymentInit: the gateway opens a session for the order and the       *)
(* request, its last await done, returns the page's URL; or the call       *)
(* fails, and createEnrollment goes to its catch block while initPayment   *)
(* throws.                                                                 *)
(***************************************************************************)
SslPaymentInit(r) ==
  /\ At(r, "open")
  /\ gatewaySession' = gatewaySession \cup {request[r].enr}
  /\ Finish(r)
  /\ UNCHANGED <<catalogVars, currentEnrollments, enrollmentVars, paymentVars,
                 valLock, charged, refunds>>

SslPaymentInitFails(r) ==
  /\ At(r, "open")
  /\ "init" \in Faults
  /\ IF request[r].op = "createEnrollment" THEN Goto(r, "release")
                                           ELSE Finish(r)
  /\ UNCHANGED <<catalogVars, currentEnrollments, enrollmentVars, paymentVars,
                 valLock, gatewayVars>>

-----------------------------------------------------------------------------
(***************************************************************************)
(* validatePayment.  The lock's key is the val_id of the customer's        *)
(* payment, which the success redirect and the IPN of an order share.      *)
(***************************************************************************)
\* Where a handler goes on once validatePayment has returned.
AfterValidation(r) ==
  IF request[r].op = "successPayment" THEN "amount" ELSE "settle"

\* MUTANT of AcquireLock: SET without NX.
AcquireLockAnyway(r) ==
  /\ At(r, "lock")
  /\ Goto(r, "validate")
  /\ valLock' = valLock \cup {request[r].enr}
  /\ UNCHANGED <<catalogVars, currentEnrollments, enrollmentVars, paymentVars,
                 gatewayVars>>

\* SET NX EX 30: the request that finds the key returns without validating.
AcquireLock(r) ==
  /\ At(r, "lock")
  /\ IF request[r].enr \in valLock THEN Goto(r, AfterValidation(r))
                                   ELSE Goto(r, "validate")
  /\ valLock' = valLock \cup {request[r].enr}
  /\ UNCHANGED <<catalogVars, currentEnrollments, enrollmentVars, paymentVars,
                 gatewayVars>>

\* The gateway says VALID; its answer, with the amount, is stored.
GatewayValidates(r) ==
  /\ At(r, "validate")
  /\ \E amount \in Amounts :
       paymentGatewayData' =
         [paymentGatewayData EXCEPT ![request[r].enr] = amount]
  /\ Goto(r, "unlock")
  /\ UNCHANGED <<catalogVars, currentEnrollments, enrollmentVars,
                 paymentStatus, invoiceUrl, valLock, gatewayVars>>

\* The call fails or the gateway does not say VALID: the handler throws.
GatewayValidationFails(r) ==
  /\ At(r, "validate")
  /\ "gateway" \in Faults
  /\ Goto(r, "reject")
  /\ UNCHANGED <<catalogVars, currentEnrollments, enrollmentVars, paymentVars,
                 valLock, gatewayVars>>

\* The finally block deletes the key, whoever set it.
DeleteLock(r) ==
  /\ \/ At(r, "unlock") /\ Goto(r, AfterValidation(r))
     \/ At(r, "reject") /\ Finish(r)
  /\ valLock' = valLock \ {request[r].enr}
  /\ UNCHANGED <<catalogVars, currentEnrollments, enrollmentVars, paymentVars,
                 gatewayVars>>

Validating(r, e) == request[r].pc \in {"validate", "unlock", "reject"}
                    /\ request[r].enr = e

\* MUTANT of LockExpires: SET without EX.
LockNeverExpires(e) == FALSE /\ UNCHANGED vars

(***************************************************************************)
(* Redis drops the key 30 seconds after it was set.  Unless the gateway is *)
(* slow, only a request that died leaves the key there for so long.        *)
(***************************************************************************)
LockExpires(e) ==
  /\ e \in valLock
  /\ "slow" \in Faults \/ \A r \in Requests : ~Validating(r, e)
  /\ valLock' = valLock \ {e}
  /\ UNCHANGED <<catalogVars, currentEnrollments, enrollmentVars, paymentVars,
                 gatewayVars, request>>

-----------------------------------------------------------------------------
(***************************************************************************)
(* sslRefundPayment: the gateway refunds the order, at most MaxRefunds     *)
(* times, and says so; or the call fails, before the gateway refunded or   *)
(* when its answer was lost, and refundPayment throws.                     *)
(***************************************************************************)
SslRefundPayment(r) ==
  /\ At(r, "refundCall")
  /\ refunds[request[r].enr] < MaxRefunds
  /\ refunds' = [refunds EXCEPT ![request[r].enr] = @ + 1]
  /\ \/ Goto(r, "refund")
     \/ "gateway" \in Faults /\ Finish(r)
  /\ UNCHANGED <<catalogVars, currentEnrollments, enrollmentVars, paymentVars,
                 valLock, gatewaySession, charged>>

SslRefundFails(r) ==
  /\ At(r, "refundCall")
  /\ "gateway" \in Faults \/ refunds[request[r].enr] >= MaxRefunds
  /\ Finish(r)
  /\ UNCHANGED <<catalogVars, currentEnrollments, enrollmentVars, paymentVars,
                 valLock, gatewayVars>>
=============================================================================
