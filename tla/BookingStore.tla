---------------------------- MODULE BookingStore ----------------------------
(***************************************************************************)
(* The state that the enrollment and payment services share: the MongoDB   *)
(* documents they read and write, the Redis lock of a payment validation,  *)
(* what the SSLCommerz gateway knows of an order, and the HTTP requests    *)
(* that are being handled, with their local variables.                     *)
(*                                                                         *)
(* A document operation (findOne, findOneAndUpdate, updateOne) is atomic,  *)
(* a MongoDB transaction takes effect in one step or not at all, and a     *)
(* request may be overtaken by any other one at each of its awaits.        *)
(***************************************************************************)
EXTENDS Integers, FiniteSets

CONSTANTS
  Users,          \* user ids
  Workshops,      \* workshop ids
  Enrollments,    \* ids of the enrollments that may come to exist; an
                  \* enrollment has one payment, which goes by the same id
  Requests,       \* slots for requests in flight: bounds their concurrency
  Owner,          \* Owner[e]: the (immutable) user of enrollment e
  WorkshopOf,     \* WorkshopOf[e]: the (immutable) workshop of enrollment e
  None,           \* no user, no workshop, no enrollment
  Unlimited,      \* maxSeats of a workshop that has none
  InitialSeats,   \* InitialSeats[w]: maxSeats when the workshop is created
  FreeWorkshops,  \* workshops whose price is 0
  SeatEdits,      \* the values a workshop's maxSeats may be changed to
  Ops,            \* the operations that clients ask for
  Faults,         \* what may go wrong: see the definition of AllFaults
  Amounts,        \* how a reported amount compares with the payment's
  MaxRefunds,     \* bound: refunds the gateway carries out for one order
  MaxUnderflow    \* bound: no cancelEnrollment starts with the count this
                  \* far below 0

VARIABLES
  maxSeats,            \* workshop.maxSeats
  currentEnrollments,  \* workshop.currentEnrollments
  deletedWorkshops,    \* workshops with isDeleted
  deletedUsers,        \* users with isDeleted
  enrollmentStatus,    \* enrollment.status, "NONE" before it is created
  deletedEnrollments,  \* enrollments with isDeleted
  paymentStatus,       \* payment.status, "NONE" before it is created
  paymentGatewayData,  \* the amount in the gateway's stored answer, or "none"
  invoiceUrl,          \* payments that have an invoiceUrl
  valLock,             \* orders whose lock:payment:val_id key exists in Redis
  gatewaySession,      \* orders for which the gateway opened a payment session
  charged,             \* orders the customer has paid at the gateway
  refunds,             \* how many refunds the gateway carried out for an order
  request              \* the requests in flight

catalogVars    == <<maxSeats, deletedWorkshops, deletedUsers>>
enrollmentVars == <<enrollmentStatus, deletedEnrollments>>
paymentVars    == <<paymentStatus, paymentGatewayData, invoiceUrl>>
gatewayVars    == <<gatewaySession, charged, refunds>>

vars == <<catalogVars, currentEnrollments, enrollmentVars, paymentVars,
          valLock, gatewayVars, request>>

-----------------------------------------------------------------------------
ENROLLMENT_STATUS == {"PENDING", "CANCEL", "COMPLETE", "FAILED"}
PAYMENT_STATUS    == {"PAID", "UNPAID", "CANCELLED", "FAILED", "REFUNDED"}

ActiveStatuses == {"PENDING", "COMPLETE"}

AllOps == {"createEnrollment", "cancelEnrollment", "updateEnrollmentStatus",
           "initPayment", "successPayment", "failPayment", "cancelPayment",
           "ipnValid", "ipnFailed", "refundPayment", "deleteUser",
           "deleteWorkshop"}

(***************************************************************************)
(* What may go wrong: a request dies with its process ("crash"); the       *)
(* gateway does not answer or refuses to open a session ("init"), or to    *)
(* validate or refund ("gateway"); the gateway's answer to a validation    *)
(* takes longer than the 30 seconds its lock lives ("slow").               *)
(***************************************************************************)
AllFaults == {"crash", "init", "gateway", "slow"}

ASSUME StoreAssumption ==
  /\ IsFiniteSet(Enrollments) /\ IsFiniteSet(Requests)
  /\ Owner \in [Enrollments -> Users]
  /\ WorkshopOf \in [Enrollments -> Workshops]
  /\ None \notin Users \cup Workshops \cup Enrollments
  /\ Unlimited \notin Int
  /\ InitialSeats \in [Workshops -> Nat \cup {Unlimited}]
  /\ FreeWorkshops \subseteq Workshops
  /\ SeatEdits \subseteq Nat
  /\ Ops \subseteq AllOps
  /\ Faults \subseteq AllFaults
  /\ Amounts \subseteq {"match", "mismatch"}
  /\ MaxRefunds \in Nat
  /\ MaxUnderflow \in Nat

-----------------------------------------------------------------------------
(***************************************************************************)
(* A request in flight.  pc names the await at which it stands; enr, user  *)
(* and ws are what it works on; limit is the maxSeats that                 *)
(* createEnrollment read (Unlimited when it reserves no seat); status is   *)
(* the status updateEnrollmentStatus will write.                           *)
(***************************************************************************)
PCs == {"idle", "reserve", "check", "commit", "release", "open", "write",
        "lock", "validate", "unlock", "reject", "amount", "settle",
        "invoice", "close", "refundCall", "refund", "decrement", "saveUser"}

RequestRecord ==
  [op     : AllOps \cup {"none"},
   pc     : PCs,
   user   : Users \cup {None},
   ws     : Workshops \cup {None},
   enr    : Enrollments \cup {None},
   limit  : Nat \cup {Unlimited},
   status : ENROLLMENT_STATUS \cup {"NONE"}]

Idle == [op |-> "none", pc |-> "idle", user |-> None, ws |-> None,
         enr |-> None, limit |-> Unlimited, status |-> "NONE"]

At(r, label)   == request[r].pc = label
Goto(r, label) == request' = [request EXCEPT ![r].pc = label]
Finish(r)      == request' = [request EXCEPT ![r] = Idle]

\* A request for operation op on enrollment e arrives; it gets as far as label.
BeginOn(r, op, e, label) ==
  /\ op \in Ops
  /\ At(r, "idle")
  /\ request' = [request EXCEPT
       ![r] = [Idle EXCEPT !.op = op, !.enr = e, !.pc = label]]

TypeOK ==
  /\ maxSeats \in [Workshops -> Nat \cup {Unlimited}]
  /\ currentEnrollments \in [Workshops -> Int]
  /\ deletedWorkshops \subseteq Workshops
  /\ deletedUsers \subseteq Users
  /\ enrollmentStatus \in [Enrollments -> ENROLLMENT_STATUS \cup {"NONE"}]
  /\ deletedEnrollments \subseteq Enrollments
  /\ paymentStatus \in [Enrollments -> PAYMENT_STATUS \cup {"NONE"}]
  /\ paymentGatewayData \in [Enrollments -> Amounts \cup {"none"}]
  /\ invoiceUrl \subseteq Enrollments
  /\ valLock \subseteq Enrollments
  /\ gatewaySession \subseteq Enrollments
  /\ charged \subseteq Enrollments
  /\ refunds \in [Enrollments -> Nat]
  /\ request \in [Requests -> RequestRecord]

Init ==
  /\ maxSeats = InitialSeats
  /\ currentEnrollments = [w \in Workshops |-> 0]
  /\ deletedWorkshops = {}
  /\ deletedUsers = {}
  /\ enrollmentStatus = [e \in Enrollments |-> "NONE"]
  /\ deletedEnrollments = {}
  /\ paymentStatus = [e \in Enrollments |-> "NONE"]
  /\ paymentGatewayData = [e \in Enrollments |-> "none"]
  /\ invoiceUrl = {}
  /\ valLock = {}
  /\ gatewaySession = {}
  /\ charged = {}
  /\ refunds = [e \in Enrollments |-> 0]
  /\ request = [r \in Requests |-> Idle]

-----------------------------------------------------------------------------
(***************************************************************************)
(* The queries.  The soft-delete plugin adds isDeleted # true to every     *)
(* find and update, so a deleted document is neither found nor changed.    *)
(***************************************************************************)
Found(e)  == enrollmentStatus[e] # "NONE" /\ e \notin deletedEnrollments
Active(e) == Found(e) /\ enrollmentStatus[e] \in ActiveStatuses

ActiveAt(w) == {e \in Enrollments : WorkshopOf[e] = w /\ Active(e)}

SamePair(e, f) == Owner[e] = Owner[f] /\ WorkshopOf[e] = WorkshopOf[f]

\* MUTANT of IndexAllows: the index is missing.
IndexMissing(e, status) == TRUE

(***************************************************************************)
(* The unique partial index on (workshop, user): the server refuses, with  *)
(* E11000, a write that would make e a second active enrollment of its     *)
(* user for its workshop.                                                  *)
(***************************************************************************)
IndexAllows(e, status) ==
  status \in ActiveStatuses =>
    ~ \E f \in Enrollments \ {e} : Active(f) /\ SamePair(e, f)

\* enrollment.status := status, on a document the update's filter finds.
UpdateEnrollment(e, status) ==
  enrollmentStatus' = IF Found(e)
                        THEN [enrollmentStatus EXCEPT ![e] = status]
                        ELSE enrollmentStatus

\* MUTANT of UpdatePayment: the update without its fromStatus.
UpdatePaymentBlindly(e, status, fromStatus) ==
  paymentStatus' = [paymentStatus EXCEPT ![e] = status]

\* The conditional update of a payment's status.
UpdatePayment(e, status, fromStatus) ==
  /\ paymentStatus[e] = fromStatus
  /\ paymentStatus' = [paymentStatus EXCEPT ![e] = status]

\* MUTANT of ReserveSeat: the increment without the $lt guard.
ReserveSeatUnguarded(w, limit) ==
  /\ w \notin deletedWorkshops
  /\ currentEnrollments' = [currentEnrollments EXCEPT ![w] = @ + 1]

\* findOneAndUpdate with currentEnrollments < limit, $inc 1.
ReserveSeat(w, limit) ==
  /\ w \notin deletedWorkshops
  /\ currentEnrollments[w] < limit
  /\ currentEnrollments' = [currentEnrollments EXCEPT ![w] = @ + 1]

\* findByIdAndUpdate with $inc -1: unconditional, and without a floor.
ReleaseSeat(w) ==
  currentEnrollments' = IF w \in deletedWorkshops
                          THEN currentEnrollments
                          ELSE [currentEnrollments EXCEPT ![w] = @ - 1]
=============================================================================
