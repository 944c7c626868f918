----------------------------- MODULE SeatLedger -----------------------------
(***************************************************************************)
(* What booking promises, without requests, payments or counters: an       *)
(* enrollment takes a seat only while its workshop has one left and its    *)
(* user holds none there, is confirmed at most once, and gives the seat up *)
(* for good.                                                               *)
(***************************************************************************)
EXTENDS Integers, FiniteSets

CONSTANTS Workshops, Enrollments, Owner, WorkshopOf,
          Limits          \* Limits[w]: the numbers of seats w may offer,
                          \* {} when it has no limit

VARIABLE stage            \* stage[e]: "absent", "pending", "confirmed", "closed"

Stages == {"absent", "pending", "confirmed", "closed"}

Seated(w) == {e \in Enrollments : WorkshopOf[e] = w
                                  /\ stage[e] \in {"pending", "confirmed"}}

HasRoom(w) == Limits[w] = {} \/ \E n \in Limits[w] : Cardinality(Seated(w)) < n

Init == stage = [e \in Enrollments |-> "absent"]

Enroll(e) ==
  /\ stage[e] = "absent"
  /\ HasRoom(WorkshopOf[e])
  /\ \A f \in Seated(WorkshopOf[e]) : Owner[f] # Owner[e]
  /\ \E s \in {"pending", "confirmed"} : stage' = [stage EXCEPT ![e] = s]

Confirm(e) ==
  /\ stage[e] = "pending"
  /\ stage' = [stage EXCEPT ![e] = "confirmed"]

\* One enrollment is closed, or all those of a user at once.
Close(S) ==
  /\ \A e \in S : stage[e] \in {"pending", "confirmed"}
  /\ stage' = [e \in Enrollments |-> IF e \in S THEN "closed" ELSE stage[e]]

Next ==
  \/ \E e \in Enrollments : Enroll(e) \/ Confirm(e)
  \/ \E S \in SUBSET Enrollments : Close(S)

Spec == Init /\ [][Next]_stage
=============================================================================
