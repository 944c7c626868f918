----------------------------- MODULE MCIdentity -----------------------------
(***************************************************************************)
(* Small instances of Identity: one user, in one of three initial states,  *)
(* and requests at one or two instances of the server.                     *)
(***************************************************************************)
EXTENDS Identity, TLC

CONSTANTS u1, s1, i1, i2, r1, r2, r3, j1, j2, j3, j4

Absent     == [isActive |-> "NONE", isVerified |-> FALSE, isDeleted |-> FALSE,
               password |-> 0]
Registered == [Absent EXCEPT !.isActive = "ACTIVE", !.password = 1]
Verified   == [Registered EXCEPT !.isVerified = TRUE]

NobodyYet == [u \in Users |-> Absent]
AllVerified == [u \in Users |-> Verified]

\* One instance for all requests; the second request has its own.
OneInstance  == [r \in Requests |-> i1]
TwoInstances == [r \in Requests |-> IF r = r2 THEN i2 ELSE i1]

Fresh == Permutations({j1, j2, j3, j4} \cap Jtis)
Slots == Permutations({r1, r2, r3} \cap Requests)
FreshAndSlots == Fresh \cup Slots

\* No two keys share a page of a scan, because a scan finds one at most.
LonelyScans ==
  \A r \in Requests :
    At(r, "scan") => Cardinality(SessionsOf(request[r].user)) <= 1
=============================================================================
