----------------------------- MODULE UserService -----------------------------
(***************************************************************************)
(* user.service.ts: registration, and the administration of users.  What   *)
(* the route's schema lets through of an update are the profile, isActive  *)
(* and the role.  None of these operations looks at the user's sessions.   *)
(***************************************************************************)
EXTENDS IdentityStore

UnchangedButAccount ==
  UNCHANGED <<issued, sessionVars, revokeVars, redisUp, loginVars, otpVars,
              failures, request, history>>

(***************************************************************************)
(* createUser: the unique index on email decides, also about a deleted     *)
(* user's address, which the query before does not find.                   *)
(***************************************************************************)
CreateUser(u) ==
  /\ "createUser" \in Ops
  /\ account[u].isActive = "NONE"
  /\ account' = [account EXCEPT ![u] =
       [isActive |-> "ACTIVE", isVerified |-> FALSE, isDeleted |-> FALSE,
        password |-> 1]]
  /\ UnchangedButAccount

\* updateUser, by an administrator: isActive takes another value.
UpdateUser(u, status) ==
  /\ "updateUser" \in Ops
  /\ Found(u)
  /\ account' = [account EXCEPT ![u].isActive = status]
  /\ UnchangedButAccount

\* deleteUser saves the document; it is never found again.
DeleteUser(u) ==
  /\ "deleteUser" \in Ops
  /\ Found(u)
  /\ account' = [account EXCEPT ![u].isDeleted = TRUE]
  /\ UnchangedButAccount
=============================================================================
