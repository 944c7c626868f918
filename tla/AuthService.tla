----------------------------- MODULE AuthService -----------------------------
(***************************************************************************)
(* auth.controller.ts, auth.service.ts, passport.ts and the Google routes  *)
(* of auth.route.ts: signing in with a password, with its lockout, or with *)
(* Google, signing out, and changing, setting and resetting a password.    *)
(* A request that ends at its first check changes nothing and is not       *)
(* represented.                                                            *)
(***************************************************************************)
EXTENDS TokenService

\* MUTANT of LogIn: the lockout begins one failure late.
LogInOnceMore(r, u) ==
  /\ redisUp
  /\ failedLogin[u] <= MaxFailedAttempts
  /\ Begin(r, "login", [Idle EXCEPT !.pc = "compare", !.user = u])
  /\ UNCHANGED <<accountVars, sessionVars, revokeVars, redisUp, loginVars,
                 otpVars, failures, history>>

\* credentialsLogin reads the counter of failures before all else.
LogIn(r, u) ==
  /\ redisUp
  /\ failedLogin[u] < MaxFailedAttempts
  /\ Begin(r, "login", [Idle EXCEPT !.pc = "compare", !.user = u])
  /\ UNCHANGED <<accountVars, sessionVars, revokeVars, redisUp, loginVars,
                 otpVars, failures, history>>

\* The local strategy: the right password of a user who may sign in, or not.
ComparePassword(r, right) ==
  LET u == request[r].user
  IN /\ At(r, "compare")
     /\ right => MayAct(u) /\ account[u].password # 0
     /\ request' = [request EXCEPT
          ![r].pc = IF right THEN "clear" ELSE "count",
          ![r].password = IF right THEN account[u].password ELSE 0]
     /\ UNCHANGED <<accountVars, sessionVars, revokeVars, redisUp, loginVars,
                    otpVars, failures, history>>

\* INCR of the counter, which has no time to live when it is new ...
CountFailure(r) ==
  /\ At(r, "count") /\ redisUp
  /\ failedLogin' = [failedLogin EXCEPT ![request[r].user] = @ + 1]
  /\ Goto(r, "expire")
  /\ UNCHANGED <<accountVars, sessionVars, revokeVars, redisUp, failedTtl,
                 otpVars, failures, history>>

\* MUTANT of ExpireFailures: only the failure that locks sets the time.
ExpireWhenLocked(r) ==
  LET u == request[r].user
  IN /\ At(r, "expire") /\ redisUp
     /\ failedTtl' = IF failedLogin[u] = MaxFailedAttempts
                       THEN failedTtl \cup {u} ELSE failedTtl
     /\ Finish(r)
     /\ UNCHANGED <<accountVars, sessionVars, revokeVars, redisUp, failedLogin,
                    otpVars, failures, history>>

\* ... and EXPIRE, at every failure, which is nothing on a missing key.
ExpireFailures(r) ==
  LET u == request[r].user
  IN /\ At(r, "expire") /\ redisUp
     /\ failedTtl' = IF failedLogin[u] = 0 THEN failedTtl
                                           ELSE failedTtl \cup {u}
     /\ Finish(r)
     /\ UNCHANGED <<accountVars, sessionVars, revokeVars, redisUp, failedLogin,
                    otpVars, failures, history>>

\* DEL of the counter after a success; the tokens come next.
ClearFailures(r) ==
  /\ At(r, "clear") /\ redisUp
  /\ failedLogin' = [failedLogin EXCEPT ![request[r].user] = 0]
  /\ failedTtl' = failedTtl \ {request[r].user}
  /\ Goto(r, "issue")
  /\ history' = [history EXCEPT !.untimed[request[r].user] = 0]
  /\ UNCHANGED <<accountVars, sessionVars, revokeVars, redisUp, otpVars,
                 failures>>

\* LOCKOUT_DURATION_SECONDS are over.
LockoutExpires(u) ==
  /\ u \in failedTtl
  /\ failedLogin' = [failedLogin EXCEPT ![u] = 0]
  /\ failedTtl' = failedTtl \ {u}
  /\ history' = [history EXCEPT !.untimed[u] = 0]
  /\ UNCHANGED <<accountVars, sessionVars, revokeVars, redisUp, otpVars,
                 failures, request>>

-----------------------------------------------------------------------------
\* GET /auth/google stores a new random state.
StartGoogle(s) ==
  /\ "google" \in Ops /\ redisUp
  /\ oauthState[s] = "new"
  /\ oauthState' = [oauthState EXCEPT ![s] = "stored"]
  /\ UNCHANGED <<accountVars, refreshSession, authCode, revokeVars, redisUp,
                 loginVars, otpVars, failures, request, history>>

\* The callback of the user with address u finds the state ...
GoogleCallback(r, u, s) ==
  /\ redisUp /\ oauthState[s] = "stored"
  /\ Begin(r, "google", [Idle EXCEPT !.pc = "callback", !.user = u])
  /\ UNCHANGED <<accountVars, sessionVars, revokeVars, redisUp, loginVars,
                 otpVars, failures, history>>

\* ... and deletes it.
DeleteState(r, s) ==
  /\ At(r, "callback") /\ redisUp
  /\ oauthState[s] # "new"
  /\ oauthState' = [oauthState EXCEPT ![s] = "deleted"]
  /\ Goto(r, "profile")
  /\ UNCHANGED <<accountVars, refreshSession, authCode, revokeVars, redisUp,
                 loginVars, otpVars, failures, history>>

(***************************************************************************)
(* The Google strategy: a known user must be allowed to act; an unknown    *)
(* one is created, verified.  A deleted user's address is not found, and   *)
(* the unique index then refuses the new document.                         *)
(***************************************************************************)
GoogleStrategy(r) ==
  LET u == request[r].user
      known == account[u].isActive # "NONE"
  IN /\ At(r, "profile")
     /\ account' = IF known THEN account
                   ELSE [account EXCEPT ![u] =
                          [isActive |-> "ACTIVE", isVerified |-> TRUE,
                           isDeleted |-> FALSE, password |-> 0]]
     /\ IF known /\ ~MayAct(u)
          THEN Finish(r)
          ELSE request' = [request EXCEPT ![r].pc = "issue",
                                          ![r].password = account[u].password]
     /\ UNCHANGED <<issued, sessionVars, revokeVars, redisUp, loginVars,
                    otpVars, failures, history>>

\* The new tokens wait under a one-time code ...
StoreAuthCode(r) ==
  /\ At(r, "storeCode") /\ redisUp
  /\ authCode' = authCode \cup {request[r].new}
  /\ Finish(r)
  /\ UNCHANGED <<accountVars, refreshSession, oauthState, revokeVars, redisUp,
                 loginVars, otpVars, failures, history>>

\* ... until GETDEL hands them out, or two minutes are over.
ExchangeAuthCode(j) ==
  /\ redisUp /\ j \in authCode
  /\ authCode' = authCode \ {j}
  /\ UNCHANGED <<accountVars, refreshSession, oauthState, revokeVars, redisUp,
                 loginVars, otpVars, failures, request, history>>

-----------------------------------------------------------------------------
\* logout verifies neither session nor user: any pair of tokens will do.
LogOut(r, j) ==
  /\ issued[j].kind = "session"
  /\ Begin(r, "logout", [Idle EXCEPT !.pc = "invalidate", !.token = j,
                                     !.user = issued[j].user])
  /\ UNCHANGED <<accountVars, sessionVars, revokeVars, redisUp, loginVars,
                 otpVars, failures, history>>

(***************************************************************************)
(* changePassword, setPassword and resetPassword read the user: to change  *)
(* a password there must be one, which the client knows; to set one there  *)
(* must be none.                                                           *)
(***************************************************************************)
ReadPassword(r) ==
  LET u == request[r].user
  IN /\ At(r, "handle")
     /\ IF /\ Found(u)
           /\ request[r].op = "changePassword" => account[u].password # 0
           /\ request[r].op = "setPassword" => account[u].password = 0
          THEN request' = [request EXCEPT ![r].pc = "save",
                                          ![r].password = account[u].password]
          ELSE Finish(r)
     /\ UNCHANGED <<accountVars, sessionVars, revokeVars, redisUp, loginVars,
                    otpVars, failures, history>>

(***************************************************************************)
(* The document is saved, whatever has become of it since it was read.     *)
(* Setting a first password revokes nothing.                               *)
(***************************************************************************)
SavePassword(r) ==
  LET u == request[r].user
  IN /\ At(r, "save")
     /\ account[u].password < MaxPassword
     /\ account' = [account EXCEPT ![u].password = @ + 1]
     /\ IF request[r].op = "setPassword"
          THEN /\ Finish(r)
               /\ history' = [history EXCEPT
                    !.spared = @ \cup Lines(SessionsOf(u)),
                    !.racing = @ \cup PastCheck(u)]
          ELSE Goto(r, "invalidate") /\ UNCHANGED history
     /\ UNCHANGED <<issued, sessionVars, revokeVars, redisUp, loginVars,
                    otpVars, failures>>

\* forgotPassword signs a reset token, or says nothing.
ForgotPassword(u, j) ==
  /\ "forgotPassword" \in Ops
  /\ MayAct(u)
  /\ Sign(j, "reset", u, None, 0)
  /\ UNCHANGED <<account, sessionVars, revokeVars, redisUp, loginVars, otpVars,
                 failures, request, history>>
=============================================================================
