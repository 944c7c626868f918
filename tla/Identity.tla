------------------------------ MODULE Identity ------------------------------
(***************************************************************************)
(* Users, their sessions and their one-time passwords: the auth, user and  *)
(* OTP services at work on the shared documents and keys, with outages of  *)
(* Redis, restarts of processes, failures of requests and expiring keys.    *)
(***************************************************************************)
EXTENDS AuthService, OtpService, UserService

AwaitsRedis == {"count", "expire", "clear", "issue", "storeCode", "callback",
                "rotate", "dropOld", "scan", "delete", "store", "coolDown",
                "attempt", "arm", "burn", "consume"}

ChangesPassword(r) ==
  /\ request[r].op \in {"changePassword", "resetPassword"}
  /\ request[r].pc \in {"invalidate", "scan", "delete"}

Abandon(r) ==
  /\ Finish(r)
  /\ history' =
       LET u == request[r].user
       IN CASE ChangesPassword(r) ->
                 [history EXCEPT !.spared = @ \cup Lines(SessionsOf(u)),
                                 !.racing = @ \cup PastCheck(u)]
            [] At(r, "expire") -> [history EXCEPT !.untimed[u] = @ + 1]
            [] At(r, "coolDown") -> [history EXCEPT !.uncooled[u] = @ + 1]
            [] request[r].pc \in {"attempt", "burn"} ->
                 [history EXCEPT !.uncounted[u] = @ + 1]
            [] OTHER -> [history EXCEPT !.racing = @ \ {r}]
  /\ UNCHANGED <<accountVars, sessionVars, revokeVars, redisUp, loginVars,
                 otpVars>>

\* A Redis command fails: the request ends with an error where it stands.
RedisRefuses(r) ==
  /\ ~redisUp
  /\ request[r].pc \in AwaitsRedis
  /\ Abandon(r) /\ UNCHANGED failures

\* The process that handles a request dies; nothing of the request is resumed.
Crash(r) ==
  /\ "crash" \in Faults /\ failures < MaxFailures
  /\ ~At(r, "idle")
  /\ failures' = failures + 1
  /\ Abandon(r)

\* Redis goes out of reach, or comes back with its keys.
RedisTurns ==
  /\ "redis" \in Faults
  /\ redisUp => failures < MaxFailures
  /\ redisUp' = ~redisUp
  /\ failures' = IF redisUp THEN failures + 1 ELSE failures
  /\ UNCHANGED <<accountVars, sessionVars, revokeVars, loginVars, otpVars,
                 request, history>>

\* An instance that handles no request restarts, with an empty memory.
InstanceRestarts(i) ==
  /\ "restart" \in Faults
  /\ \A r \in Requests : InstanceOf[r] = i => At(r, "idle")
  /\ localBlacklist' = [localBlacklist EXCEPT ![i] = {}]
  /\ syncing' = syncing \ {i}
  /\ history' = [history EXCEPT !.spent[i] = {}]
  /\ UNCHANGED <<accountVars, sessionVars, blacklist, redisUp, loginVars,
                 otpVars, failures, request>>

-----------------------------------------------------------------------------
\* A request arrives at the server.
Arrive(r) ==
  \/ \E u \in Users : LogIn(r, u) \/ SendOtp(r, u)
  \/ \E u \in Users, right \in BOOLEAN : VerifyOtp(r, u, right)
  \/ \E u \in Users, s \in OAuthStates : GoogleCallback(r, u, s)
  \/ \E j \in Jtis :
       \/ CreateNewAccessToken(r, j)
       \/ LogOut(r, j)
       \/ \E op \in {"changePassword", "setPassword"} :
            Authenticate(r, op, "session", j)
       \/ Authenticate(r, "resetPassword", "reset", j)

\* A request in flight goes on from the await at which it stands.
Resume(r) ==
  \/ \E right \in BOOLEAN : ComparePassword(r, right)
  \/ CountFailure(r) \/ ExpireFailures(r) \/ ClearFailures(r)
  \/ \E s \in OAuthStates : DeleteState(r, s)
  \/ GoogleStrategy(r) \/ StoreAuthCode(r)
  \/ ReadPassword(r) \/ SavePassword(r) \/ InvalidateToken(r)
  \/ LookUpUser(r) \/ DropOldSession(r) \/ ScanSessions(r)
  \/ \E j \in Jtis :
       CreateUserTokens(r, j) \/ Rotate(r, j) \/ DeleteSession(r, j)
  \/ RevokeRefreshSession(r)
  \/ StoreOtp(r) \/ StartCooldown(r) \/ CountAttempt(r) \/ ArmAttempts(r)
  \/ BurnOtp(r) \/ ConsumeOtp(r) \/ MarkVerified(r)
  \/ RedisRefuses(r)

Next ==
  \/ \E r \in Requests : Arrive(r) \/ Resume(r) \/ Crash(r)
  \/ \E u \in Users :
       \/ CreateUser(u) \/ DeleteUser(u)
       \/ \E status \in StatusChanges : UpdateUser(u, status)
       \/ \E j \in Jtis : ForgotPassword(u, j)
       \/ LockoutExpires(u) \/ CooldownExpires(u) \/ OtpExpires(u)
       \/ AttemptsExpire(u)
  \/ \E s \in OAuthStates : StartGoogle(s)
  \/ \E j \in Jtis : ExchangeAuthCode(j)
  \/ \E i \in Instances :
       \/ InstanceRestarts(i)
       \/ \E j \in Jtis : SyncLocalToRedis(i, j) \/ RefuseToken(i, j)
  \/ RedisTurns

Spec == Init /\ [][Next]_vars

(***************************************************************************)
(* The server goes on with every request it handles.  Nobody is obliged to *)
(* sign in or to guess.                                                    *)
(***************************************************************************)
FairSpec == Spec /\ \A r \in Requests : WF_vars(Resume(r))

-----------------------------------------------------------------------------
Outdated(j) == issued[j].password < account[issued[j].user].password

(***************************************************************************)
(* auth.service.ts: a changed password invalidates all refresh sessions.   *)
(* Once no change is under way, no session is left that was opened with an *)
(* older password.                                                         *)
(***************************************************************************)
NoOutdatedSession ==
  \A j \in refreshSession :
    Outdated(j) => \E r \in Requests : ChangesPassword(r)

(***************************************************************************)
(* What the code does guarantee of it: an outdated session belongs to a    *)
(* line that was spared, because its key shared a page of the scan with    *)
(* another one, or a request in flight renewed or opened it while the      *)
(* sessions were revoked, or the revocation failed half way, or the        *)
(* password was set by setPassword, which takes it for the user's first    *)
(* one and revokes nothing.                                                *)
(***************************************************************************)
OutdatedIsSpared ==
  \A j \in refreshSession :
    Outdated(j) /\ issued[j].root \notin history.spared =>
      \E r \in Requests : ChangesPassword(r) /\ request[r].user = issued[j].user

(***************************************************************************)
(* userTokens.ts: rotation stores the new session before it deletes the    *)
(* old one, so that no client is stranded: a line of sessions that nobody  *)
(* revoked always has one, however rotations overlap or fail.              *)
(***************************************************************************)
LineSurvives ==
  \A j \in Jtis :
    issued[j].root = j /\ j \notin history.ended =>
      \E k \in refreshSession : issued[k].root = j

(***************************************************************************)
(* An instance does not accept a token again that it has invalidated,      *)
(* whether Redis could be reached at that time or not, as long as Redis    *)
(* answers now.                                                            *)
(***************************************************************************)
SpentIsRefused ==
  [][\A r \in Requests :
       At(r, "idle") /\ request'[r].pc = "handle" /\ redisUp =>
         request'[r].token \notin history.spent[InstanceOf[r]]]_vars

RevokedSomewhere == blacklist \cup UNION {localBlacklist[i] : i \in Instances}

\* tokenBlacklist.ts: an invalidation is lost only with the memory it is in.
InvalidationIsKept ==
  [][RevokedSomewhere \subseteq RevokedSomewhere'
       \/ \E i \in Instances : InstanceRestarts(i)]_vars

-----------------------------------------------------------------------------
(***************************************************************************)
(* auth.controller.ts: the lockout.  The counter is read before the        *)
(* password is compared and incremented after it, so that the limit may be *)
(* overrun, but by no more than the other logins in flight.                *)
(***************************************************************************)
FailuresBounded ==
  \A u \in Users :
    failedLogin[u] < MaxFailedAttempts + Cardinality(Requests)

(***************************************************************************)
(* The lockout of an account ends, although INCR and EXPIRE are two        *)
(* commands: the counter of a locked account has a time to live, or a      *)
(* request is about to set it, or each of the failures that lock it lost   *)
(* its EXPIRE.                                                             *)
(***************************************************************************)
LockoutIsTimed ==
  \A u \in Users :
    failedLogin[u] >= MaxFailedAttempts =>
      \/ u \in failedTtl
      \/ \E r \in Requests : At(r, "expire") /\ request[r].user = u
      \/ history.untimed[u] >= MaxFailedAttempts

(***************************************************************************)
(* otp.service.ts: the attempts at one OTP are limited.  The counter may   *)
(* have been started by an earlier OTP and expire once during the life of  *)
(* this one, guesses in flight are not counted yet, and some died before   *)
(* they were.                                                              *)
(***************************************************************************)
GuessesBounded ==
  \A u \in Users :
    history.guesses[u] <=
      2 * MaxOtpAttempts + Cardinality(Requests) + history.uncounted[u]

(***************************************************************************)
(* otp.service.ts: one OTP per cooldown, but for the requests in flight,   *)
(* which read the cooldown before one of them sets it, and for requests    *)
(* that die in between.                                                    *)
(***************************************************************************)
SendsBounded ==
  \A u \in Users :
    history.sends[u] <= Cardinality(Requests) + history.uncooled[u]

(***************************************************************************)
(* otp.service.ts: never is a user verified and the OTP that did it still  *)
(* usable, whatever is overtaken or crashes.                                *)
(***************************************************************************)
UsedOtpIsGone ==
  \A u \in Users :
    account[u].isVerified /\ history.proof[u] # 0 => otp[u] # history.proof[u]

(***************************************************************************)
(* A right OTP is not refused because of wrong guesses, expiry or another  *)
(* OTP that overtake it: its user is verified in the end, or deleted,      *)
(* unless a request dies.                                                  *)
(***************************************************************************)
RightOtpVerifies ==
  \A r \in Requests, u \in Users :
    At(r, "consume") /\ request[r].user = u
      ~> account[u].isVerified \/ account[u].isDeleted \/ failures > 0
=============================================================================
