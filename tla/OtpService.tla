----------------------------- MODULE OtpService -----------------------------
(***************************************************************************)
(* otp.service.ts: a one-time password is sent to an unverified user, at   *)
(* most once per cooldown, and verifies the user who knows it; wrong       *)
(* guesses are counted.  OTPs are numbered in the order they are made.     *)
(***************************************************************************)
EXTENDS IdentityStore

Unverified(u) == Found(u) /\ ~account[u].isVerified

\* sendOtp: the user is not verified, and no cooldown is running.
SendOtp(r, u) ==
  /\ redisUp
  /\ Unverified(u) /\ u \notin cooldown
  /\ lastOtp + Cardinality({s \in Requests : At(s, "store")}) < MaxOtp
  /\ Begin(r, "sendOtp", [Idle EXCEPT !.pc = "store", !.user = u])
  /\ UNCHANGED <<accountVars, sessionVars, revokeVars, redisUp, loginVars,
                 otpVars, failures, history>>

\* The OTP is stored, over one that is still there; attempts stay counted.
StoreOtp(r) ==
  LET u == request[r].user
  IN /\ At(r, "store") /\ redisUp
     /\ lastOtp' = lastOtp + 1
     /\ otp' = [otp EXCEPT ![u] = lastOtp']
     /\ Goto(r, "coolDown")
     /\ history' = [history EXCEPT !.guesses[u] = 0, !.uncounted[u] = 0,
                                   !.sends[u] = @ + 1]
     /\ UNCHANGED <<accountVars, sessionVars, revokeVars, redisUp, loginVars,
                    otpAttempts, attemptsTtl, cooldown, failures>>

\* MUTANT of StartCooldown: the key is not set.
SkipCooldown(r) ==
  /\ At(r, "coolDown") /\ redisUp
  /\ Finish(r)
  /\ UNCHANGED <<accountVars, sessionVars, revokeVars, redisUp, loginVars,
                 otpVars, failures, history>>

\* The cooldown begins once the OTP is stored; then the mail is sent.
StartCooldown(r) ==
  /\ At(r, "coolDown") /\ redisUp
  /\ cooldown' = cooldown \cup {request[r].user}
  /\ Finish(r)
  /\ UNCHANGED <<accountVars, sessionVars, revokeVars, redisUp, loginVars, otp,
                 lastOtp, otpAttempts, attemptsTtl, failures, history>>

-----------------------------------------------------------------------------
(***************************************************************************)
(* verifyOtp reads the OTP and compares, before it counts anything.        *)
(***************************************************************************)
VerifyOtp(r, u, right) ==
  /\ redisUp
  /\ Unverified(u) /\ otp[u] # 0
  /\ Begin(r, "verifyOtp", [Idle EXCEPT
       !.pc = IF right THEN "consume" ELSE "attempt",
       !.user = u, !.otp = otp[u]])
  /\ history' = IF right THEN history
                         ELSE [history EXCEPT !.guesses[u] = @ + 1]
  /\ UNCHANGED <<accountVars, sessionVars, revokeVars, redisUp, loginVars,
                 otpVars, failures>>

\* MUTANT of CountAttempt: the limit is not looked at.
CountOnly(r) ==
  LET u == request[r].user
  IN /\ At(r, "attempt") /\ redisUp
     /\ otpAttempts' = [otpAttempts EXCEPT ![u] = @ + 1]
     /\ IF otpAttempts[u] = 0 THEN Goto(r, "arm") ELSE Finish(r)
     /\ UNCHANGED <<accountVars, sessionVars, revokeVars, redisUp, loginVars,
                    otp, lastOtp, attemptsTtl, cooldown, failures, history>>

(***************************************************************************)
(* INCR of the attempts: the first one gives the counter its time to live, *)
(* the one above the limit takes the OTP away.                             *)
(***************************************************************************)
CountAttempt(r) ==
  LET u == request[r].user
  IN /\ At(r, "attempt") /\ redisUp
     /\ otpAttempts' = [otpAttempts EXCEPT ![u] = @ + 1]
     /\ CASE otpAttempts[u] = 0              -> Goto(r, "arm")
          [] otpAttempts[u] >= MaxOtpAttempts -> Goto(r, "burn")
          [] OTHER                            -> Finish(r)
     /\ UNCHANGED <<accountVars, sessionVars, revokeVars, redisUp, loginVars,
                    otp, lastOtp, attemptsTtl, cooldown, failures, history>>

\* EXPIRE of the counter with the life of an OTP.
ArmAttempts(r) ==
  LET u == request[r].user
  IN /\ At(r, "arm") /\ redisUp
     /\ attemptsTtl' = IF otpAttempts[u] = 0 THEN attemptsTtl
                       ELSE [attemptsTtl EXCEPT ![u] = otp[u]]
     /\ Finish(r)
     /\ UNCHANGED <<accountVars, sessionVars, revokeVars, redisUp, loginVars,
                    otp, lastOtp, otpAttempts, cooldown, failures, history>>

\* MUTANT of DeleteOtp: the attempts are counted back instead.
DeleteOtpAndCountBack(u) ==
  /\ otp' = [otp EXCEPT ![u] = 0]
  /\ otpAttempts' = [otpAttempts EXCEPT ![u] = @ - 1]
  /\ UNCHANGED attemptsTtl

\* One DEL takes the OTP and the attempts away.
DeleteOtp(u) ==
  /\ otp' = [otp EXCEPT ![u] = 0]
  /\ otpAttempts' = [otpAttempts EXCEPT ![u] = 0]
  /\ attemptsTtl' = [attemptsTtl EXCEPT ![u] = -1]

BurnOtp(r) ==
  /\ At(r, "burn") /\ redisUp
  /\ DeleteOtp(request[r].user)
  /\ Finish(r)
  /\ UNCHANGED <<accountVars, sessionVars, revokeVars, redisUp, loginVars,
                 lastOtp, cooldown, failures, history>>

\* MUTANT of ConsumeOtp: the user is verified first.
VerifyThenConsume(r) ==
  /\ At(r, "consume") /\ redisUp
  /\ account' = [account EXCEPT ![request[r].user].isVerified = TRUE]
  /\ history' = [history EXCEPT !.proof[request[r].user] = request[r].otp]
  /\ Goto(r, "verify")
  /\ UNCHANGED <<issued, sessionVars, revokeVars, redisUp, loginVars, otpVars,
                 failures>>

\* The right OTP is deleted first ...
ConsumeOtp(r) ==
  /\ At(r, "consume") /\ redisUp
  /\ DeleteOtp(request[r].user)
  /\ Goto(r, "verify")
  /\ UNCHANGED <<accountVars, sessionVars, revokeVars, redisUp, loginVars,
                 lastOtp, cooldown, failures, history>>

\* MUTANT of MarkVerified: only if the OTP is the one last made.
MarkVerifiedIfLatest(r) ==
  LET u == request[r].user
  IN /\ At(r, "verify")
     /\ account' = IF request[r].otp = lastOtp
                     THEN [account EXCEPT ![u].isVerified = TRUE] ELSE account
     /\ history' = [history EXCEPT !.proof[u] = request[r].otp]
     /\ Finish(r)
     /\ UNCHANGED <<issued, sessionVars, revokeVars, redisUp, loginVars,
                    otpVars, failures>>

\* ... and then the user is marked as verified, if not deleted meanwhile.
MarkVerified(r) ==
  LET u == request[r].user
  IN /\ At(r, "verify")
     /\ account' = IF Found(u) THEN [account EXCEPT ![u].isVerified = TRUE]
                               ELSE account
     /\ history' = [history EXCEPT !.proof[u] = request[r].otp]
     /\ Finish(r)
     /\ UNCHANGED <<issued, sessionVars, revokeVars, redisUp, loginVars,
                    otpVars, failures>>

-----------------------------------------------------------------------------
CooldownExpires(u) ==
  /\ u \in cooldown
  /\ cooldown' = cooldown \ {u}
  /\ history' = [history EXCEPT !.sends[u] = 0, !.uncooled[u] = 0]
  /\ UNCHANGED <<accountVars, sessionVars, revokeVars, redisUp, loginVars, otp,
                 lastOtp, otpAttempts, attemptsTtl, failures, request>>

OtpExpires(u) ==
  /\ otp[u] # 0
  /\ otp' = [otp EXCEPT ![u] = 0]
  /\ UNCHANGED <<accountVars, sessionVars, revokeVars, redisUp, loginVars,
                 lastOtp, otpAttempts, attemptsTtl, cooldown, failures, request,
                 history>>

(***************************************************************************)
(* The counter lives as long as an OTP, so that it does not expire before  *)
(* the OTP that was there when its time began.                             *)
(***************************************************************************)
AttemptsExpire(u) ==
  /\ attemptsTtl[u] # -1
  /\ otp[u] = 0 \/ otp[u] # attemptsTtl[u]
  /\ otpAttempts' = [otpAttempts EXCEPT ![u] = 0]
  /\ attemptsTtl' = [attemptsTtl EXCEPT ![u] = -1]
  /\ UNCHANGED <<accountVars, sessionVars, revokeVars, redisUp, loginVars, otp,
                 lastOtp, cooldown, failures, request, history>>
=============================================================================
