---------------------------- MODULE TokenService ----------------------------
(***************************************************************************)
(* userTokens.ts, tokenBlacklist.ts and the middlewares checkAuth.ts and   *)
(* checkResetToken.ts: sessions that refresh tokens keep alive, their      *)
(* rotation and revocation, and the list of invalidated tokens that every  *)
(* instance shares through Redis and keeps in its own memory while Redis   *)
(* is out of reach.                                                        *)
(***************************************************************************)
EXTENDS IdentityStore

Lines(js) == {issued[j].root : j \in js}

SessionsOf(u) == {j \in refreshSession : issued[j].user = u}

\* Requests that are past their own check of user u, or of a session of u.
PastCheck(u) ==
  {r \in Requests : request[r].user = u
                     /\ request[r].pc \in {"clear", "issue", "lookup", "rotate"}}

-----------------------------------------------------------------------------
(***************************************************************************)
(* isTokenBlacklisted, on instance i: Redis first, then the memory.  The   *)
(* replies of one connection come in order, so that no sync of the same    *)
(* process gets between the two.                                           *)
(***************************************************************************)
IsTokenBlacklisted(i, j) ==
  (redisUp /\ j \in blacklist) \/ j \in localBlacklist[i]

\* A token that the memory knows and Redis does not is written to Redis.
RefuseToken(i, j) ==
  /\ j \in localBlacklist[i]
  /\ redisUp /\ j \notin blacklist
  /\ blacklist' = blacklist \cup {j}
  /\ UNCHANGED <<accountVars, sessionVars, localBlacklist, syncing, redisUp,
                 loginVars, otpVars, failures, request, history>>

\* checkAuth and checkResetToken let request r of operation op pass.
Authenticate(r, op, kind, j) ==
  /\ issued[j].kind = kind
  /\ ~IsTokenBlacklisted(InstanceOf[r], j)
  /\ MayAct(issued[j].user)
  /\ Begin(r, op, [Idle EXCEPT !.pc = "handle", !.token = j,
                               !.user = issued[j].user])
  /\ UNCHANGED <<accountVars, sessionVars, revokeVars, redisUp, loginVars,
                 otpVars, failures, history>>

\* MUTANT of InvalidateToken: without Redis the token is forgotten.
InvalidateInRedisOnly(r) ==
  LET i == InstanceOf[r]
      j == request[r].token
  IN /\ At(r, "invalidate")
     /\ blacklist' = IF redisUp THEN blacklist \cup {j} ELSE blacklist
     /\ Goto(r, IF request[r].op = "logout" THEN "dropSession" ELSE "scan")
     /\ history' = [history EXCEPT !.spent[i] = @ \cup {j}]
     /\ UNCHANGED <<accountVars, sessionVars, localBlacklist, syncing, redisUp,
                    loginVars, otpVars, failures>>

(***************************************************************************)
(* invalidateToken: the memory first, then Redis; when Redis has answered  *)
(* syncLocalToRedis starts, and is not awaited.                            *)
(***************************************************************************)
InvalidateToken(r) ==
  LET i == InstanceOf[r]
      j == request[r].token
  IN /\ At(r, "invalidate")
     /\ localBlacklist' = [localBlacklist EXCEPT ![i] = @ \cup {j}]
     /\ IF redisUp THEN /\ blacklist' = blacklist \cup {j}
                        /\ syncing' = syncing \cup {i}
                   ELSE UNCHANGED <<blacklist, syncing>>
     /\ Goto(r, IF request[r].op = "logout" THEN "dropSession" ELSE "scan")
     /\ history' = [history EXCEPT !.spent[i] = @ \cup {j}]
     /\ UNCHANGED <<accountVars, sessionVars, redisUp, loginVars, otpVars,
                    failures>>

\* MUTANT of SyncLocalToRedis: an entry is dropped although Redis failed.
SyncAndForget(i, j) ==
  /\ i \in syncing
  /\ j \in localBlacklist[i]
  /\ blacklist' = IF redisUp THEN blacklist \cup {j} ELSE blacklist
  /\ localBlacklist' = [localBlacklist EXCEPT ![i] = @ \ {j}]
  /\ syncing' = IF localBlacklist[i] = {j} THEN syncing \ {i} ELSE syncing
  /\ UNCHANGED <<accountVars, sessionVars, redisUp, loginVars, otpVars,
                 failures, request, history>>

\* One entry of the memory moves to Redis; the first failure ends the sync.
SyncLocalToRedis(i, j) ==
  /\ i \in syncing
  /\ j \in localBlacklist[i]
  /\ IF redisUp
       THEN /\ blacklist' = blacklist \cup {j}
            /\ localBlacklist' = [localBlacklist EXCEPT ![i] = @ \ {j}]
            /\ syncing' = IF localBlacklist[i] = {j} THEN syncing \ {i}
                                                      ELSE syncing
       ELSE /\ syncing' = syncing \ {i}
            /\ UNCHANGED <<blacklist, localBlacklist>>
  /\ UNCHANGED <<accountVars, sessionVars, redisUp, loginVars, otpVars,
                 failures, request, history>>

-----------------------------------------------------------------------------
(***************************************************************************)
(* createUserTokens: a pair of tokens is signed under a new jti, and its   *)
(* session stored.                                                         *)
(***************************************************************************)
CreateUserTokens(r, j) ==
  /\ At(r, "issue") /\ redisUp
  /\ Sign(j, "session", request[r].user, j, request[r].password)
  /\ refreshSession' = refreshSession \cup {j}
  /\ IF request[r].op = "google"
       THEN request' = [request EXCEPT ![r].new = j, ![r].pc = "storeCode"]
       ELSE Finish(r)
  /\ history' = IF r \in history.racing
                  THEN [history EXCEPT !.spared = @ \cup {j},
                                       !.racing = @ \ {r}]
                  ELSE history
  /\ UNCHANGED <<account, oauthState, authCode, revokeVars, redisUp, loginVars,
                 otpVars, failures>>

(***************************************************************************)
(* createNewAccessToken.  A refresh token whose session is gone is taken   *)
(* for stolen: all sessions of its user are revoked.                       *)
(***************************************************************************)
CreateNewAccessToken(r, j) ==
  /\ issued[j].kind = "session" /\ redisUp
  /\ Begin(r, "refresh", [Idle EXCEPT
       !.pc = IF j \in refreshSession THEN "lookup" ELSE "scan",
       !.token = j, !.user = issued[j].user])
  /\ history' = IF \E s \in Requests : j \in request[s].doomed \cap refreshSession
                  THEN [history EXCEPT !.racing = @ \cup {r}]
                  ELSE history
  /\ UNCHANGED <<accountVars, sessionVars, revokeVars, redisUp, loginVars,
                 otpVars, failures>>

\* The user must exist and not be inactive; being verified is not looked at.
LookUpUser(r) ==
  /\ At(r, "lookup")
  /\ IF Found(request[r].user) /\ account[request[r].user].isActive = "ACTIVE"
       THEN Goto(r, "rotate") /\ UNCHANGED history
       ELSE /\ Finish(r)
            /\ history' = [history EXCEPT !.racing = @ \ {r}]
  /\ UNCHANGED <<accountVars, sessionVars, revokeVars, redisUp, loginVars,
                 otpVars, failures>>

\* MUTANT of Rotate: the old session is deleted before the new one is stored.
DropThenRotate(r, j) ==
  /\ At(r, "rotate") /\ redisUp
  /\ issued[j] = Unsigned
  /\ refreshSession' = refreshSession \ {request[r].token}
  /\ Goto(r, "dropOld")
  /\ UNCHANGED <<accountVars, oauthState, authCode, revokeVars, redisUp,
                 loginVars, otpVars, failures, history>>

\* Rotation: the new session is stored first ...
Rotate(r, j) ==
  LET old == issued[request[r].token]
  IN /\ At(r, "rotate") /\ redisUp
     /\ Sign(j, "session", old.user, old.root, old.password)
     /\ refreshSession' = refreshSession \cup {j}
     /\ Goto(r, "dropOld")
     /\ history' = IF r \in history.racing
                     THEN [history EXCEPT !.spared = @ \cup {old.root},
                                          !.racing = @ \ {r}]
                     ELSE history
     /\ UNCHANGED <<account, oauthState, authCode, revokeVars, redisUp,
                    loginVars, otpVars, failures>>

\* ... and the old one deleted then.
DropOldSession(r) ==
  /\ At(r, "dropOld") /\ redisUp
  /\ refreshSession' = refreshSession \ {request[r].token}
  /\ Finish(r)
  /\ UNCHANGED <<accountVars, oauthState, authCode, revokeVars, redisUp,
                 loginVars, otpVars, failures, history>>

-----------------------------------------------------------------------------
(***************************************************************************)
(* revokeAllRefreshTokens: the scan collects the user's session keys;      *)
(* requests that are past their own check are not hindered.  The client    *)
(* hands out keys page by page, and String() joins those of one page to a  *)
(* single key that does not exist: only a key that is alone on its page is *)
(* ever deleted.  Redis decides how the keys fall on pages.                *)
(***************************************************************************)
ScanSessions(r) ==
  LET found == SessionsOf(request[r].user)
  IN /\ At(r, "scan") /\ redisUp
     /\ \E joined \in SUBSET found :
          /\ \A j \in joined : \E k \in joined : j # k
          /\ IF joined = found
               THEN Finish(r)
               ELSE request' = [request EXCEPT ![r].doomed = found \ joined,
                                               ![r].pc = "delete"]
          /\ history' =
               IF request[r].op = "refresh"
                 THEN [history EXCEPT !.ended = @ \cup Lines(found \ joined)]
                 ELSE [history EXCEPT
                        !.ended = @ \cup Lines(found \ joined),
                        !.spared = @ \cup Lines(joined),
                        !.racing = @ \cup PastCheck(request[r].user)]
     /\ UNCHANGED <<accountVars, sessionVars, revokeVars, redisUp, loginVars,
                    otpVars, failures>>

\* MUTANT of DeleteSession: the loop ends after its first key.
DeleteFirstSession(r, j) ==
  /\ At(r, "delete") /\ redisUp
  /\ j \in request[r].doomed
  /\ refreshSession' = refreshSession \ {j}
  /\ Finish(r)
  /\ UNCHANGED <<accountVars, oauthState, authCode, revokeVars, redisUp,
                 loginVars, otpVars, failures, history>>

\* ... and each of them is deleted in a command of its own.
DeleteSession(r, j) ==
  /\ At(r, "delete") /\ redisUp
  /\ j \in request[r].doomed
  /\ refreshSession' = refreshSession \ {j}
  /\ IF request[r].doomed = {j}
       THEN Finish(r)
       ELSE request' = [request EXCEPT ![r].doomed = @ \ {j}]
  /\ UNCHANGED <<accountVars, oauthState, authCode, revokeVars, redisUp,
                 loginVars, otpVars, failures, history>>

\* revokeRefreshSession, at logout: a failure of Redis is not reported.
RevokeRefreshSession(r) ==
  /\ At(r, "dropSession")
  /\ refreshSession' = IF redisUp THEN refreshSession \ {request[r].token}
                                  ELSE refreshSession
  /\ Finish(r)
  /\ history' = [history EXCEPT
       !.ended = @ \cup {issued[request[r].token].root}]
  /\ UNCHANGED <<accountVars, oauthState, authCode, revokeVars, redisUp,
                 loginVars, otpVars, failures>>
=============================================================================
