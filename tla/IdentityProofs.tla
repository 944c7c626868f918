--------------------------- MODULE IdentityProofs ---------------------------
(***************************************************************************)
(* What holds of users, sessions and one-time passwords for any number of  *)
(* users, tokens, instances and requests, with any faults: an invalidated  *)
(* token is not accepted again, an invalidation outlives everything but a  *)
(* restart, a line of sessions that nobody revoked goes on, an OTP that    *)
(* has verified its user is gone, the lockout counts what it should, the   *)
(* guesses at an OTP and the OTPs sent are limited, and a session with an  *)
(* older password is being revoked or was spared for a known reason.       *)
(***************************************************************************)
EXTENDS Identity, FiniteSetTheorems, TLAPS

USE DEF vars, accountVars, sessionVars, revokeVars, loginVars, otpVars

-----------------------------------------------------------------------------
(***************************************************************************)
(* Types, and what a request in flight knows: its user exists, and the     *)
(* token it presented was signed.                                          *)
(***************************************************************************)
TokensKnown ==
  /\ \A j \in Jtis :
       /\ issued[j].kind = "none" => issued[j] = Unsigned
       /\ issued[j].kind # "none" => issued[j].user \in Users
       /\ issued[j].kind = "session" => issued[j].root \in Jtis
  /\ \A j \in refreshSession : issued[j].kind = "session"

HasToken == {"lookup", "rotate", "dropOld", "handle", "save", "invalidate",
             "scan", "delete", "dropSession"}

RequestKnown(req) ==
  /\ req.pc # "idle" => req.user \in Users
  /\ req.pc \in HasToken =>
       req.token \in Jtis /\ issued[req.token].kind # "none"
  /\ req.pc \in {"lookup", "rotate", "dropOld", "dropSession"} =>
       issued[req.token].kind = "session"
  /\ req.pc = "invalidate" /\ req.op = "logout" =>
       issued[req.token].kind = "session"
  /\ req.pc \in {"handle", "save"} => req.op # "logout"
  /\ req.pc = "storeCode" => req.new \in Jtis

RequestsKnown == \A r \in Requests : RequestKnown(request[r])

TypeInv == TypeOK /\ TokensKnown /\ RequestsKnown

\* The values that actions start from.
LEMMA Constructors ==
  /\ Unsigned \in Token /\ Unsigned.kind = "none"
  /\ Idle \in RequestRecord /\ Idle.pc = "idle"
BY DEF Unsigned, Token, Idle, RequestRecord, PCs

\* The start establishes the types.
LEMMA InitTypes == Init => TypeInv
BY Constructors, AccountsAssumption
   DEF Init, TypeInv, TypeOK, TokensKnown, RequestsKnown, RequestKnown,
       HasToken, History

\* A request is replaced, and no token loses what it was signed for.
LEMMA Replaced ==
  ASSUME TypeInv, NEW r \in Requests, NEW new \in RequestRecord,
         request' = [request EXCEPT ![r] = new], RequestKnown(new)',
         \A j \in Jtis : issued[j].kind # "none" => issued'[j] = issued[j]
  PROVE  request' \in [Requests -> RequestRecord] /\ RequestsKnown'
<1>1. request' \in [Requests -> RequestRecord]
  BY DEF TypeInv, TypeOK
<1>2. ASSUME NEW q \in Requests PROVE RequestKnown(request[q])'
  <2>1. CASE q = r
    BY <2>1 DEF TypeInv, TypeOK
  <2>2. CASE q # r
    <3>1. request'[q] = request[q]
      BY <2>2 DEF TypeInv, TypeOK
    <3>2. RequestKnown(request[q])
      BY DEF TypeInv, RequestsKnown
    <3> QED  BY <3>1, <3>2 DEF RequestKnown, HasToken
  <2> QED  BY <2>1, <2>2
<1> QED  BY <1>1, <1>2 DEF RequestsKnown

\* Requests stay as they are.
LEMMA RequestsStay ==
  ASSUME TypeInv, UNCHANGED request,
         \A j \in Jtis : issued[j].kind # "none" => issued'[j] = issued[j]
  PROVE  request' \in [Requests -> RequestRecord] /\ RequestsKnown'
BY DEF TypeInv, TypeOK, RequestsKnown, RequestKnown, HasToken

\* A request begins, goes on or ends.
LEMMA BeginTypes ==
  ASSUME TypeInv, NEW r \in Requests, NEW op \in AllOps, NEW rec \in RequestRecord,
         Begin(r, op, rec), RequestKnown([rec EXCEPT !.op = op]), UNCHANGED issued
  PROVE  request' \in [Requests -> RequestRecord] /\ RequestsKnown'
<1>1. [rec EXCEPT !.op = op] \in RequestRecord
  BY DEF RequestRecord
<1>2. RequestKnown([rec EXCEPT !.op = op])'
  BY DEF RequestKnown
<1>3. request' = [request EXCEPT ![r] = [rec EXCEPT !.op = op]]
  BY DEF Begin
<1> QED  BY <1>1, <1>2, <1>3, Replaced

\* A request that ends leaves its slot idle.
LEMMA FinishTypes ==
  ASSUME TypeInv, NEW r \in Requests, Finish(r),
         \A j \in Jtis : issued[j].kind # "none" => issued'[j] = issued[j]
  PROVE  request' \in [Requests -> RequestRecord] /\ RequestsKnown'
<1>1. RequestKnown(Idle)'
  BY Constructors DEF RequestKnown, HasToken, Idle
<1>2. request' = [request EXCEPT ![r] = Idle]
  BY DEF Finish
<1> QED  BY <1>1, <1>2, Constructors, Replaced

\* A request goes on: it keeps who it is for and what it presented.
LEMMA ContinueTypes ==
  ASSUME TypeInv, NEW r \in Requests, NEW new \in RequestRecord,
         request' = [request EXCEPT ![r] = new], ~At(r, "idle"),
         new.user = request[r].user, new.token = request[r].token,
         new.op = request[r].op, new.pc # "storeCode",
         new.pc \in HasToken => request[r].pc \in HasToken,
         new.pc \in {"lookup", "rotate", "dropOld", "dropSession"} =>
           issued[request[r].token].kind = "session",
         new.pc \in {"handle", "save", "invalidate"} => request[r].op # "logout",
         \A j \in Jtis : issued[j].kind # "none" => issued'[j] = issued[j]
  PROVE  request' \in [Requests -> RequestRecord] /\ RequestsKnown'
<1>1. request[r] \in RequestRecord /\ RequestKnown(request[r])
  BY DEF TypeInv, TypeOK, RequestsKnown
<1>2. RequestKnown(new)'
  BY <1>1 DEF RequestKnown, HasToken, At
<1> QED  BY <1>2, Replaced

\* The same for a request of which nothing else changes.
LEMMA GotoTypes ==
  ASSUME TypeInv, NEW r \in Requests, NEW label \in PCs, Goto(r, label),
         ~At(r, "idle"), label # "storeCode",
         label \in HasToken => request[r].pc \in HasToken,
         label \in {"lookup", "rotate", "dropOld", "dropSession"} =>
           issued[request[r].token].kind = "session",
         label \in {"handle", "save", "invalidate"} => request[r].op # "logout",
         \A j \in Jtis : issued[j].kind # "none" => issued'[j] = issued[j]
  PROVE  request' \in [Requests -> RequestRecord] /\ RequestsKnown'
<1> PICK new : new = [request[r] EXCEPT !.pc = label]
  OBVIOUS
<1>1. request' = [request EXCEPT ![r] = new] /\ request[r] \in RequestRecord
  BY DEF Goto, TypeInv, TypeOK
<1>2. new \in RequestRecord /\ new.pc = label /\ new.op = request[r].op
      /\ new.user = request[r].user /\ new.token = request[r].token
  BY <1>1 DEF RequestRecord
<1> QED  BY <1>1, <1>2, ContinueTypes

\* What is remembered for one user.
LEMMA HistoryTypes ==
  ASSUME TypeInv, NEW u \in Users, NEW n \in Nat
  PROVE  /\ [history EXCEPT !.guesses[u] = n] \in History
         /\ [history EXCEPT !.proof[u] = n] \in History
         /\ [history EXCEPT !.untimed[u] = n] \in History
         /\ [history EXCEPT !.uncounted[u] = n] \in History
         /\ [history EXCEPT !.uncooled[u] = n] \in History
         /\ history.guesses[u] \in Nat /\ history.untimed[u] \in Nat
         /\ history.sends[u] \in Nat
         /\ history.uncounted[u] \in Nat /\ history.uncooled[u] \in Nat
BY DEF TypeInv, TypeOK, History

\* Arrivals preserve the types.
LEMMA ArriveTypes ==
  ASSUME TypeInv, NEW r \in Requests, Arrive(r)
  PROVE  TypeInv'
<1>1. ASSUME NEW u \in Users, LogIn(r, u)
      PROVE  TypeInv'
  <2>1. request' \in [Requests -> RequestRecord] /\ RequestsKnown'
    <3>1. /\ [Idle EXCEPT !.pc = "compare", !.user = u] \in RequestRecord
          /\ RequestKnown([[Idle EXCEPT !.pc = "compare", !.user = u]
                           EXCEPT !.op = "login"])
      BY <1>1 DEF LogIn, Idle, RequestRecord, PCs, RequestKnown, HasToken, Begin,
                TypeInv, TypeOK, TokensKnown, AllOps, Token
    <3> QED  BY <1>1, <3>1, BeginTypes DEF LogIn, AllOps, Begin
  <2>2. TypeOK'
    BY <1>1, <2>1, IdentityAssumption DEF LogIn, TypeInv, TypeOK
  <2>3. TokensKnown'
    BY <1>1 DEF LogIn, TokensKnown, TypeInv
  <2> QED  BY <2>1, <2>2, <2>3 DEF TypeInv
<1>2. ASSUME NEW u \in Users, SendOtp(r, u)
      PROVE  TypeInv'
  <2>1. request' \in [Requests -> RequestRecord] /\ RequestsKnown'
    <3>1. /\ [Idle EXCEPT !.pc = "store", !.user = u] \in RequestRecord
          /\ RequestKnown([[Idle EXCEPT !.pc = "store", !.user = u]
                           EXCEPT !.op = "sendOtp"])
      BY <1>2 DEF SendOtp, Idle, RequestRecord, PCs, RequestKnown, HasToken, Begin,
                TypeInv, TypeOK, TokensKnown, AllOps, Token
    <3> QED  BY <1>2, <3>1, BeginTypes DEF SendOtp, AllOps, Begin
  <2>2. TypeOK'
    BY <1>2, <2>1, IdentityAssumption DEF SendOtp, TypeInv, TypeOK
  <2>3. TokensKnown'
    BY <1>2 DEF SendOtp, TokensKnown, TypeInv
  <2> QED  BY <2>1, <2>2, <2>3 DEF TypeInv
<1>3. ASSUME NEW u \in Users, NEW right \in BOOLEAN, VerifyOtp(r, u, right)
      PROVE  TypeInv'
  <2>1. request' \in [Requests -> RequestRecord] /\ RequestsKnown'
    <3>1. /\ [Idle EXCEPT !.pc = IF right THEN "consume" ELSE "attempt",
                        !.user = u, !.otp = otp[u]] \in RequestRecord
          /\ RequestKnown([[Idle
                           EXCEPT !.pc = IF right THEN "consume" ELSE "attempt",
                        !.user = u, !.otp = otp[u]] EXCEPT !.op = "verifyOtp"])
      BY <1>3 DEF VerifyOtp, Idle, RequestRecord, PCs, RequestKnown, HasToken,
                  Begin,
                TypeInv, TypeOK, TokensKnown, AllOps, Token
    <3> QED  BY <1>3, <3>1, BeginTypes DEF VerifyOtp, AllOps, Begin
  <2>4. history' \in History
    <3>1. history.guesses[u] + 1 \in Nat
      BY DEF TypeInv, TypeOK, History
    <3>2. [history EXCEPT !.guesses[u] = history.guesses[u] + 1] \in History
      BY <3>1, HistoryTypes
    <3> QED  BY <1>3, <3>2 DEF VerifyOtp, TypeInv, TypeOK
  <2>2. TypeOK'
    BY <1>3, <2>1, <2>4, IdentityAssumption DEF VerifyOtp, TypeInv, TypeOK
  <2>3. TokensKnown'
    BY <1>3 DEF VerifyOtp, TokensKnown, TypeInv
  <2> QED  BY <2>1, <2>2, <2>3 DEF TypeInv
<1>4. ASSUME NEW u \in Users, NEW s \in OAuthStates, GoogleCallback(r, u, s)
      PROVE  TypeInv'
  <2>1. request' \in [Requests -> RequestRecord] /\ RequestsKnown'
    <3>1. /\ [Idle EXCEPT !.pc = "callback", !.user = u] \in RequestRecord
          /\ RequestKnown([[Idle EXCEPT !.pc = "callback", !.user = u]
                           EXCEPT !.op = "google"])
      BY <1>4 DEF GoogleCallback, Idle, RequestRecord, PCs, RequestKnown,
                  HasToken, Begin,
                TypeInv, TypeOK, TokensKnown, AllOps, Token
    <3> QED  BY <1>4, <3>1, BeginTypes DEF GoogleCallback, AllOps, Begin
  <2>2. TypeOK'
    BY <1>4, <2>1, IdentityAssumption DEF GoogleCallback, TypeInv, TypeOK
  <2>3. TokensKnown'
    BY <1>4 DEF GoogleCallback, TokensKnown, TypeInv
  <2> QED  BY <2>1, <2>2, <2>3 DEF TypeInv
<1>5. ASSUME NEW j \in Jtis, CreateNewAccessToken(r, j)
      PROVE  TypeInv'
  <2>1. request' \in [Requests -> RequestRecord] /\ RequestsKnown'
    <3>1. /\ [Idle EXCEPT !.pc = IF j \in refreshSession THEN "lookup" ELSE "scan",
                        !.token = j, !.user = issued[j].user] \in RequestRecord
          /\ RequestKnown([[Idle
                           EXCEPT !.pc = IF j \in refreshSession THEN "lookup" ELSE "scan",
                        !.token = j, !.user = issued[j].user] EXCEPT !.op = "refresh"])
      BY <1>5 DEF CreateNewAccessToken, Idle, RequestRecord, PCs, RequestKnown,
                  HasToken, Begin,
                TypeInv, TypeOK, TokensKnown, AllOps, Token
    <3> QED  BY <1>5, <3>1, BeginTypes DEF CreateNewAccessToken, AllOps, Begin
  <2>4. history' \in History
    BY <1>5, IdentityAssumption DEF CreateNewAccessToken, TypeInv, TypeOK, History
  <2>2. TypeOK'
    BY <1>5, <2>1, <2>4, IdentityAssumption
       DEF CreateNewAccessToken, TypeInv, TypeOK
  <2>3. TokensKnown'
    BY <1>5 DEF CreateNewAccessToken, TokensKnown, TypeInv
  <2> QED  BY <2>1, <2>2, <2>3 DEF TypeInv
<1>6. ASSUME NEW j \in Jtis, LogOut(r, j)
      PROVE  TypeInv'
  <2>1. request' \in [Requests -> RequestRecord] /\ RequestsKnown'
    <3>1. /\ [Idle EXCEPT !.pc = "invalidate", !.token = j,
                        !.user = issued[j].user] \in RequestRecord
          /\ RequestKnown([[Idle EXCEPT !.pc = "invalidate", !.token = j,
                        !.user = issued[j].user] EXCEPT !.op = "logout"])
      BY <1>6 DEF LogOut, Idle, RequestRecord, PCs, RequestKnown, HasToken, Begin,
                TypeInv, TypeOK, TokensKnown, AllOps, Token
    <3> QED  BY <1>6, <3>1, BeginTypes DEF LogOut, AllOps, Begin
  <2>2. TypeOK'
    BY <1>6, <2>1, IdentityAssumption DEF LogOut, TypeInv, TypeOK
  <2>3. TokensKnown'
    BY <1>6 DEF LogOut, TokensKnown, TypeInv
  <2> QED  BY <2>1, <2>2, <2>3 DEF TypeInv
<1>7. ASSUME NEW j \in Jtis, NEW kind \in {"session", "reset"},
             NEW op \in {"changePassword", "setPassword", "resetPassword"},
             Authenticate(r, op, kind, j)
      PROVE  TypeInv'
  <2>1. request' \in [Requests -> RequestRecord] /\ RequestsKnown'
    <3>1. /\ [Idle EXCEPT !.pc = "handle", !.token = j,
                        !.user = issued[j].user] \in RequestRecord
          /\ RequestKnown([[Idle EXCEPT !.pc = "handle", !.token = j,
                        !.user = issued[j].user] EXCEPT !.op = op])
      BY <1>7 DEF Authenticate, Idle, RequestRecord, PCs, RequestKnown, HasToken,
                  Begin,
                TypeInv, TypeOK, TokensKnown, AllOps, Token
    <3>2. op \in AllOps
      BY <1>7, IdentityAssumption DEF Authenticate, Begin
    <3> QED  BY <1>7, <3>2, <3>1, BeginTypes DEF Authenticate, AllOps, Begin
  <2>2. TypeOK'
    BY <1>7, <2>1, IdentityAssumption DEF Authenticate, TypeInv, TypeOK
  <2>3. TokensKnown'
    BY <1>7 DEF Authenticate, TokensKnown, TypeInv
  <2> QED  BY <2>1, <2>2, <2>3 DEF TypeInv
<1> QED  BY <1>1, <1>2, <1>3, <1>4, <1>5, <1>6, <1>7 DEF Arrive

\* So do the steps of signing in and of changing a password.
LEMMA LogInTypes ==
  ASSUME TypeInv, NEW r \in Requests,
         \/ \E right \in BOOLEAN : ComparePassword(r, right)
         \/ CountFailure(r) \/ ExpireFailures(r) \/ ClearFailures(r)
         \/ \E s \in OAuthStates : DeleteState(r, s)
         \/ GoogleStrategy(r) \/ StoreAuthCode(r)
         \/ ReadPassword(r) \/ SavePassword(r)
  PROVE  TypeInv'
<1>1. ASSUME NEW right \in BOOLEAN, ComparePassword(r, right)
      PROVE  TypeInv'
  <2>1. request' \in [Requests -> RequestRecord] /\ RequestsKnown'
    <3> PICK new : new = [request[r] EXCEPT
          !.pc = IF right THEN "clear" ELSE "count",
          !.password = IF right THEN account[request[r].user].password ELSE 0]
      OBVIOUS
    <3>1. request[r] \in RequestRecord /\ RequestKnown(request[r])
      BY DEF TypeInv, TypeOK, RequestsKnown
    <3>0. /\ request[r].user \in Users
          /\ account[request[r].user].password \in Nat
      BY <1>1, <3>1 DEF ComparePassword, At, RequestKnown, TypeInv, TypeOK, Account
    <3>2. /\ new \in RequestRecord /\ new.pc \in {"clear", "count"}
          /\ new.user = request[r].user /\ new.token = request[r].token
          /\ new.op = request[r].op
      BY <1>1, <3>0, <3>1 DEF ComparePassword, At, RequestRecord, PCs, TypeInv,
                              TypeOK, SessionsOf
    <3> QED  BY <1>1, <3>1, <3>2, ContinueTypes
       DEF ComparePassword, HasToken, At, TypeInv, TypeOK, RequestKnown
  <2>2. TypeOK'
    BY <1>1, <2>1, IdentityAssumption DEF ComparePassword, TypeInv, TypeOK
  <2>3. TokensKnown'
    BY <1>1 DEF ComparePassword, TokensKnown, TypeInv
  <2> QED  BY <2>1, <2>2, <2>3 DEF TypeInv
<1>2. ASSUME CountFailure(r)
      PROVE  TypeInv'
  <2>1. request' \in [Requests -> RequestRecord] /\ RequestsKnown'
    <3>1. request[r] \in RequestRecord /\ RequestKnown(request[r])
      BY DEF TypeInv, TypeOK, RequestsKnown
    <3> QED  BY <1>2, <3>1, GotoTypes
       DEF CountFailure, At, PCs, HasToken, RequestKnown
  <2>2. TypeOK'
    <3>1. request[r].user \in Users
      BY <1>2 DEF CountFailure, At, TypeInv, RequestsKnown, RequestKnown
    <3>2. failedLogin[request[r].user] + 1 \in Nat
      BY <3>1 DEF TypeInv, TypeOK
    <3> QED  BY <1>2, <2>1, <3>2 DEF CountFailure, TypeInv, TypeOK
  <2>3. TokensKnown'
    BY <1>2 DEF CountFailure, TokensKnown, TypeInv
  <2> QED  BY <2>1, <2>2, <2>3 DEF TypeInv
<1>3. ASSUME ExpireFailures(r)
      PROVE  TypeInv'
  <2>1. request' \in [Requests -> RequestRecord] /\ RequestsKnown'
    BY <1>3, FinishTypes DEF ExpireFailures
  <2>2. TypeOK'
    <3>1. request[r].user \in Users
      BY <1>3 DEF ExpireFailures, At, TypeInv, RequestsKnown, RequestKnown
    <3> QED  BY <1>3, <2>1, <3>1 DEF ExpireFailures, TypeInv, TypeOK
  <2>3. TokensKnown'
    BY <1>3 DEF ExpireFailures, TokensKnown, TypeInv
  <2> QED  BY <2>1, <2>2, <2>3 DEF TypeInv
<1>4. ASSUME ClearFailures(r)
      PROVE  TypeInv'
  <2>1. request' \in [Requests -> RequestRecord] /\ RequestsKnown'
    <3>1. request[r] \in RequestRecord /\ RequestKnown(request[r])
      BY DEF TypeInv, TypeOK, RequestsKnown
    <3> QED  BY <1>4, <3>1, GotoTypes
       DEF ClearFailures, At, PCs, HasToken, RequestKnown
  <2>4. history' \in History
    <3>1. request[r].user \in Users
      BY <1>4 DEF ClearFailures, At, TypeInv, RequestsKnown, RequestKnown
    <3> QED  BY <1>4, <3>1, HistoryTypes, IdentityAssumption
       DEF ClearFailures, TypeInv, TypeOK
  <2>2. TypeOK'
    BY <1>4, <2>1, <2>4, IdentityAssumption DEF ClearFailures, TypeInv, TypeOK
  <2>3. TokensKnown'
    BY <1>4 DEF ClearFailures, TokensKnown, TypeInv
  <2> QED  BY <2>1, <2>2, <2>3 DEF TypeInv
<1>5. ASSUME NEW s \in OAuthStates, DeleteState(r, s)
      PROVE  TypeInv'
  <2>1. request' \in [Requests -> RequestRecord] /\ RequestsKnown'
    <3>1. request[r] \in RequestRecord /\ RequestKnown(request[r])
      BY DEF TypeInv, TypeOK, RequestsKnown
    <3> QED  BY <1>5, <3>1, GotoTypes
       DEF DeleteState, At, PCs, HasToken, RequestKnown
  <2>2. TypeOK'
    BY <1>5, <2>1, IdentityAssumption DEF DeleteState, TypeInv, TypeOK
  <2>3. TokensKnown'
    BY <1>5 DEF DeleteState, TokensKnown, TypeInv
  <2> QED  BY <2>1, <2>2, <2>3 DEF TypeInv
<1>6. ASSUME GoogleStrategy(r)
      PROVE  TypeInv'
  <2>1. request' \in [Requests -> RequestRecord] /\ RequestsKnown'
    <3> PICK new : new = [request[r] EXCEPT !.pc = "issue",
          !.password = account[request[r].user].password]
      OBVIOUS
    <3>1. request[r] \in RequestRecord /\ RequestKnown(request[r])
      BY DEF TypeInv, TypeOK, RequestsKnown
    <3>0. /\ request[r].user \in Users
          /\ account[request[r].user].password \in Nat
      BY <1>6, <3>1 DEF GoogleStrategy, At, RequestKnown, TypeInv, TypeOK, Account
    <3>2. /\ new \in RequestRecord /\ new.pc = "issue"
          /\ new.user = request[r].user /\ new.token = request[r].token
          /\ new.op = request[r].op
      BY <1>6, <3>0, <3>1 DEF GoogleStrategy, At, RequestRecord, PCs, TypeInv,
                              TypeOK, SessionsOf
    <3>3. CASE Finish(r)
      BY <1>6, <3>3, FinishTypes DEF GoogleStrategy
    <3>4. CASE ~Finish(r)
      BY <1>6, <3>1, <3>2, <3>4, ContinueTypes
         DEF GoogleStrategy, HasToken, At, TypeInv, TypeOK, RequestKnown
    <3> QED  BY <3>3, <3>4
  <2>2. TypeOK'
    <3>1. [isActive |-> "ACTIVE", isVerified |-> TRUE, isDeleted |-> FALSE,
           password |-> 0] \in Account
      BY DEF Account, IsActive
    <3> QED  BY <1>6, <2>1, <3>1 DEF GoogleStrategy, TypeInv, TypeOK
  <2>3. TokensKnown'
    BY <1>6 DEF GoogleStrategy, TokensKnown, TypeInv
  <2> QED  BY <2>1, <2>2, <2>3 DEF TypeInv
<1>7. ASSUME StoreAuthCode(r)
      PROVE  TypeInv'
  <2>1. request' \in [Requests -> RequestRecord] /\ RequestsKnown'
    BY <1>7, FinishTypes DEF StoreAuthCode
  <2>2. TypeOK'
    <3>1. request[r].new \in Jtis
      BY <1>7 DEF StoreAuthCode, At, TypeInv, RequestsKnown, RequestKnown
    <3> QED  BY <1>7, <2>1, <3>1 DEF StoreAuthCode, TypeInv, TypeOK
  <2>3. TokensKnown'
    BY <1>7 DEF StoreAuthCode, TokensKnown, TypeInv
  <2> QED  BY <2>1, <2>2, <2>3 DEF TypeInv
<1>8. ASSUME ReadPassword(r)
      PROVE  TypeInv'
  <2>1. request' \in [Requests -> RequestRecord] /\ RequestsKnown'
    <3> PICK new : new = [request[r] EXCEPT !.pc = "save",
          !.password = account[request[r].user].password]
      OBVIOUS
    <3>1. request[r] \in RequestRecord /\ RequestKnown(request[r])
      BY DEF TypeInv, TypeOK, RequestsKnown
    <3>0. /\ request[r].user \in Users
          /\ account[request[r].user].password \in Nat
      BY <1>8, <3>1 DEF ReadPassword, At, RequestKnown, TypeInv, TypeOK, Account
    <3>2. /\ new \in RequestRecord /\ new.pc = "save"
          /\ new.user = request[r].user /\ new.token = request[r].token
          /\ new.op = request[r].op
      BY <1>8, <3>0, <3>1 DEF ReadPassword, At, RequestRecord, PCs, TypeInv,
                              TypeOK, SessionsOf
    <3>3. CASE Finish(r)
      BY <1>8, <3>3, FinishTypes DEF ReadPassword
    <3>4. CASE ~Finish(r)
      BY <1>8, <3>1, <3>2, <3>4, ContinueTypes
         DEF ReadPassword, HasToken, At, TypeInv, TypeOK, RequestKnown
    <3> QED  BY <3>3, <3>4
  <2>2. TypeOK'
    BY <1>8, <2>1, IdentityAssumption DEF ReadPassword, TypeInv, TypeOK
  <2>3. TokensKnown'
    BY <1>8 DEF ReadPassword, TokensKnown, TypeInv
  <2> QED  BY <2>1, <2>2, <2>3 DEF TypeInv
<1>9. ASSUME SavePassword(r)
      PROVE  TypeInv'
  <2>1. request' \in [Requests -> RequestRecord] /\ RequestsKnown'
    <3>1. request[r] \in RequestRecord /\ RequestKnown(request[r])
      BY DEF TypeInv, TypeOK, RequestsKnown
    <3>2. CASE request[r].op = "setPassword"
      BY <1>9, <3>2, FinishTypes DEF SavePassword
    <3>3. CASE request[r].op # "setPassword"
      BY <1>9, <3>1, <3>3, GotoTypes
         DEF SavePassword, At, PCs, HasToken, RequestKnown
    <3> QED  BY <3>2, <3>3
  <2>2. TypeOK'
    <3>1. request[r].user \in Users
      BY <1>9 DEF SavePassword, At, TypeInv, RequestsKnown, RequestKnown
    <3>2. account[request[r].user] \in Account
      BY <3>1 DEF TypeInv, TypeOK
    <3>3. [account[request[r].user] EXCEPT !.password = account[request[r].user].password + 1] \in Account
      BY <3>2 DEF Account
    <3>4. history' \in History
      <4> PICK js : js = history.spared \cup Lines(SessionsOf(request[r].user))
        OBVIOUS
      <4> PICK rs : rs = history.racing \cup PastCheck(request[r].user)
        OBVIOUS
      <4>1. js \subseteq Jtis /\ rs \subseteq Requests
        BY DEF Lines, SessionsOf, PastCheck, TypeInv, TypeOK, TokensKnown, History
      <4>2. [history EXCEPT !.spared = js, !.racing = rs] \in History
        BY <4>1 DEF TypeInv, TypeOK, History
      <4>3. \/ UNCHANGED history
            \/ history' = [history EXCEPT !.spared = js, !.racing = rs]
        BY <1>9 DEF SavePassword
      <4> QED  BY <4>2, <4>3 DEF TypeInv, TypeOK
    <3> QED  BY <1>9, <2>1, <3>4, <3>3, <3>1, <3>2 DEF SavePassword, TypeInv, TypeOK
  <2>3. TokensKnown'
    BY <1>9 DEF SavePassword, TokensKnown, TypeInv
  <2> QED  BY <2>1, <2>2, <2>3 DEF TypeInv
<1> QED  BY <1>1, <1>2, <1>3, <1>4, <1>5, <1>6, <1>7, <1>8, <1>9

\* And those of tokens and sessions.
LEMMA TokenTypes ==
  ASSUME TypeInv, NEW r \in Requests,
         \/ InvalidateToken(r)
         \/ LookUpUser(r) \/ DropOldSession(r) \/ ScanSessions(r)
         \/ \E j \in Jtis :
              CreateUserTokens(r, j) \/ Rotate(r, j) \/ DeleteSession(r, j)
         \/ RevokeRefreshSession(r)
  PROVE  TypeInv'
<1>1. ASSUME InvalidateToken(r)
      PROVE  TypeInv'
  <2>1. request' \in [Requests -> RequestRecord] /\ RequestsKnown'
    <3>1. request[r] \in RequestRecord /\ RequestKnown(request[r])
      BY DEF TypeInv, TypeOK, RequestsKnown
    <3>2. request[r].op # "logout" => "scan" \in PCs \ {"storeCode"}
      BY DEF PCs
    <3> QED  BY <1>1, <3>1, GotoTypes
       DEF InvalidateToken, At, PCs, HasToken, RequestKnown
  <2>4. history' \in History
    <3>1. request[r].token \in Jtis /\ InstanceOf[r] \in Instances
      BY <1>1, IdentityAssumption
         DEF InvalidateToken, At, TypeInv, RequestsKnown, RequestKnown, HasToken
    <3>2. history.spent[InstanceOf[r]] \cup {request[r].token} \subseteq Jtis
      BY <3>1 DEF TypeInv, TypeOK, History
    <3> QED  BY <1>1, <3>1, <3>2 DEF InvalidateToken, TypeInv, TypeOK, History
  <2>2. TypeOK'
    <3>1. request[r].token \in Jtis /\ InstanceOf[r] \in Instances
      BY <1>1, IdentityAssumption
         DEF InvalidateToken, At, TypeInv, RequestsKnown, RequestKnown, HasToken
    <3> QED  BY <1>1, <2>1, <2>4, <3>1 DEF InvalidateToken, TypeInv, TypeOK
  <2>3. TokensKnown'
    BY <1>1 DEF InvalidateToken, TokensKnown, TypeInv
  <2> QED  BY <2>1, <2>2, <2>3 DEF TypeInv
<1>2. ASSUME LookUpUser(r)
      PROVE  TypeInv'
  <2>1. request' \in [Requests -> RequestRecord] /\ RequestsKnown'
    <3>1. request[r] \in RequestRecord /\ RequestKnown(request[r])
      BY DEF TypeInv, TypeOK, RequestsKnown
    <3>2. CASE Finish(r)
      BY <1>2, <3>2, FinishTypes DEF LookUpUser
    <3>3. CASE Goto(r, "rotate")
      BY <1>2, <3>1, <3>3, GotoTypes DEF LookUpUser, At, PCs, HasToken, RequestKnown
    <3> QED  BY <1>2, <3>2, <3>3 DEF LookUpUser
  <2>4. history' \in History
    BY <1>2, IdentityAssumption DEF LookUpUser, TypeInv, TypeOK, History
  <2>2. TypeOK'
    BY <1>2, <2>1, <2>4, IdentityAssumption DEF LookUpUser, TypeInv, TypeOK
  <2>3. TokensKnown'
    BY <1>2 DEF LookUpUser, TokensKnown, TypeInv
  <2> QED  BY <2>1, <2>2, <2>3 DEF TypeInv
<1>3. ASSUME DropOldSession(r)
      PROVE  TypeInv'
  <2>1. request' \in [Requests -> RequestRecord] /\ RequestsKnown'
    BY <1>3, FinishTypes DEF DropOldSession
  <2>2. TypeOK'
    BY <1>3, <2>1, IdentityAssumption DEF DropOldSession, TypeInv, TypeOK
  <2>3. TokensKnown'
    BY <1>3 DEF DropOldSession, TokensKnown, TypeInv
  <2> QED  BY <2>1, <2>2, <2>3 DEF TypeInv
<1>4. ASSUME ScanSessions(r)
      PROVE  TypeInv'
  <2> PICK found : found = SessionsOf(request[r].user)
    OBVIOUS
  <2>0. PICK joined \in SUBSET found :
          /\ IF joined = found
               THEN Finish(r)
               ELSE request' = [request EXCEPT ![r].doomed = found \ joined,
                                               ![r].pc = "delete"]
          /\ history' =
               IF request[r].op = "refresh"
                 THEN [history EXCEPT !.ended = @ \cup Lines(found \ joined)]
                 ELSE [history EXCEPT
                        !.ended = @ \cup Lines(found \ joined),
                        !.spared = @ \cup Lines(joined),
                        !.racing = @ \cup PastCheck(request[r].user)]
    BY <1>4 DEF ScanSessions
  <2>5. found \subseteq Jtis
    BY DEF SessionsOf, TypeInv, TypeOK, TokensKnown
  <2>1. request' \in [Requests -> RequestRecord] /\ RequestsKnown'
    <3> PICK new : new = [request[r] EXCEPT !.doomed = found \ joined, !.pc = "delete"]
      OBVIOUS
    <3>1. request[r] \in RequestRecord /\ RequestKnown(request[r])
      BY DEF TypeInv, TypeOK, RequestsKnown
    <3>0. /\ request[r].user \in Users
          /\ account[request[r].user].password \in Nat
      BY <1>4, <3>1 DEF ScanSessions, At, RequestKnown, TypeInv, TypeOK, Account
    <3>2. /\ new \in RequestRecord /\ new.pc = "delete"
          /\ new.user = request[r].user /\ new.token = request[r].token
          /\ new.op = request[r].op
      BY <2>5, <3>1 DEF RequestRecord, PCs
    <3>3. CASE joined = found
      BY <1>4, <2>0, <3>3, FinishTypes DEF ScanSessions
    <3>4. CASE joined # found
      <4>1. request' = [request EXCEPT ![r] = new]
        BY <2>0, <3>4 DEF TypeInv, TypeOK
      <4> QED
        BY <1>4, <3>1, <3>2, <4>1, ContinueTypes
           DEF ScanSessions, HasToken, At, TypeInv, TypeOK, RequestKnown
    <3> QED  BY <3>3, <3>4
  <2>4. history' \in History
    <3> PICK gone, kept : gone = Lines(found \ joined) /\ kept = Lines(joined)
      OBVIOUS
    <3>1. gone \subseteq Jtis /\ kept \subseteq Jtis
      <4>1. \A j \in found : issued[j].root \in Jtis
        BY DEF TypeInv, TypeOK, TokensKnown, SessionsOf
      <4>2. \A js \in SUBSET found : Lines(js) \subseteq Jtis
        BY <4>1 DEF Lines
      <4>3. found \ joined \in SUBSET found /\ joined \in SUBSET found
        OBVIOUS
      <4> QED  BY <4>2, <4>3
    <3>2. PastCheck(request[r].user) \subseteq Requests
      BY DEF PastCheck
    <3> QED  BY <2>0, <3>1, <3>2 DEF TypeInv, TypeOK, History
  <2>2. TypeOK'
    BY <1>4, <2>1, <2>4, IdentityAssumption DEF ScanSessions, TypeInv, TypeOK
  <2>3. TokensKnown'
    BY <1>4 DEF ScanSessions, TokensKnown, TypeInv
  <2> QED  BY <2>1, <2>2, <2>3 DEF TypeInv
<1>5. ASSUME NEW j \in Jtis, CreateUserTokens(r, j)
      PROVE  TypeInv'
  <2>1. request' \in [Requests -> RequestRecord] /\ RequestsKnown'
    <3>1. request[r] \in RequestRecord /\ RequestKnown(request[r])
      BY DEF TypeInv, TypeOK, RequestsKnown
    <3>2. \A k \in Jtis : issued[k].kind # "none" => issued'[k] = issued[k]
      BY <1>5, Constructors DEF CreateUserTokens, Sign, TypeInv, TypeOK
    <3>3. CASE Finish(r)
      BY <1>5, <3>2, <3>3, FinishTypes
    <3>4. CASE ~Finish(r)
      <4> PICK new : new = [request[r] EXCEPT !.new = j, !.pc = "storeCode"]
        OBVIOUS
      <4>1. new \in RequestRecord /\ new.pc = "storeCode" /\ new.new = j
            /\ new.user = request[r].user
        BY <3>1 DEF RequestRecord, PCs
      <4>2. RequestKnown(new)'
        BY <1>5, <3>1, <4>1 DEF CreateUserTokens, At, RequestKnown, HasToken
      <4>3. request' = [request EXCEPT ![r] = new]
        BY <1>5, <3>4 DEF CreateUserTokens, TypeInv, TypeOK
      <4> QED  BY <3>2, <4>1, <4>2, <4>3, Replaced
    <3> QED  BY <3>3, <3>4
  <2>4. history' \in History
    BY <1>5, IdentityAssumption DEF CreateUserTokens, TypeInv, TypeOK, History
  <2>2. TypeOK'
    <3>1. request[r].user \in Users
      BY <1>5 DEF CreateUserTokens, At, TypeInv, RequestsKnown, RequestKnown
    <3>2. [kind |-> "session", user |-> request[r].user, root |-> j,
           password |-> request[r].password] \in Token
      BY <3>1 DEF TypeInv, TypeOK, Token, RequestRecord
    <3> QED  BY <1>5, <2>1, <2>4, <3>2 DEF CreateUserTokens, Sign, TypeInv, TypeOK
  <2>3. TokensKnown'
    <3>1. request[r].user \in Users
      BY <1>5 DEF CreateUserTokens, At, TypeInv, RequestsKnown, RequestKnown
    <3>2. [kind |-> "session", user |-> request[r].user, root |-> j,
           password |-> request[r].password] \in Token
      BY <3>1 DEF TypeInv, TypeOK, Token, RequestRecord
    <3> QED  BY <1>5, <3>1, <3>2, Constructors
           DEF CreateUserTokens, Sign, TokensKnown, TypeInv, TypeOK
  <2> QED  BY <2>1, <2>2, <2>3 DEF TypeInv
<1>6. ASSUME NEW j \in Jtis, Rotate(r, j)
      PROVE  TypeInv'
  <2>1. request' \in [Requests -> RequestRecord] /\ RequestsKnown'
    <3>1. request[r] \in RequestRecord /\ RequestKnown(request[r])
      BY DEF TypeInv, TypeOK, RequestsKnown
    <3>2. \A k \in Jtis : issued[k].kind # "none" => issued'[k] = issued[k]
      BY <1>6, Constructors DEF Rotate, Sign, TypeInv, TypeOK
    <3> QED  BY <1>6, <3>1, <3>2, GotoTypes
       DEF Rotate, At, PCs, HasToken, RequestKnown
  <2>4. history' \in History
    <3>1. /\ request[r].token \in Jtis
          /\ issued[request[r].token].user \in Users
          /\ issued[request[r].token].root \in Jtis
          /\ issued[request[r].token].password \in Nat
      BY <1>6 DEF Rotate, At, TypeInv, TypeOK, RequestsKnown, RequestKnown,
                  HasToken,
                TokensKnown, Token
    <3>2. [kind |-> "session", user |-> issued[request[r].token].user,
           root |-> issued[request[r].token].root,
           password |-> issued[request[r].token].password] \in Token
      BY <3>1 DEF Token
    <3> QED  BY <1>6, <3>1 DEF Rotate, TypeInv, TypeOK, History
  <2>2. TypeOK'
    <3>1. /\ request[r].token \in Jtis
          /\ issued[request[r].token].user \in Users
          /\ issued[request[r].token].root \in Jtis
          /\ issued[request[r].token].password \in Nat
      BY <1>6 DEF Rotate, At, TypeInv, TypeOK, RequestsKnown, RequestKnown,
                  HasToken,
                TokensKnown, Token
    <3>2. [kind |-> "session", user |-> issued[request[r].token].user,
           root |-> issued[request[r].token].root,
           password |-> issued[request[r].token].password] \in Token
      BY <3>1 DEF Token
    <3> QED  BY <1>6, <2>1, <2>4, <3>2 DEF Rotate, Sign, TypeInv, TypeOK
  <2>3. TokensKnown'
    <3>1. /\ request[r].token \in Jtis
          /\ issued[request[r].token].user \in Users
          /\ issued[request[r].token].root \in Jtis
          /\ issued[request[r].token].password \in Nat
      BY <1>6 DEF Rotate, At, TypeInv, TypeOK, RequestsKnown, RequestKnown,
                  HasToken,
                TokensKnown, Token
    <3>2. [kind |-> "session", user |-> issued[request[r].token].user,
           root |-> issued[request[r].token].root,
           password |-> issued[request[r].token].password] \in Token
      BY <3>1 DEF Token
    <3> QED  BY <1>6, <3>1, <3>2, Constructors
           DEF Rotate, Sign, TokensKnown, TypeInv, TypeOK
  <2> QED  BY <2>1, <2>2, <2>3 DEF TypeInv
<1>7. ASSUME NEW j \in Jtis, DeleteSession(r, j)
      PROVE  TypeInv'
  <2>1. request' \in [Requests -> RequestRecord] /\ RequestsKnown'
    <3> PICK new : new = [request[r] EXCEPT !.doomed = @ \ {j}]
      OBVIOUS
    <3>1. request[r] \in RequestRecord /\ RequestKnown(request[r])
      BY DEF TypeInv, TypeOK, RequestsKnown
    <3>0. /\ request[r].user \in Users
          /\ account[request[r].user].password \in Nat
      BY <1>7, <3>1 DEF DeleteSession, At, RequestKnown, TypeInv, TypeOK, Account
    <3>2. /\ new \in RequestRecord /\ new.pc = request[r].pc
          /\ new.user = request[r].user /\ new.token = request[r].token
          /\ new.op = request[r].op
      BY <1>7, <3>0, <3>1 DEF DeleteSession, At, RequestRecord, PCs, TypeInv,
                              TypeOK, SessionsOf
    <3>3. CASE Finish(r)
      BY <1>7, <3>3, FinishTypes DEF DeleteSession
    <3>4. CASE ~Finish(r)
      BY <1>7, <3>1, <3>2, <3>4, ContinueTypes
         DEF DeleteSession, HasToken, At, TypeInv, TypeOK, RequestKnown
    <3> QED  BY <3>3, <3>4
  <2>2. TypeOK'
    BY <1>7, <2>1, IdentityAssumption DEF DeleteSession, TypeInv, TypeOK
  <2>3. TokensKnown'
    BY <1>7 DEF DeleteSession, TokensKnown, TypeInv
  <2> QED  BY <2>1, <2>2, <2>3 DEF TypeInv
<1>8. ASSUME RevokeRefreshSession(r)
      PROVE  TypeInv'
  <2>1. request' \in [Requests -> RequestRecord] /\ RequestsKnown'
    BY <1>8, FinishTypes DEF RevokeRefreshSession
  <2>4. history' \in History
    <3>1. issued[request[r].token].root \in Jtis
      BY <1>8 DEF RevokeRefreshSession, At, TypeInv, RequestsKnown, RequestKnown,
                  HasToken,
              TokensKnown
    <3> QED  BY <1>8, <3>1 DEF RevokeRefreshSession, TypeInv, TypeOK, History
  <2>2. TypeOK'
    BY <1>8, <2>1, <2>4, IdentityAssumption
       DEF RevokeRefreshSession, TypeInv, TypeOK
  <2>3. TokensKnown'
    BY <1>8 DEF RevokeRefreshSession, TokensKnown, TypeInv
  <2> QED  BY <2>1, <2>2, <2>3 DEF TypeInv
<1> QED  BY <1>1, <1>2, <1>3, <1>4, <1>5, <1>6, <1>7, <1>8

\* And those of one-time passwords.
LEMMA OtpTypes ==
  ASSUME TypeInv, NEW r \in Requests,
         \/ StoreOtp(r) \/ StartCooldown(r) \/ CountAttempt(r) \/ ArmAttempts(r)
         \/ BurnOtp(r) \/ ConsumeOtp(r) \/ MarkVerified(r)
  PROVE  TypeInv'
<1>1. ASSUME StoreOtp(r)
      PROVE  TypeInv'
  <2>1. request' \in [Requests -> RequestRecord] /\ RequestsKnown'
    <3>1. request[r] \in RequestRecord /\ RequestKnown(request[r])
      BY DEF TypeInv, TypeOK, RequestsKnown
    <3> QED  BY <1>1, <3>1, GotoTypes DEF StoreOtp, At, PCs, HasToken, RequestKnown
  <2>4. history' \in History
    <3>1. /\ request[r].user \in Users
          /\ history.guesses \in [Users -> Nat] /\ history.sends \in [Users -> Nat]
          /\ history \in History
      BY <1>1 DEF StoreOtp, At, TypeInv, TypeOK, RequestsKnown, RequestKnown,
                  History
    <3>2. /\ [history.guesses EXCEPT ![request[r].user] = 0] \in [Users -> Nat]
          /\ [history.sends EXCEPT ![request[r].user] = history.sends[request[r].user] + 1]
               \in [Users -> Nat]
      BY <3>1
    <3> QED  BY <1>1, <3>1, <3>2 DEF StoreOtp, History
  <2>2. TypeOK'
    <3>1. lastOtp' \in Nat
      BY <1>1 DEF StoreOtp, TypeInv, TypeOK
    <3>2. otp' \in [Users -> Nat]
      BY <1>1, <3>1 DEF StoreOtp, TypeInv, TypeOK
    <3> QED  BY <1>1, <2>1, <2>4, <3>1, <3>2 DEF StoreOtp, TypeInv, TypeOK
  <2>3. TokensKnown'
    BY <1>1 DEF StoreOtp, TokensKnown, TypeInv
  <2> QED  BY <2>1, <2>2, <2>3 DEF TypeInv
<1>2. ASSUME StartCooldown(r)
      PROVE  TypeInv'
  <2>1. request' \in [Requests -> RequestRecord] /\ RequestsKnown'
    BY <1>2, FinishTypes DEF StartCooldown
  <2>2. TypeOK'
    <3>1. request[r].user \in Users
      BY <1>2 DEF StartCooldown, At, TypeInv, RequestsKnown, RequestKnown
    <3> QED  BY <1>2, <2>1, <3>1 DEF StartCooldown, TypeInv, TypeOK
  <2>3. TokensKnown'
    BY <1>2 DEF StartCooldown, TokensKnown, TypeInv
  <2> QED  BY <2>1, <2>2, <2>3 DEF TypeInv
<1>3. ASSUME CountAttempt(r)
      PROVE  TypeInv'
  <2>1. request' \in [Requests -> RequestRecord] /\ RequestsKnown'
    <3>1. request[r] \in RequestRecord /\ RequestKnown(request[r])
      BY DEF TypeInv, TypeOK, RequestsKnown
    <3>2. CASE Finish(r)
      BY <1>3, <3>2, FinishTypes DEF CountAttempt
    <3>3. CASE Goto(r, "arm") \/ Goto(r, "burn")
      BY <1>3, <3>1, <3>3, GotoTypes
         DEF CountAttempt, At, PCs, HasToken, RequestKnown
    <3> QED  BY <1>3, <3>2, <3>3 DEF CountAttempt
  <2>2. TypeOK'
    <3>1. request[r].user \in Users
      BY <1>3 DEF CountAttempt, At, TypeInv, RequestsKnown, RequestKnown
    <3>2. otpAttempts[request[r].user] + 1 \in Nat
      BY <3>1 DEF TypeInv, TypeOK
    <3> QED  BY <1>3, <2>1, <3>2 DEF CountAttempt, TypeInv, TypeOK
  <2>3. TokensKnown'
    BY <1>3 DEF CountAttempt, TokensKnown, TypeInv
  <2> QED  BY <2>1, <2>2, <2>3 DEF TypeInv
<1>4. ASSUME ArmAttempts(r)
      PROVE  TypeInv'
  <2>1. request' \in [Requests -> RequestRecord] /\ RequestsKnown'
    BY <1>4, FinishTypes DEF ArmAttempts
  <2>2. TypeOK'
    <3>1. request[r].user \in Users
      BY <1>4 DEF ArmAttempts, At, TypeInv, RequestsKnown, RequestKnown
    <3> QED  BY <1>4, <2>1, <3>1 DEF ArmAttempts, TypeInv, TypeOK
  <2>3. TokensKnown'
    BY <1>4 DEF ArmAttempts, TokensKnown, TypeInv
  <2> QED  BY <2>1, <2>2, <2>3 DEF TypeInv
<1>5. ASSUME BurnOtp(r)
      PROVE  TypeInv'
  <2>1. request' \in [Requests -> RequestRecord] /\ RequestsKnown'
    BY <1>5, FinishTypes DEF BurnOtp
  <2>2. TypeOK'
    BY <1>5, <2>1 DEF BurnOtp, DeleteOtp, TypeInv, TypeOK
  <2>3. TokensKnown'
    BY <1>5 DEF BurnOtp, DeleteOtp, TokensKnown, TypeInv
  <2> QED  BY <2>1, <2>2, <2>3 DEF TypeInv
<1>6. ASSUME ConsumeOtp(r)
      PROVE  TypeInv'
  <2>1. request' \in [Requests -> RequestRecord] /\ RequestsKnown'
    <3>1. request[r] \in RequestRecord /\ RequestKnown(request[r])
      BY DEF TypeInv, TypeOK, RequestsKnown
    <3> QED  BY <1>6, <3>1, GotoTypes
       DEF ConsumeOtp, At, PCs, HasToken, RequestKnown
  <2>2. TypeOK'
    BY <1>6, <2>1 DEF ConsumeOtp, DeleteOtp, TypeInv, TypeOK
  <2>3. TokensKnown'
    BY <1>6 DEF ConsumeOtp, DeleteOtp, TokensKnown, TypeInv
  <2> QED  BY <2>1, <2>2, <2>3 DEF TypeInv
<1>7. ASSUME MarkVerified(r)
      PROVE  TypeInv'
  <2>1. request' \in [Requests -> RequestRecord] /\ RequestsKnown'
    BY <1>7, FinishTypes DEF MarkVerified
  <2>4. history' \in History
    <3>1. request[r].user \in Users /\ request[r].otp \in Nat
      BY <1>7 DEF MarkVerified, At, TypeInv, TypeOK, RequestsKnown, RequestKnown,
                RequestRecord
    <3> QED  BY <1>7, <3>1, HistoryTypes, IdentityAssumption DEF MarkVerified
  <2>2. TypeOK'
    <3>1. request[r].user \in Users
      BY <1>7 DEF MarkVerified, At, TypeInv, RequestsKnown, RequestKnown
    <3>2. account[request[r].user] \in Account
      BY <3>1 DEF TypeInv, TypeOK
    <3>3. [account[request[r].user] EXCEPT !.isVerified = TRUE] \in Account
      BY <3>2 DEF Account
    <3> QED  BY <1>7, <2>1, <3>3, <2>4, <3>1, <3>2 DEF MarkVerified, TypeInv, TypeOK
  <2>3. TokensKnown'
    BY <1>7 DEF MarkVerified, TokensKnown, TypeInv
  <2> QED  BY <2>1, <2>2, <2>3 DEF TypeInv
<1> QED  BY <1>1, <1>2, <1>3, <1>4, <1>5, <1>6, <1>7

\* What is remembered of a request that dies, or whose command Redis refuses.
LEMMA Abandoned ==
  ASSUME TypeInv, NEW r \in Requests, ~At(r, "idle"), Abandon(r),
         NEW u, u = request[r].user
  PROVE  /\ u \in Users
         /\ history' =
              IF ChangesPassword(r)
                THEN [history EXCEPT !.spared = @ \cup Lines(SessionsOf(u)),
                                     !.racing = @ \cup PastCheck(u)]
              ELSE IF At(r, "expire")
                THEN [history EXCEPT !.untimed[u] = @ + 1]
              ELSE IF At(r, "coolDown")
                THEN [history EXCEPT !.uncooled[u] = @ + 1]
              ELSE IF request[r].pc \in {"attempt", "burn"}
                THEN [history EXCEPT !.uncounted[u] = @ + 1]
              ELSE [history EXCEPT !.racing = @ \ {r}]
<1>1. u \in Users
  BY DEF At, TypeInv, RequestsKnown, RequestKnown
<1>2. CASE ChangesPassword(r)
  <2>1. /\ ~At(r, "expire") /\ ~At(r, "coolDown")
        /\ request[r].pc \notin {"attempt", "burn"}
    BY <1>2 DEF ChangesPassword, At
  <2> QED  BY <1>1, <1>2, <2>1 DEF Abandon
<1>3. CASE ~ChangesPassword(r) /\ At(r, "expire")
  <2>1. ~At(r, "coolDown") /\ request[r].pc \notin {"attempt", "burn"}
    BY <1>3 DEF At
  <2> QED  BY <1>1, <1>3, <2>1 DEF Abandon
<1>4. CASE ~ChangesPassword(r) /\ At(r, "coolDown")
  <2>1. ~At(r, "expire") /\ request[r].pc \notin {"attempt", "burn"}
    BY <1>4 DEF At
  <2> QED  BY <1>1, <1>4, <2>1 DEF Abandon
<1>5. CASE ~ChangesPassword(r) /\ request[r].pc \in {"attempt", "burn"}
  <2>1. ~At(r, "expire") /\ ~At(r, "coolDown")
    BY <1>5 DEF At
  <2> QED  BY <1>1, <1>5, <2>1 DEF Abandon
<1>6. CASE /\ ~ChangesPassword(r) /\ ~At(r, "expire") /\ ~At(r, "coolDown")
           /\ request[r].pc \notin {"attempt", "burn"}
  BY <1>1, <1>6 DEF Abandon
<1> QED  BY <1>2, <1>3, <1>4, <1>5, <1>6

\* The same, field by field.
LEMMA Forgotten ==
  ASSUME TypeInv, NEW r \in Requests, ~At(r, "idle"), Abandon(r),
         NEW u, u = request[r].user
  PROVE  /\ u \in Users /\ history' \in History
         /\ history'.spent = history.spent /\ history'.ended = history.ended
         /\ history'.proof = history.proof
         /\ history'.guesses = history.guesses /\ history'.sends = history.sends
         /\ history'.untimed = IF At(r, "expire") THEN [history.untimed EXCEPT ![u] = @ + 1]
                                                 ELSE history.untimed
         /\ history'.uncooled =
              IF At(r, "coolDown") THEN [history.uncooled EXCEPT ![u] = @ + 1]
                                   ELSE history.uncooled
         /\ history'.uncounted =
              IF request[r].pc \in {"attempt", "burn"}
                THEN [history.uncounted EXCEPT ![u] = @ + 1]
                ELSE history.uncounted
         /\ history.racing \ {r} \subseteq history'.racing
         /\ history'.spared = IF ChangesPassword(r)
                                THEN history.spared \cup Lines(SessionsOf(u))
                                ELSE history.spared
         /\ ChangesPassword(r) => PastCheck(u) \subseteq history'.racing
<1>1. u \in Users /\ history \in History
  BY Abandoned DEF TypeInv, TypeOK
<1>2. CASE ChangesPassword(r)
  <2>1. history' = [history EXCEPT !.spared = @ \cup Lines(SessionsOf(u)),
                                   !.racing = @ \cup PastCheck(u)]
    BY <1>2, Abandoned
  <2>2. /\ Lines(SessionsOf(u)) \subseteq Jtis
        /\ PastCheck(u) \subseteq Requests
    BY DEF Lines, SessionsOf, PastCheck, TypeInv, TypeOK, TokensKnown
  <2>3. ~At(r, "expire") /\ ~At(r, "coolDown") /\ request[r].pc \notin {"attempt", "burn"}
    BY <1>2 DEF ChangesPassword, At
  <2> QED  BY <1>1, <1>2, <2>1, <2>2, <2>3 DEF History
<1>3. CASE At(r, "expire")
  <2>1. ~ChangesPassword(r) /\ ~At(r, "coolDown")
        /\ request[r].pc \notin {"attempt", "burn"}
    BY <1>3 DEF ChangesPassword, At
  <2>2. history' = [history EXCEPT !.untimed[u] = history.untimed[u] + 1]
    BY <1>3, <2>1, Abandoned
  <2>3. history.untimed[u] + 1 \in Nat
    BY <1>1 DEF History
  <2> QED  BY <1>1, <1>3, <2>1, <2>2, <2>3 DEF History
<1>4. CASE At(r, "coolDown")
  <2>1. ~ChangesPassword(r) /\ ~At(r, "expire")
        /\ request[r].pc \notin {"attempt", "burn"}
    BY <1>4 DEF ChangesPassword, At
  <2>2. history' = [history EXCEPT !.uncooled[u] = history.uncooled[u] + 1]
    BY <1>4, <2>1, Abandoned
  <2>3. history.uncooled[u] + 1 \in Nat
    BY <1>1 DEF History
  <2> QED  BY <1>1, <1>4, <2>1, <2>2, <2>3 DEF History
<1>5. CASE request[r].pc \in {"attempt", "burn"}
  <2>1. ~ChangesPassword(r) /\ ~At(r, "expire") /\ ~At(r, "coolDown")
    BY <1>5 DEF ChangesPassword, At
  <2>2. history' = [history EXCEPT !.uncounted[u] = history.uncounted[u] + 1]
    BY <1>5, <2>1, Abandoned
  <2>3. history.uncounted[u] + 1 \in Nat
    BY <1>1 DEF History
  <2> QED  BY <1>1, <1>5, <2>1, <2>2, <2>3 DEF History
<1>6. CASE /\ ~ChangesPassword(r) /\ ~At(r, "expire") /\ ~At(r, "coolDown")
           /\ request[r].pc \notin {"attempt", "burn"}
  <2>1. history' = [history EXCEPT !.racing = history.racing \ {r}]
    BY <1>6, Abandoned
  <2> QED  BY <1>1, <1>6, <2>1 DEF History
<1> QED  BY <1>2, <1>3, <1>4, <1>5, <1>6

\* So does a request that dies, or whose command Redis refuses.
LEMMA AbandonTypes ==
  ASSUME TypeInv, NEW r \in Requests, ~At(r, "idle"), Abandon(r),
         redisUp' \in BOOLEAN, failures' \in Nat
  PROVE  TypeInv'
<1>1. request' \in [Requests -> RequestRecord] /\ RequestsKnown'
  BY FinishTypes DEF Abandon
<1>2. history' \in History
  BY Forgotten
<1>3. TypeOK'
  BY <1>1, <1>2 DEF Abandon, TypeInv, TypeOK
<1>4. TokensKnown'
  BY DEF Abandon, TokensKnown, TypeInv
<1> QED  BY <1>1, <1>3, <1>4 DEF TypeInv

\* What administrators and clocks do to documents and keys keeps the types.
LEMMA UserTypes ==
  ASSUME TypeInv, NEW u \in Users,
         \/ CreateUser(u) \/ DeleteUser(u)
         \/ \E status \in StatusChanges : UpdateUser(u, status)
         \/ \E j \in Jtis : ForgotPassword(u, j)
         \/ LockoutExpires(u) \/ CooldownExpires(u) \/ OtpExpires(u)
         \/ AttemptsExpire(u)
  PROVE  TypeInv'
<1>1. account[u] \in Account
  BY DEF TypeInv, TypeOK
<1>2. ASSUME UnchangedButAccount, account' \in [Users -> Account]
      PROVE  TypeInv'
  BY <1>2, RequestsStay DEF UnchangedButAccount, TypeInv, TypeOK, TokensKnown
<1>3. CASE CreateUser(u)
  <2>1. [isActive |-> "ACTIVE", isVerified |-> FALSE, isDeleted |-> FALSE,
         password |-> 1] \in Account
    BY DEF Account, IsActive
  <2> QED  BY <1>2, <1>3, <2>1 DEF CreateUser, TypeInv, TypeOK
<1>4. CASE DeleteUser(u)
  <2>1. [account[u] EXCEPT !.isDeleted = TRUE] \in Account
    BY <1>1 DEF Account
  <2> QED  BY <1>2, <1>4, <2>1 DEF DeleteUser, TypeInv, TypeOK
<1>5. ASSUME NEW status \in StatusChanges, UpdateUser(u, status)
      PROVE  TypeInv'
  <2>1. [account[u] EXCEPT !.isActive = status] \in Account
    BY <1>1, IdentityAssumption DEF Account
  <2> QED  BY <1>2, <1>5, <2>1 DEF UpdateUser, TypeInv, TypeOK
<1>6. ASSUME NEW j \in Jtis, ForgotPassword(u, j)
      PROVE  TypeInv'
  <2>1. [kind |-> "reset", user |-> u, root |-> None, password |-> 0] \in Token
    BY DEF Token
  <2>2. \A k \in Jtis : issued[k].kind # "none" => issued'[k] = issued[k]
    BY <1>6, Constructors DEF ForgotPassword, Sign, TypeInv, TypeOK
  <2>3. request' \in [Requests -> RequestRecord] /\ RequestsKnown'
    BY <1>6, <2>2, RequestsStay DEF ForgotPassword
  <2>4. TypeOK'
    BY <1>6, <2>1, <2>3 DEF ForgotPassword, Sign, TypeInv, TypeOK
  <2>5. TokensKnown'
    BY <1>6, <2>1, <2>2, Constructors
       DEF ForgotPassword, Sign, TokensKnown, TypeInv, TypeOK
  <2> QED  BY <2>3, <2>4, <2>5 DEF TypeInv
<1>7. CASE LockoutExpires(u) \/ CooldownExpires(u)
  <2>1. request' \in [Requests -> RequestRecord] /\ RequestsKnown'
    BY <1>7, RequestsStay DEF LockoutExpires, CooldownExpires
  <2>2. history' \in History
    <3>1. CASE LockoutExpires(u)
      BY <3>1, HistoryTypes DEF LockoutExpires
    <3>2. CASE CooldownExpires(u)
      BY <3>2 DEF CooldownExpires, TypeInv, TypeOK, History
    <3> QED  BY <1>7, <3>1, <3>2
  <2>3. TypeOK'
    BY <1>7, <2>1, <2>2 DEF LockoutExpires, CooldownExpires, TypeInv, TypeOK
  <2>4. TokensKnown'
    BY <1>7 DEF LockoutExpires, CooldownExpires, TypeInv, TokensKnown
  <2> QED  BY <2>1, <2>3, <2>4 DEF TypeInv
<1>8. CASE OtpExpires(u) \/ AttemptsExpire(u)
  <2>1. request' \in [Requests -> RequestRecord] /\ RequestsKnown'
    BY <1>8, RequestsStay DEF OtpExpires, AttemptsExpire
  <2>2. TypeOK'
    BY <1>8, <2>1 DEF OtpExpires, AttemptsExpire, TypeInv, TypeOK
  <2>3. TokensKnown'
    BY <1>8 DEF OtpExpires, AttemptsExpire, TypeInv, TokensKnown
  <2> QED  BY <2>1, <2>2, <2>3 DEF TypeInv
<1> QED  BY <1>3, <1>4, <1>5, <1>6, <1>7, <1>8

\* And so does what happens to keys, instances and Redis.
LEMMA KeyTypes ==
  ASSUME TypeInv,
         \/ \E s \in OAuthStates : StartGoogle(s)
         \/ \E j \in Jtis : ExchangeAuthCode(j)
         \/ \E i \in Instances :
              \/ InstanceRestarts(i)
              \/ \E j \in Jtis : SyncLocalToRedis(i, j) \/ RefuseToken(i, j)
         \/ RedisTurns
  PROVE  TypeInv'
<1>1. ASSUME UNCHANGED <<issued, refreshSession, request>>, TypeOK'
      PROVE  TypeInv'
  BY <1>1, RequestsStay DEF TypeInv, TypeOK, TokensKnown
<1>2. ASSUME NEW s \in OAuthStates, StartGoogle(s) PROVE TypeInv'
  BY <1>1, <1>2 DEF StartGoogle, TypeInv, TypeOK
<1>3. ASSUME NEW j \in Jtis, ExchangeAuthCode(j) PROVE TypeInv'
  BY <1>1, <1>3 DEF ExchangeAuthCode, TypeInv, TypeOK
<1>4. ASSUME NEW i \in Instances, InstanceRestarts(i) PROVE TypeInv'
  <2>1. history' \in History
    BY <1>4 DEF InstanceRestarts, TypeInv, TypeOK, History
  <2> QED  BY <1>1, <1>4, <2>1 DEF InstanceRestarts, TypeInv, TypeOK
<1>5. ASSUME NEW i \in Instances, NEW j \in Jtis, SyncLocalToRedis(i, j)
      PROVE  TypeInv'
  BY <1>1, <1>5 DEF SyncLocalToRedis, TypeInv, TypeOK
<1>6. ASSUME NEW i \in Instances, NEW j \in Jtis, RefuseToken(i, j)
      PROVE  TypeInv'
  BY <1>1, <1>6 DEF RefuseToken, TypeInv, TypeOK
<1>7. CASE RedisTurns
  <2>1. failures' \in Nat /\ redisUp' \in BOOLEAN
    BY <1>7 DEF RedisTurns, TypeInv, TypeOK
  <2> QED  BY <1>1, <1>7, <2>1 DEF RedisTurns, TypeInv, TypeOK
<1> QED  BY <1>2, <1>3, <1>4, <1>5, <1>6, <1>7

-----------------------------------------------------------------------------
(***************************************************************************)
(* The steps, by what they are about: a request and what it does, or what  *)
(* happens to documents, keys and processes.                               *)
(***************************************************************************)
LogInStep(r) ==
  \/ \E right \in BOOLEAN : ComparePassword(r, right)
  \/ CountFailure(r) \/ ExpireFailures(r) \/ ClearFailures(r)
  \/ \E s \in OAuthStates : DeleteState(r, s)
  \/ GoogleStrategy(r) \/ StoreAuthCode(r)
  \/ ReadPassword(r) \/ SavePassword(r)

TokenStep(r) ==
  \/ InvalidateToken(r)
  \/ LookUpUser(r) \/ DropOldSession(r) \/ ScanSessions(r)
  \/ \E j \in Jtis :
       CreateUserTokens(r, j) \/ Rotate(r, j) \/ DeleteSession(r, j)
  \/ RevokeRefreshSession(r)

OtpStep(r) ==
  \/ StoreOtp(r) \/ StartCooldown(r) \/ CountAttempt(r) \/ ArmAttempts(r)
  \/ BurnOtp(r) \/ ConsumeOtp(r) \/ MarkVerified(r)

Gone(r) == ~At(r, "idle") /\ Abandon(r)

UserStep(u) ==
  \/ CreateUser(u) \/ DeleteUser(u)
  \/ \E status \in StatusChanges : UpdateUser(u, status)
  \/ \E j \in Jtis : ForgotPassword(u, j)
  \/ LockoutExpires(u) \/ CooldownExpires(u) \/ OtpExpires(u)
  \/ AttemptsExpire(u)

KeyStep ==
  \/ \E s \in OAuthStates : StartGoogle(s)
  \/ \E j \in Jtis : ExchangeAuthCode(j)
  \/ \E i \in Instances :
       \/ InstanceRestarts(i)
       \/ \E j \in Jtis : SyncLocalToRedis(i, j) \/ RefuseToken(i, j)
  \/ RedisTurns

\* There are no other steps.
LEMMA StepCases ==
  ASSUME Next
  PROVE  \/ \E r \in Requests : Arrive(r) \/ LogInStep(r) \/ TokenStep(r)
                                 \/ OtpStep(r) \/ Gone(r)
         \/ \E u \in Users : UserStep(u)
         \/ KeyStep
<1>1. ASSUME NEW r \in Requests, Resume(r)
      PROVE  LogInStep(r) \/ TokenStep(r) \/ OtpStep(r) \/ Gone(r)
  <2>1. CASE RedisRefuses(r)
    BY <2>1 DEF RedisRefuses, AwaitsRedis, Gone, At
  <2> QED  BY <1>1, <2>1 DEF Resume, LogInStep, TokenStep, OtpStep
<1>2. ASSUME NEW r \in Requests, Crash(r) PROVE Gone(r)
  BY <1>2 DEF Crash, Gone
<1> QED  BY <1>1, <1>2 DEF Next, UserStep, KeyStep

\* Every step preserves the types.
LEMMA TypeStep == TypeInv /\ [Next]_vars => TypeInv'
<1> SUFFICES ASSUME TypeInv, [Next]_vars PROVE TypeInv'
  OBVIOUS
<1>1. CASE UNCHANGED vars
  BY <1>1, RequestsStay DEF TypeInv, TypeOK, TokensKnown
<1>2. ASSUME NEW r \in Requests, Arrive(r) PROVE TypeInv'
  BY <1>2, ArriveTypes
<1>3. ASSUME NEW r \in Requests, Resume(r) PROVE TypeInv'
  <2>1. CASE LogInStep(r)
    BY <2>1, LogInTypes DEF LogInStep
  <2>2. CASE TokenStep(r)
    BY <2>2, TokenTypes DEF TokenStep
  <2>3. CASE OtpStep(r)
    BY <2>3, OtpTypes DEF OtpStep
  <2>4. CASE RedisRefuses(r)
    <3>1. redisUp' \in BOOLEAN /\ failures' \in Nat /\ ~At(r, "idle") /\ Abandon(r)
      BY <2>4 DEF RedisRefuses, AwaitsRedis, At, Abandon, TypeInv, TypeOK
    <3> QED  BY <3>1, AbandonTypes
  <2> QED  BY <1>3, <2>1, <2>2, <2>3, <2>4 DEF Resume, LogInStep, TokenStep, OtpStep
<1>4. ASSUME NEW r \in Requests, Crash(r) PROVE TypeInv'
  <2>1. redisUp' \in BOOLEAN /\ failures' \in Nat /\ ~At(r, "idle") /\ Abandon(r)
    BY <1>4 DEF Crash, Abandon, TypeInv, TypeOK
  <2> QED  BY <2>1, AbandonTypes
<1>5. ASSUME NEW u \in Users, UserStep(u) PROVE TypeInv'
  BY <1>5, UserTypes DEF UserStep
<1>6. CASE KeyStep
  BY <1>6, KeyTypes DEF KeyStep
<1> QED  BY <1>1, <1>2, <1>3, <1>4, <1>5, <1>6 DEF Next, UserStep, KeyStep

\* In every state that can be reached the types are right.
LEMMA AlwaysTyped == Spec => []TypeInv
BY InitTypes, TypeStep, PTL DEF Spec

\* Types are an invariant, for any number of users, tokens, instances and
\* requests, with any faults.
THEOREM IdentityTypes == Spec => []TypeOK
<1>1. TypeInv => TypeOK
  BY DEF TypeInv
<1> QED  BY <1>1, AlwaysTyped, PTL

-----------------------------------------------------------------------------
(***************************************************************************)
(* What each kind of step changes, and where it leaves the request.        *)
(***************************************************************************)

\* A step of a request leaves the other requests alone.
LEMMA OneRequest ==
  ASSUME TypeInv, NEW r \in Requests,
         Arrive(r) \/ LogInStep(r) \/ TokenStep(r) \/ OtpStep(r) \/ Gone(r)
  PROVE  \A q \in Requests \ {r} : request'[q] = request[q]
<1>1. \A label : Goto(r, label) => \A q \in Requests \ {r} : request'[q] = request[q]
  BY DEF Goto, TypeInv, TypeOK
<1>2. Finish(r) => \A q \in Requests \ {r} : request'[q] = request[q]
  BY DEF Finish, TypeInv, TypeOK
<1>3. \A op, rec : Begin(r, op, rec) =>
      \A q \in Requests \ {r} : request'[q] = request[q]
  BY DEF Begin, TypeInv, TypeOK
<1>4. CASE Arrive(r)
  BY <1>3, <1>4
     DEF Arrive, LogIn, SendOtp, VerifyOtp, GoogleCallback, CreateNewAccessToken,
         LogOut, Authenticate
<1>5. CASE LogInStep(r)
  BY <1>1, <1>2, <1>5
     DEF LogInStep, ComparePassword, CountFailure, ExpireFailures, ClearFailures,
         DeleteState, GoogleStrategy, StoreAuthCode, ReadPassword, SavePassword,
         TypeInv, TypeOK
<1>6. CASE TokenStep(r)
  BY <1>1, <1>2, <1>6
     DEF TokenStep, InvalidateToken, LookUpUser, DropOldSession, ScanSessions,
         CreateUserTokens, Rotate, DeleteSession, RevokeRefreshSession,
         TypeInv, TypeOK
<1>7. CASE OtpStep(r)
  BY <1>1, <1>2, <1>7
     DEF OtpStep, StoreOtp, StartCooldown, CountAttempt, ArmAttempts, BurnOtp,
         ConsumeOtp, MarkVerified
<1>8. CASE Gone(r)
  BY <1>2, <1>8 DEF Gone, Abandon
<1> QED  BY <1>4, <1>5, <1>6, <1>7, <1>8

\* What a request looks like after it has gone on.
LEMMA WhereTo ==
  ASSUME TypeInv, NEW r \in Requests
  PROVE  /\ \A label : Goto(r, label) =>
              request'[r].pc = label /\ request'[r].user = request[r].user
              /\ request'[r].otp = request[r].otp /\ request'[r].token = request[r].token
              /\ request'[r].doomed = request[r].doomed
         /\ Finish(r) => request'[r].pc = "idle" /\ request'[r].otp = 0
<1>1. request[r] \in RequestRecord
  BY DEF TypeInv, TypeOK
<1> QED  BY <1>1 DEF Goto, Finish, Idle, TypeInv, TypeOK, RequestRecord

\* A request begins as the record it is given.
LEMMA Began ==
  ASSUME TypeInv, NEW r \in Requests, NEW op, NEW rec \in RequestRecord,
         Begin(r, op, rec)
  PROVE  /\ request'[r].pc = rec.pc /\ request'[r].user = rec.user
         /\ request'[r].token = rec.token /\ request'[r].otp = rec.otp
<1>1. request' = [request EXCEPT ![r] = [rec EXCEPT !.op = op]]
  BY DEF Begin
<1>2. request'[r] = [rec EXCEPT !.op = op]
  BY <1>1 DEF TypeInv, TypeOK
<1> QED  BY <1>2 DEF RequestRecord

\* Arrivals write nothing but the history of guesses and races.
LEMMA ArriveFacts ==
  ASSUME TypeInv, NEW r \in Requests, Arrive(r)
  PROVE  /\ UNCHANGED <<account, issued, refreshSession, blacklist, localBlacklist,
                        failedLogin, failedTtl, otp, lastOtp>>
         /\ history'.spent = history.spent /\ history'.ended = history.ended
         /\ history'.proof = history.proof /\ history'.untimed = history.untimed
         /\ request'[r].pc \notin {"dropOld", "delete", "verify", "expire", "count"}
         /\ request'[r].pc = "handle" =>
              ~IsTokenBlacklisted(InstanceOf[r], request'[r].token)
         /\ request'[r].pc = "compare" =>
              failedLogin[request'[r].user] < MaxFailedAttempts
         /\ request'[r].pc = "consume" => request'[r].otp # 0
         /\ request'[r].otp # 0 => \E u \in Users : request'[r].otp = otp[u]
<1>2. UNCHANGED <<account, issued, refreshSession, blacklist, localBlacklist,
                  failedLogin, failedTtl, otp, lastOtp>>
  BY DEF Arrive, LogIn, SendOtp, VerifyOtp, GoogleCallback, CreateNewAccessToken,
         LogOut, Authenticate
<1>3. /\ history'.spent = history.spent /\ history'.ended = history.ended
      /\ history'.proof = history.proof /\ history'.untimed = history.untimed
  BY DEF Arrive, LogIn, SendOtp, VerifyOtp, GoogleCallback, CreateNewAccessToken,
         LogOut, Authenticate, TypeInv, TypeOK, History
<1>5. ASSUME NEW u \in Users, LogIn(r, u)
      PROVE  request'[r].pc = "compare" /\ request'[r].otp = 0
             /\ failedLogin[request'[r].user] < MaxFailedAttempts
  <2> PICK rec : rec = [Idle EXCEPT !.pc = "compare", !.user = u]
    OBVIOUS
  <2>1. rec \in RequestRecord
    BY <1>5 DEF LogIn, Idle, RequestRecord, PCs, TypeInv, TypeOK, Token
  <2>2. Begin(r, "login", rec)
    BY <1>5 DEF LogIn
  <2> QED  BY <1>5, <2>1, <2>2, Began DEF LogIn, Idle
<1>6. ASSUME NEW u \in Users, SendOtp(r, u)
      PROVE  request'[r].pc = "store" /\ request'[r].otp = 0
  <2> PICK rec : rec = [Idle EXCEPT !.pc = "store", !.user = u]
    OBVIOUS
  <2>1. rec \in RequestRecord
    BY <1>6 DEF SendOtp, Idle, RequestRecord, PCs, TypeInv, TypeOK, Token
  <2>2. Begin(r, "sendOtp", rec)
    BY <1>6 DEF SendOtp
  <2> QED  BY <1>6, <2>1, <2>2, Began DEF SendOtp, Idle
<1>7. ASSUME NEW u \in Users, NEW right \in BOOLEAN, VerifyOtp(r, u, right)
      PROVE  request'[r].pc \in {"consume", "attempt"} /\ request'[r].otp = otp[u]
             /\ otp[u] # 0
  <2> PICK rec : rec = [Idle EXCEPT !.pc = IF right THEN "consume" ELSE "attempt",
                           !.user = u, !.otp = otp[u]]
    OBVIOUS
  <2>1. rec \in RequestRecord
    BY <1>7 DEF VerifyOtp, Idle, RequestRecord, PCs, TypeInv, TypeOK, Token
  <2>2. Begin(r, "verifyOtp", rec)
    BY <1>7 DEF VerifyOtp
  <2> QED  BY <1>7, <2>1, <2>2, Began DEF VerifyOtp, Idle
<1>8. ASSUME NEW u \in Users, NEW s \in OAuthStates, GoogleCallback(r, u, s)
      PROVE  request'[r].pc = "callback" /\ request'[r].otp = 0
  <2> PICK rec : rec = [Idle EXCEPT !.pc = "callback", !.user = u]
    OBVIOUS
  <2>1. rec \in RequestRecord
    BY <1>8 DEF GoogleCallback, Idle, RequestRecord, PCs, TypeInv, TypeOK, Token
  <2>2. Begin(r, "google", rec)
    BY <1>8 DEF GoogleCallback
  <2> QED  BY <1>8, <2>1, <2>2, Began DEF GoogleCallback, Idle
<1>9. ASSUME NEW j \in Jtis, CreateNewAccessToken(r, j)
      PROVE  request'[r].pc \in {"lookup", "scan"} /\ request'[r].otp = 0
  <2> PICK rec : rec = [Idle EXCEPT
                      !.pc = IF j \in refreshSession THEN "lookup" ELSE "scan",
                      !.token = j, !.user = issued[j].user]
    OBVIOUS
  <2>1. rec \in RequestRecord
    BY <1>9 DEF CreateNewAccessToken, Idle, RequestRecord, PCs, TypeInv, TypeOK,
                Token
  <2>2. Begin(r, "refresh", rec)
    BY <1>9 DEF CreateNewAccessToken
  <2> QED  BY <1>9, <2>1, <2>2, Began DEF CreateNewAccessToken, Idle
<1>10. ASSUME NEW j \in Jtis, LogOut(r, j)
       PROVE  request'[r].pc = "invalidate" /\ request'[r].otp = 0
  <2> PICK rec : rec = [Idle EXCEPT !.pc = "invalidate", !.token = j,
                           !.user = issued[j].user]
    OBVIOUS
  <2>1. rec \in RequestRecord
    BY <1>10 DEF LogOut, Idle, RequestRecord, PCs, TypeInv, TypeOK, Token
  <2>2. Begin(r, "logout", rec)
    BY <1>10 DEF LogOut
  <2> QED  BY <1>10, <2>1, <2>2, Began DEF LogOut, Idle
<1>11. ASSUME NEW j \in Jtis, NEW op, NEW kind, Authenticate(r, op, kind, j)
       PROVE  request'[r].pc = "handle" /\ request'[r].otp = 0
              /\ ~IsTokenBlacklisted(InstanceOf[r], request'[r].token)
  <2> PICK rec : rec = [Idle EXCEPT !.pc = "handle", !.token = j,
                           !.user = issued[j].user]
    OBVIOUS
  <2>1. rec \in RequestRecord
    BY <1>11 DEF Authenticate, Idle, RequestRecord, PCs, TypeInv, TypeOK, Token
  <2>2. Begin(r, op, rec)
    BY <1>11 DEF Authenticate
  <2> QED  BY <1>11, <2>1, <2>2, Began DEF Authenticate, Idle
<1> QED  BY <1>2, <1>3, <1>5, <1>6, <1>7, <1>8, <1>9, <1>10, <1>11 DEF Arrive

\* Signing in and changing a password: no token is signed or revoked here.
LEMMA LogInFacts ==
  ASSUME TypeInv, NEW r \in Requests, LogInStep(r)
  PROVE  /\ UNCHANGED <<issued, refreshSession, blacklist, localBlacklist, otp,
                        lastOtp>>
         /\ history'.spent = history.spent /\ history'.ended = history.ended
         /\ history'.proof = history.proof
         /\ ~At(r, "idle")
         /\ request'[r].pc \notin {"dropOld", "delete", "verify", "consume", "compare"}
         /\ request'[r].otp \in {0, request[r].otp}
<1>1. UNCHANGED <<issued, refreshSession, blacklist, localBlacklist, otp, lastOtp>>
  BY DEF LogInStep, ComparePassword, CountFailure, ExpireFailures, ClearFailures,
         DeleteState, GoogleStrategy, StoreAuthCode, ReadPassword, SavePassword
<1>2. /\ history'.spent = history.spent /\ history'.ended = history.ended
      /\ history'.proof = history.proof
  BY DEF LogInStep, ComparePassword, CountFailure, ExpireFailures, ClearFailures,
         DeleteState, GoogleStrategy, StoreAuthCode, ReadPassword, SavePassword,
         TypeInv, TypeOK, History
<1>3. ~At(r, "idle")
  BY DEF LogInStep, ComparePassword, CountFailure, ExpireFailures, ClearFailures,
         DeleteState, GoogleStrategy, StoreAuthCode, ReadPassword, SavePassword, At
<1>4. request \in [Requests -> RequestRecord]
  BY DEF TypeInv, TypeOK
<1>5. CASE \E right \in BOOLEAN : ComparePassword(r, right)
  BY <1>1, <1>2, <1>3, <1>4, <1>5 DEF ComparePassword, RequestRecord
<1>6. CASE GoogleStrategy(r) \/ ReadPassword(r)
  BY <1>1, <1>2, <1>3, <1>4, <1>6, WhereTo
     DEF GoogleStrategy, ReadPassword, RequestRecord
<1>7. CASE \/ CountFailure(r) \/ ExpireFailures(r) \/ ClearFailures(r)
           \/ \E s \in OAuthStates : DeleteState(r, s)
           \/ StoreAuthCode(r) \/ SavePassword(r)
  BY <1>1, <1>2, <1>3, <1>7, WhereTo
     DEF CountFailure, ExpireFailures, ClearFailures, DeleteState, StoreAuthCode,
         SavePassword
<1> QED  BY <1>5, <1>6, <1>7 DEF LogInStep

\* Tokens and sessions: neither OTPs nor failures are counted here.
LEMMA TokenFacts ==
  ASSUME TypeInv, NEW r \in Requests, TokenStep(r)
  PROVE  /\ UNCHANGED <<account, failedLogin, failedTtl, otp, lastOtp>>
         /\ history'.proof = history.proof /\ history'.untimed = history.untimed
         /\ ~At(r, "idle")
         /\ request'[r].pc \notin {"verify", "consume", "compare", "count", "expire"}
         /\ request'[r].otp \in {0, request[r].otp}
<1>1. UNCHANGED <<account, failedLogin, failedTtl, otp, lastOtp>>
  BY DEF TokenStep, InvalidateToken, LookUpUser, DropOldSession, ScanSessions,
         CreateUserTokens, Rotate, DeleteSession, RevokeRefreshSession
<1>2. history'.proof = history.proof /\ history'.untimed = history.untimed
  <2>0. history \in History
    BY DEF TypeInv, TypeOK
  <2>1. CASE InvalidateToken(r)
    BY <2>0, <2>1 DEF InvalidateToken, History
  <2>2. CASE LookUpUser(r) \/ DropOldSession(r)
    BY <2>0, <2>2 DEF LookUpUser, DropOldSession, History
  <2>3. CASE ScanSessions(r)
    BY <2>0, <2>3 DEF ScanSessions, History
  <2>4. ASSUME NEW j \in Jtis, CreateUserTokens(r, j)
      PROVE  history'.proof = history.proof /\ history'.untimed = history.untimed
    BY <2>0, <2>4 DEF CreateUserTokens, History
  <2>5. ASSUME NEW j \in Jtis, Rotate(r, j)
      PROVE  history'.proof = history.proof /\ history'.untimed = history.untimed
    BY <2>0, <2>5 DEF Rotate, History
  <2>6. ASSUME NEW j \in Jtis, DeleteSession(r, j)
      PROVE  history'.proof = history.proof /\ history'.untimed = history.untimed
    BY <2>0, <2>6 DEF DeleteSession, History
  <2>7. CASE RevokeRefreshSession(r)
    BY <2>0, <2>7 DEF RevokeRefreshSession, History
  <2> QED
    BY <2>1, <2>2, <2>3, <2>4, <2>5, <2>6, <2>7 DEF TokenStep
<1>3. ~At(r, "idle")
  BY DEF TokenStep, InvalidateToken, LookUpUser, DropOldSession, ScanSessions,
         CreateUserTokens, Rotate, DeleteSession, RevokeRefreshSession, At
<1>4. request \in [Requests -> RequestRecord]
  BY DEF TypeInv, TypeOK
<1>5. ASSUME ScanSessions(r)
      PROVE  /\ request'[r].pc \in {"idle", "delete"}
             /\ request'[r].otp \in {0, request[r].otp}
  <2>1. CASE Finish(r)
    BY <2>1, WhereTo
  <2>2. CASE ~Finish(r)
    BY <1>4, <1>5, <2>2 DEF ScanSessions, RequestRecord
  <2> QED  BY <2>1, <2>2
<1>6. ASSUME NEW j \in Jtis, CreateUserTokens(r, j)
      PROVE  /\ request'[r].pc \in {"idle", "storeCode"}
             /\ request'[r].otp \in {0, request[r].otp}
  <2>1. CASE Finish(r)
    BY <2>1, WhereTo
  <2>2. CASE ~Finish(r)
    BY <1>4, <1>6, <2>2 DEF CreateUserTokens, RequestRecord
  <2> QED  BY <2>1, <2>2
<1>7. CASE \E j \in Jtis : DeleteSession(r, j)
  BY <1>1, <1>2, <1>3, <1>4, <1>7, WhereTo DEF DeleteSession, At, RequestRecord
<1>8. CASE \/ InvalidateToken(r) \/ LookUpUser(r) \/ DropOldSession(r)
           \/ RevokeRefreshSession(r) \/ \E j \in Jtis : Rotate(r, j)
  BY <1>1, <1>2, <1>3, <1>8, WhereTo
     DEF InvalidateToken, LookUpUser, DropOldSession, RevokeRefreshSession, Rotate
<1> QED  BY <1>1, <1>2, <1>3, <1>5, <1>6, <1>7, <1>8 DEF TokenStep

\* One-time passwords: neither sessions nor failures of logins are touched.
LEMMA OtpFacts ==
  ASSUME TypeInv, NEW r \in Requests, OtpStep(r)
  PROVE  /\ UNCHANGED <<issued, refreshSession, blacklist, localBlacklist,
                        failedLogin, failedTtl>>
         /\ history'.spent = history.spent /\ history'.ended = history.ended
         /\ history'.untimed = history.untimed
         /\ ~At(r, "idle")
         /\ request'[r].pc \notin {"dropOld", "delete", "compare", "count", "expire",
                                   "consume", "handle"}
         /\ request'[r].otp \in {0, request[r].otp}
<1>1. /\ UNCHANGED <<issued, refreshSession, blacklist, localBlacklist,
                     failedLogin, failedTtl>>
      /\ ~At(r, "idle")
  BY DEF OtpStep, StoreOtp, StartCooldown, CountAttempt, ArmAttempts, BurnOtp,
         ConsumeOtp, MarkVerified, At
<1>2. /\ history'.spent = history.spent /\ history'.ended = history.ended
      /\ history'.untimed = history.untimed
  BY DEF OtpStep, StoreOtp, StartCooldown, CountAttempt, ArmAttempts, BurnOtp,
         ConsumeOtp, MarkVerified, TypeInv, TypeOK, History
<1> QED
  BY <1>1, <1>2, WhereTo
     DEF OtpStep, StoreOtp, StartCooldown, CountAttempt, ArmAttempts, BurnOtp,
         ConsumeOtp, MarkVerified

\* A request that is gone leaves everything but the history as it is.
LEMMA GoneFacts ==
  ASSUME TypeInv, NEW r \in Requests, Gone(r)
  PROVE  /\ UNCHANGED <<account, issued, refreshSession, blacklist, localBlacklist,
                        failedLogin, failedTtl, otp, lastOtp>>
         /\ history'.spent = history.spent /\ history'.ended = history.ended
         /\ history'.proof = history.proof
         /\ ~At(r, "idle")
         /\ request'[r].pc = "idle" /\ request'[r].otp = 0
<1>1. /\ history'.spent = history.spent /\ history'.ended = history.ended
      /\ history'.proof = history.proof
  BY Forgotten DEF Gone
<1> QED  BY <1>1, WhereTo DEF Gone, Abandon

\* Administrators and clocks touch no request and no session.
LEMMA UserFacts ==
  ASSUME TypeInv, NEW u \in Users, UserStep(u)
  PROVE  /\ UNCHANGED <<refreshSession, blacklist, localBlacklist, lastOtp, request>>
         /\ history'.spent = history.spent /\ history'.ended = history.ended
         /\ history'.proof = history.proof
BY DEF UserStep, CreateUser, DeleteUser, UpdateUser, UnchangedButAccount,
       ForgotPassword, LockoutExpires, CooldownExpires, OtpExpires, AttemptsExpire,
       TypeInv, TypeOK, History

\* Keys, instances and Redis: no request, no session, no counter.
LEMMA KeyFacts ==
  ASSUME TypeInv, KeyStep
  PROVE  /\ UNCHANGED <<account, issued, refreshSession, failedLogin, failedTtl, otp,
                        lastOtp, request>>
         /\ history'.ended = history.ended /\ history'.proof = history.proof
         /\ history'.untimed = history.untimed
BY DEF KeyStep, StartGoogle, ExchangeAuthCode, InstanceRestarts, SyncLocalToRedis,
       RefuseToken, RedisTurns, TypeInv, TypeOK, History

-----------------------------------------------------------------------------
(***************************************************************************)
(* Revoked tokens.  What an instance has invalidated is known to Redis or  *)
(* to its own memory, which is where a later request looks.                *)
(***************************************************************************)
SpentIsKnown ==
  \A i \in Instances : history.spent[i] \subseteq blacklist \cup localBlacklist[i]

\* The steps that write the lists of invalidated tokens.
LEMMA RevocationSteps ==
  ASSUME TypeInv, [Next]_vars
  PROVE  \/ /\ UNCHANGED <<blacklist, localBlacklist>>
            /\ history'.spent = history.spent
         \/ \E r \in Requests : InvalidateToken(r)
         \/ \E i \in Instances :
              \/ InstanceRestarts(i)
              \/ \E j \in Jtis : SyncLocalToRedis(i, j) \/ RefuseToken(i, j)
<1>1. ASSUME NEW r \in Requests, TokenStep(r), ~InvalidateToken(r)
      PROVE  /\ UNCHANGED <<blacklist, localBlacklist>>
             /\ history'.spent = history.spent
  BY <1>1 DEF TokenStep, LookUpUser, DropOldSession, ScanSessions,
              CreateUserTokens, Rotate, DeleteSession, RevokeRefreshSession,
              TypeInv, TypeOK, History
<1>2. ASSUME NEW r \in Requests,
             Arrive(r) \/ LogInStep(r) \/ OtpStep(r) \/ Gone(r)
      PROVE  /\ UNCHANGED <<blacklist, localBlacklist>>
             /\ history'.spent = history.spent
  BY <1>2, ArriveFacts, LogInFacts, OtpFacts, GoneFacts
<1>3. ASSUME NEW u \in Users, UserStep(u)
      PROVE  /\ UNCHANGED <<blacklist, localBlacklist>>
             /\ history'.spent = history.spent
  BY <1>3, UserFacts
<1>4. CASE KeyStep
  BY <1>4 DEF KeyStep, StartGoogle, ExchangeAuthCode, RedisTurns
<1>5. CASE UNCHANGED vars
  BY <1>5
<1> QED  BY <1>1, <1>2, <1>3, <1>4, <1>5, StepCases

\* Nothing is invalidated at the start.
LEMMA InitSpent == Init => SpentIsKnown
BY DEF Init, SpentIsKnown

\* Every step keeps what was invalidated known.
LEMMA SpentStep == TypeInv /\ SpentIsKnown /\ [Next]_vars => SpentIsKnown'
<1> SUFFICES ASSUME TypeInv, SpentIsKnown, [Next]_vars, NEW i \in Instances
             PROVE  history'.spent[i] \subseteq blacklist' \cup localBlacklist'[i]
  BY DEF SpentIsKnown
<1> USE DEF SpentIsKnown
<1>1. CASE UNCHANGED <<blacklist, localBlacklist>> /\ history'.spent = history.spent
  BY <1>1
<1>2. ASSUME NEW r \in Requests, InvalidateToken(r)
      PROVE  history'.spent[i] \subseteq blacklist' \cup localBlacklist'[i]
  <2>1. /\ history'.spent = [history.spent EXCEPT ![InstanceOf[r]] =
                               @ \cup {request[r].token}]
        /\ localBlacklist' = [localBlacklist EXCEPT ![InstanceOf[r]] =
                                @ \cup {request[r].token}]
        /\ blacklist \subseteq blacklist'
    BY <1>2 DEF InvalidateToken, TypeInv, TypeOK, History
  <2> QED  BY <2>1 DEF TypeInv, TypeOK, History
<1>3. ASSUME NEW k \in Instances, InstanceRestarts(k)
      PROVE  history'.spent[i] \subseteq blacklist' \cup localBlacklist'[i]
  <2>1. /\ history'.spent = [history.spent EXCEPT ![k] = {}]
        /\ localBlacklist' = [localBlacklist EXCEPT ![k] = {}]
        /\ blacklist' = blacklist
    BY <1>3 DEF InstanceRestarts, TypeInv, TypeOK, History
  <2> QED  BY <2>1 DEF TypeInv, TypeOK, History
<1>4. ASSUME NEW k \in Instances, NEW j \in Jtis, SyncLocalToRedis(k, j)
      PROVE  history'.spent[i] \subseteq blacklist' \cup localBlacklist'[i]
  BY <1>4 DEF SyncLocalToRedis, TypeInv, TypeOK
<1>5. ASSUME NEW k \in Instances, NEW j \in Jtis, RefuseToken(k, j)
      PROVE  history'.spent[i] \subseteq blacklist' \cup localBlacklist'[i]
  BY <1>5 DEF RefuseToken
<1> QED  BY <1>1, <1>2, <1>3, <1>4, <1>5, RevocationSteps

\* A token that an instance has invalidated does not get a request past the
\* check of that instance again, in however many processes and whatever
\* outages and restarts there were: tokenBlacklist.ts, isTokenBlacklisted.
THEOREM SpentTheorem == Spec => SpentIsRefused
<1>1. TypeInv /\ SpentIsKnown /\ [Next]_vars =>
        [\A r \in Requests :
           At(r, "idle") /\ request'[r].pc = "handle" /\ redisUp =>
             request'[r].token \notin history.spent[InstanceOf[r]]]_vars
  <2> SUFFICES ASSUME TypeInv, SpentIsKnown, [Next]_vars, NEW r \in Requests,
                      At(r, "idle"), request'[r].pc = "handle", redisUp
               PROVE  request'[r].token \notin history.spent[InstanceOf[r]]
    OBVIOUS
  <2>1. request'[r] # request[r]
    BY DEF At
  <2>2. Arrive(r)
    <3>1. PICK q \in Requests :
            Arrive(q) \/ LogInStep(q) \/ TokenStep(q) \/ OtpStep(q) \/ Gone(q)
      BY <2>1, StepCases, UserFacts, KeyFacts
    <3>2. q = r
      BY <2>1, <3>1, OneRequest
    <3> QED  BY <3>1, <3>2, LogInFacts, TokenFacts, OtpFacts, GoneFacts
  <2>3. ~IsTokenBlacklisted(InstanceOf[r], request'[r].token)
    BY <2>2, ArriveFacts
  <2>4. InstanceOf[r] \in Instances
    BY IdentityAssumption
  <2> QED  BY <2>3, <2>4 DEF IsTokenBlacklisted, SpentIsKnown
<1> QED
  BY <1>1, AlwaysTyped, InitSpent, SpentStep, PTL DEF Spec, SpentIsRefused

\* An invalidation is not lost but with the memory of an instance that
\* restarts: syncLocalToRedis drops an entry only after Redis has taken it.
THEOREM KeptTheorem == Spec => InvalidationIsKept
<1>1. TypeInv /\ [Next]_vars =>
        [RevokedSomewhere \subseteq RevokedSomewhere'
           \/ \E i \in Instances : InstanceRestarts(i)]_vars
  <2> SUFFICES ASSUME TypeInv, [Next]_vars,
                      ~ \E i \in Instances : InstanceRestarts(i)
               PROVE  RevokedSomewhere \subseteq RevokedSomewhere'
    OBVIOUS
  <2>1. CASE UNCHANGED <<blacklist, localBlacklist>>
    BY <2>1 DEF RevokedSomewhere
  <2>2. /\ blacklist \subseteq blacklist'
        /\ \A i \in Instances :
             localBlacklist[i] \subseteq blacklist' \cup localBlacklist'[i]
        => RevokedSomewhere \subseteq RevokedSomewhere'
    BY DEF RevokedSomewhere
  <2>3. ASSUME NEW r \in Requests, InvalidateToken(r)
        PROVE  RevokedSomewhere \subseteq RevokedSomewhere'
    BY <2>2, <2>3 DEF InvalidateToken, TypeInv, TypeOK
  <2>4. ASSUME NEW i \in Instances, NEW j \in Jtis, SyncLocalToRedis(i, j)
        PROVE  RevokedSomewhere \subseteq RevokedSomewhere'
    BY <2>2, <2>4 DEF SyncLocalToRedis, TypeInv, TypeOK
  <2>5. ASSUME NEW i \in Instances, NEW j \in Jtis, RefuseToken(i, j)
        PROVE  RevokedSomewhere \subseteq RevokedSomewhere'
    BY <2>2, <2>5 DEF RefuseToken
  <2> QED  BY <2>1, <2>3, <2>4, <2>5, RevocationSteps
<1> QED  BY <1>1, AlwaysTyped, PTL DEF Spec, InvalidationIsKept

-----------------------------------------------------------------------------
(***************************************************************************)
(* One-time passwords.  Numbers only grow, so that the OTP that a request  *)
(* has consumed is not there again when its user is marked.                *)
(***************************************************************************)
Consumed(r) ==
  /\ request[r].otp <= lastOtp
  /\ At(r, "consume") => request[r].otp # 0
  /\ At(r, "verify") =>
       request[r].otp # 0 /\ otp[request[r].user] # request[r].otp

OtpsAreOld ==
  /\ \A u \in Users :
       /\ history.proof[u] <= lastOtp /\ otp[u] <= lastOtp
       /\ history.proof[u] # 0 => otp[u] # history.proof[u]
  /\ \A r \in Requests : Consumed(r)

\* No OTP has been made at the start.
LEMMA InitOtps == Init => OtpsAreOld
BY DEF Init, OtpsAreOld, Consumed, At, Idle

\* A step that makes no OTP and uses none keeps them as they should be.
LEMMA OtpsStay ==
  ASSUME TypeInv, OtpsAreOld, lastOtp' = lastOtp, history'.proof = history.proof,
         \A u \in Users : otp'[u] \in {0, otp[u]},
         \A r \in Requests :
           \/ request'[r] = request[r]
           \/ /\ request'[r].otp \in {0, request[r].otp}
              /\ request'[r].pc \notin {"consume", "verify"}
  PROVE  OtpsAreOld'
<1>1. ASSUME NEW u \in Users
      PROVE  /\ history'.proof[u] <= lastOtp' /\ otp'[u] <= lastOtp'
             /\ history'.proof[u] # 0 => otp'[u] # history'.proof[u]
  BY <1>1 DEF OtpsAreOld, TypeInv, TypeOK
<1>2. ASSUME NEW r \in Requests PROVE Consumed(r)'
  <2>1. CASE request'[r] = request[r]
    <3>1. request[r].pc # "idle" => request[r].user \in Users
      BY DEF TypeInv, RequestsKnown, RequestKnown
    <3> QED  BY <2>1, <3>1 DEF OtpsAreOld, Consumed, At
  <2>2. CASE /\ request'[r].otp \in {0, request[r].otp}
             /\ request'[r].pc \notin {"consume", "verify"}
    BY <2>2 DEF OtpsAreOld, Consumed, At, TypeInv, TypeOK
  <2> QED  BY <2>1, <2>2
<1> QED  BY <1>1, <1>2 DEF OtpsAreOld

\* An OTP is made, and is none of those that were there.
LEMMA OtpMade ==
  ASSUME TypeInv, OtpsAreOld, NEW r \in Requests, StoreOtp(r)
  PROVE  OtpsAreOld'
<1>1. request[r].user \in Users /\ request[r].otp \in Nat /\ lastOtp \in Nat
  BY DEF StoreOtp, At, TypeInv, TypeOK, RequestsKnown, RequestKnown, RequestRecord
<1>2. /\ lastOtp' = lastOtp + 1
      /\ otp' = [otp EXCEPT ![request[r].user] = lastOtp + 1]
      /\ history'.proof = history.proof
  BY DEF StoreOtp, TypeInv, TypeOK, History
<1>3. ASSUME NEW u \in Users
      PROVE  /\ history'.proof[u] <= lastOtp' /\ otp'[u] <= lastOtp'
             /\ history'.proof[u] # 0 => otp'[u] # history'.proof[u]
  BY <1>1, <1>2 DEF OtpsAreOld, TypeInv, TypeOK, History
<1>4. ASSUME NEW q \in Requests PROVE Consumed(q)'
  <2>1. /\ request[q].pc # "idle" => request[q].user \in Users
        /\ request[q].otp \in Nat /\ Consumed(q)
    BY DEF TypeInv, TypeOK, RequestsKnown, RequestKnown, RequestRecord, OtpsAreOld
  <2>2. CASE q # r
    <3>1. request'[q] = request[q]
      BY <2>2, OneRequest DEF OtpStep
    <3> QED  BY <1>1, <1>2, <2>1, <3>1 DEF Consumed, At, TypeInv, TypeOK
  <2>3. CASE q = r
    <3>1. request'[r].pc = "coolDown" /\ request'[r].otp = request[r].otp
      BY WhereTo DEF StoreOtp
    <3> QED  BY <1>1, <1>2, <2>1, <2>3, <3>1 DEF Consumed, At
  <2> QED  BY <2>2, <2>3
<1> QED  BY <1>3, <1>4 DEF OtpsAreOld

\* A request takes the OTP that it was asked about away.
LEMMA OtpConsumed ==
  ASSUME TypeInv, OtpsAreOld, NEW r \in Requests, ConsumeOtp(r)
  PROVE  OtpsAreOld'
<1>1. request[r].user \in Users
  BY DEF ConsumeOtp, At, TypeInv, RequestsKnown, RequestKnown
<1>2. /\ lastOtp' = lastOtp /\ history' = history
      /\ otp' = [otp EXCEPT ![request[r].user] = 0]
  BY DEF ConsumeOtp, DeleteOtp
<1>3. ASSUME NEW u \in Users
      PROVE  /\ history'.proof[u] <= lastOtp' /\ otp'[u] <= lastOtp'
             /\ history'.proof[u] # 0 => otp'[u] # history'.proof[u]
  BY <1>1, <1>2 DEF OtpsAreOld, TypeInv, TypeOK, History
<1>4. ASSUME NEW q \in Requests PROVE Consumed(q)'
  <2>1. /\ request[q].pc # "idle" => request[q].user \in Users
        /\ request[q].otp \in Nat /\ Consumed(q)
    BY DEF TypeInv, TypeOK, RequestsKnown, RequestKnown, RequestRecord, OtpsAreOld
  <2>2. CASE q # r
    <3>1. request'[q] = request[q]
      BY <2>2, OneRequest DEF OtpStep
    <3> QED  BY <1>1, <1>2, <2>1, <3>1 DEF Consumed, At, TypeInv, TypeOK
  <2>3. CASE q = r
    <3>1. /\ request'[r].pc = "verify" /\ request'[r].otp = request[r].otp
          /\ request'[r].user = request[r].user
      BY WhereTo DEF ConsumeOtp
    <3> QED
      BY <1>1, <1>2, <2>1, <2>3, <3>1 DEF ConsumeOtp, Consumed, At, TypeInv, TypeOK
  <2> QED  BY <2>2, <2>3
<1> QED  BY <1>3, <1>4 DEF OtpsAreOld

\* The user is marked as verified by an OTP that is not there any more.
LEMMA OtpProved ==
  ASSUME TypeInv, OtpsAreOld, NEW r \in Requests, MarkVerified(r)
  PROVE  OtpsAreOld'
<1>1. request[r].user \in Users /\ Consumed(r) /\ At(r, "verify")
  BY DEF MarkVerified, At, TypeInv, RequestsKnown, RequestKnown, OtpsAreOld
<1>2. /\ lastOtp' = lastOtp /\ otp' = otp
      /\ history'.proof = [history.proof EXCEPT ![request[r].user] = request[r].otp]
  BY DEF MarkVerified, TypeInv, TypeOK, History
<1>3. ASSUME NEW u \in Users
      PROVE  /\ history'.proof[u] <= lastOtp' /\ otp'[u] <= lastOtp'
             /\ history'.proof[u] # 0 => otp'[u] # history'.proof[u]
  BY <1>1, <1>2 DEF OtpsAreOld, Consumed, TypeInv, TypeOK, History
<1>4. ASSUME NEW q \in Requests PROVE Consumed(q)'
  <2>1. CASE q # r
    <3>1. request'[q] = request[q]
      BY <2>1, OneRequest DEF OtpStep
    <3> QED  BY <1>2, <3>1 DEF OtpsAreOld, Consumed, At
  <2>2. CASE q = r
    BY <1>2, <2>2, WhereTo DEF MarkVerified, Consumed, At, TypeInv, TypeOK
  <2> QED  BY <2>1, <2>2
<1> QED  BY <1>3, <1>4 DEF OtpsAreOld

\* A guess or a resend arrives.
LEMMA OtpsArrive ==
  ASSUME TypeInv, OtpsAreOld, NEW r \in Requests, Arrive(r)
  PROVE  OtpsAreOld'
<1>1. /\ lastOtp' = lastOtp /\ otp' = otp /\ history'.proof = history.proof
      /\ request'[r].pc # "verify"
      /\ request'[r].pc = "consume" => request'[r].otp # 0
      /\ request'[r].otp # 0 => \E u \in Users : request'[r].otp = otp[u]
  BY ArriveFacts
<1>2. Consumed(r)'
  BY <1>1 DEF Consumed, At, OtpsAreOld, TypeInv, TypeOK
<1>3. ASSUME NEW q \in Requests \ {r} PROVE Consumed(q)'
  <2>1. request'[q] = request[q]
    BY OneRequest
  <2> QED  BY <1>1, <2>1 DEF OtpsAreOld, Consumed, At
<1> QED  BY <1>1, <1>2, <1>3 DEF OtpsAreOld

\* Every step keeps OTPs apart from those that were used.
LEMMA OtpsStep == TypeInv /\ OtpsAreOld /\ [Next]_vars => OtpsAreOld'
<1> SUFFICES ASSUME TypeInv, OtpsAreOld, [Next]_vars PROVE OtpsAreOld'
  OBVIOUS
<1>1. CASE UNCHANGED vars
  BY <1>1, OtpsStay
<1>2. ASSUME NEW r \in Requests, LogInStep(r) \/ TokenStep(r) \/ Gone(r)
      PROVE  OtpsAreOld'
  <2>1. /\ lastOtp' = lastOtp /\ otp' = otp /\ history'.proof = history.proof
        /\ request'[r].otp \in {0, request[r].otp}
        /\ request'[r].pc \notin {"consume", "verify"}
    BY <1>2, LogInFacts, TokenFacts, GoneFacts
  <2>2. \A q \in Requests \ {r} : request'[q] = request[q]
    BY <1>2, OneRequest
  <2> QED  BY <2>1, <2>2, OtpsStay
<1>3. ASSUME NEW r \in Requests, OtpStep(r) PROVE OtpsAreOld'
  <2>1. CASE StartCooldown(r) \/ CountAttempt(r) \/ ArmAttempts(r)
    <3>1. lastOtp' = lastOtp /\ otp' = otp /\ history'.proof = history.proof
      BY <2>1 DEF StartCooldown, CountAttempt, ArmAttempts
    <3>2. \A q \in Requests \ {r} : request'[q] = request[q]
      BY <1>3, OneRequest
    <3>3. request'[r].otp \in {0, request[r].otp} /\ request'[r].pc \notin {"consume", "verify"}
      BY <2>1, WhereTo DEF StartCooldown, CountAttempt, ArmAttempts
    <3> QED  BY <3>1, <3>2, <3>3, OtpsStay
  <2>2. CASE BurnOtp(r)
    <3>1. /\ lastOtp' = lastOtp /\ history' = history
          /\ \A u \in Users : otp'[u] \in {0, otp[u]}
      BY <2>2 DEF BurnOtp, DeleteOtp, TypeInv, TypeOK
    <3>2. \A q \in Requests \ {r} : request'[q] = request[q]
      BY <1>3, OneRequest
    <3>3. request'[r].otp = 0 /\ request'[r].pc = "idle"
      BY <2>2, WhereTo DEF BurnOtp
    <3> QED  BY <3>1, <3>2, <3>3, OtpsStay
  <2> QED
    BY <1>3, <2>1, <2>2, OtpMade, OtpConsumed, OtpProved DEF OtpStep
<1>4. ASSUME NEW u \in Users, UserStep(u) PROVE OtpsAreOld'
  <2>1. \A v \in Users : otp'[v] \in {0, otp[v]}
    BY <1>4 DEF UserStep, CreateUser, DeleteUser, UpdateUser, UnchangedButAccount,
       ForgotPassword, LockoutExpires, CooldownExpires, OtpExpires, AttemptsExpire,
       TypeInv, TypeOK
  <2> QED  BY <1>4, <2>1, UserFacts, OtpsStay
<1>5. CASE KeyStep
  BY <1>5, KeyFacts, OtpsStay
<1> QED  BY <1>1, <1>2, <1>3, <1>4, <1>5, OtpsArrive, StepCases

\* A user who has been verified cannot be verified by the same OTP again, for
\* any number of overlapping requests, crashes and outages: otp.service.ts,
\* verifyOtp, deletes it before it marks the user.
THEOREM UsedOtpTheorem == Spec => []UsedOtpIsGone
<1>1. OtpsAreOld => UsedOtpIsGone
  BY DEF OtpsAreOld, UsedOtpIsGone
<1> QED  BY <1>1, AlwaysTyped, InitOtps, OtpsStep, PTL DEF Spec

-----------------------------------------------------------------------------
(***************************************************************************)
(* Sessions.  Each line that was not revoked has a session that no         *)
(* rotation is about to delete; what a revocation deletes is of a line     *)
(* that has ended.                                                         *)
(***************************************************************************)
Dropping == {request[r].token : r \in {q \in Requests : At(q, "dropOld")}}

HasSession(j) ==
  issued[j].root = j /\ j \notin history.ended =>
    \E k \in refreshSession \ Dropping : issued[k].root = j

DoomedHaveEnded(r) ==
  At(r, "delete") => Lines(request[r].doomed) \subseteq history.ended

LineKept ==
  /\ \A j \in Jtis : HasSession(j)
  /\ \A r \in Requests : DoomedHaveEnded(r)

\* No token has been signed at the start.
LEMMA InitLines == Init => LineKept
BY IdentityAssumption
   DEF Init, LineKept, HasSession, DoomedHaveEnded, Unsigned, At, Idle

\* A step that signs nothing and ends no line, and deletes only sessions that
\* a rotation has replaced or whose line has ended.
LEMMA LinesStay ==
  ASSUME TypeInv, LineKept, issued' = issued, Dropping' \subseteq Dropping,
         history.ended \subseteq history'.ended,
         \A k \in refreshSession \ refreshSession' :
           k \in Dropping \/ issued[k].root \in history'.ended,
         \A r \in Requests :
           request'[r].pc = "delete" =>
             Lines(request'[r].doomed) \subseteq history'.ended
  PROVE  LineKept'
<1>1. ASSUME NEW j \in Jtis PROVE HasSession(j)'
  <2> SUFFICES ASSUME issued[j].root = j, j \notin history'.ended
               PROVE  \E k \in refreshSession' \ Dropping' : issued[k].root = j
    BY DEF HasSession
  <2>1. PICK k \in refreshSession \ Dropping : issued[k].root = j
    BY DEF LineKept, HasSession
  <2> QED  BY <2>1
<1>2. ASSUME NEW r \in Requests PROVE DoomedHaveEnded(r)'
  BY DEF DoomedHaveEnded, Lines, At
<1> QED  BY <1>1, <1>2 DEF LineKept

\* A token that is being replaced or deleted was signed.
LEMMA OldIsSigned ==
  ASSUME TypeInv, LineKept, NEW j \in Jtis, issued[j] = Unsigned
  PROVE  /\ j \notin Dropping
         /\ \A r \in Requests : At(r, "delete") => j \notin request[r].doomed
<1>1. issued[j].kind = "none" /\ issued[j].root = None
  BY DEF Unsigned
<1>2. j \notin Dropping
  BY <1>1 DEF Dropping, At, TypeInv, RequestsKnown, RequestKnown, HasToken
<1>3. ASSUME NEW r \in Requests, At(r, "delete"), j \in request[r].doomed
      PROVE  FALSE
  <2>1. None \in history.ended
    BY <1>1, <1>3 DEF LineKept, DoomedHaveEnded, Lines
  <2> QED  BY <2>1, IdentityAssumption DEF TypeInv, TypeOK, History
<1> QED  BY <1>2, <1>3

\* A rotation gives a session's line another one before it drops the old.
LEMMA LineRotated ==
  ASSUME TypeInv, LineKept, NEW r \in Requests, NEW new \in Jtis, Rotate(r, new)
  PROVE  LineKept'
<1>1. PICK old : old = request[r].token
  OBVIOUS
<1>2. /\ old \in Jtis /\ issued[old].kind = "session" /\ issued[old].root \in Jtis
      /\ issued[new] = Unsigned /\ new \notin Dropping
  BY <1>1, OldIsSigned
     DEF Rotate, Sign, At, TypeInv, RequestsKnown, RequestKnown, HasToken,
         TokensKnown
<1>3. /\ issued'[new].root = issued[old].root
      /\ \A j \in Jtis \ {new} : issued'[j] = issued[j]
      /\ refreshSession' = refreshSession \cup {new}
      /\ history'.ended = history.ended
  BY <1>1, <1>2 DEF Rotate, Sign, TypeInv, TypeOK, History
<1>4. /\ \A q \in Requests \ {r} : request'[q] = request[q]
      /\ request'[r].pc = "dropOld" /\ request'[r].token = old
  BY <1>1, OneRequest, WhereTo DEF Rotate, TokenStep
<1>5. Dropping' = Dropping \cup {old}
  BY <1>4 DEF Dropping, At, Rotate
<1>6. old # new
  BY <1>2 DEF Unsigned
<1>7. ASSUME NEW j \in Jtis PROVE HasSession(j)'
  <2> SUFFICES ASSUME issued'[j].root = j, j \notin history.ended
               PROVE  \E k \in refreshSession' \ Dropping' : issued'[k].root = j
    BY <1>3 DEF HasSession
  <2>1. CASE issued[old].root = j
    BY <1>2, <1>3, <1>5, <1>6, <2>1
  <2>2. CASE issued[old].root # j
    <3>1. j # new
      BY <1>3, <2>2
    <3>2. PICK k \in refreshSession \ Dropping : issued[k].root = j
      BY <1>3, <3>1 DEF LineKept, HasSession
    <3>3. k \in Jtis /\ k # new
      BY <1>2, <3>2, IdentityAssumption DEF Unsigned, TypeInv, TypeOK
    <3> QED  BY <1>3, <1>5, <2>2, <3>2, <3>3
  <2> QED  BY <2>1, <2>2
<1>8. ASSUME NEW q \in Requests, request'[q].pc = "delete"
      PROVE  DoomedHaveEnded(q)'
  <2>1. q # r /\ request'[q] = request[q] /\ At(q, "delete")
    BY <1>4, <1>8 DEF At
  <2>2. request[q].doomed \subseteq Jtis \ {new}
    BY <1>2, <2>1, OldIsSigned DEF TypeInv, TypeOK, RequestRecord
  <2> QED  BY <1>3, <2>1, <2>2 DEF LineKept, DoomedHaveEnded, Lines
<1> QED  BY <1>7, <1>8 DEF LineKept, DoomedHaveEnded, At

\* A sign-in starts a line of its own.
LEMMA LineBegun ==
  ASSUME TypeInv, LineKept, NEW r \in Requests, NEW new \in Jtis,
         CreateUserTokens(r, new)
  PROVE  LineKept'
<1>1. issued[new] = Unsigned /\ new \notin Dropping
  BY OldIsSigned DEF CreateUserTokens, Sign
<1>2. /\ issued'[new].root = new
      /\ \A j \in Jtis \ {new} : issued'[j] = issued[j]
      /\ refreshSession' = refreshSession \cup {new}
      /\ history'.ended = history.ended
  BY DEF CreateUserTokens, Sign, TypeInv, TypeOK, History
<1>3. /\ \A q \in Requests \ {r} : request'[q] = request[q]
      /\ request'[r].pc \notin {"dropOld", "delete"}
  <2>1. CASE Finish(r)
    BY <2>1, OneRequest, WhereTo DEF TokenStep
  <2>2. CASE ~Finish(r)
    BY <2>2, OneRequest DEF TokenStep, CreateUserTokens, TypeInv, TypeOK,
                            RequestRecord
  <2> QED  BY <2>1, <2>2
<1>4. ~At(r, "dropOld")
  BY DEF CreateUserTokens, At
<1>5. Dropping' = Dropping
  BY <1>3, <1>4 DEF Dropping, At
<1>6. ASSUME NEW j \in Jtis PROVE HasSession(j)'
  <2> SUFFICES ASSUME issued'[j].root = j, j \notin history.ended
               PROVE  \E k \in refreshSession' \ Dropping' : issued'[k].root = j
    BY <1>2 DEF HasSession
  <2>1. CASE j = new
    BY <1>1, <1>2, <1>5, <2>1
  <2>2. CASE j # new
    <3>1. PICK k \in refreshSession \ Dropping : issued[k].root = j
      BY <1>2, <2>2 DEF LineKept, HasSession
    <3>2. k \in Jtis /\ k # new
      BY <1>1, <3>1, IdentityAssumption DEF Unsigned, TypeInv, TypeOK
    <3> QED  BY <1>2, <1>5, <3>1, <3>2
  <2> QED  BY <2>1, <2>2
<1>7. ASSUME NEW q \in Requests, request'[q].pc = "delete"
      PROVE  DoomedHaveEnded(q)'
  <2>1. q # r /\ request'[q] = request[q] /\ At(q, "delete")
    BY <1>3, <1>7 DEF At
  <2>2. request[q].doomed \subseteq Jtis \ {new}
    BY <1>1, <2>1, OldIsSigned DEF TypeInv, TypeOK, RequestRecord
  <2> QED  BY <1>2, <2>1, <2>2 DEF LineKept, DoomedHaveEnded, Lines
<1> QED  BY <1>6, <1>7 DEF LineKept, DoomedHaveEnded, At

\* What a rotation is about to delete, when only request r has moved.
LEMMA DroppingStays ==
  ASSUME TypeInv, NEW r \in Requests,
         \A q \in Requests \ {r} : request'[q] = request[q],
         request'[r].pc # "dropOld"
  PROVE  Dropping' \subseteq Dropping
BY DEF Dropping, At

\* What a scan for sessions finds it deletes later, but for the keys it joins.
LEMMA ScanTells ==
  ASSUME TypeInv, NEW r \in Requests, ScanSessions(r)
  PROVE  \E joined \in SUBSET SessionsOf(request[r].user) :
           /\ \/ joined = SessionsOf(request[r].user) /\ request'[r].pc = "idle"
              \/ /\ request'[r].pc = "delete"
                 /\ request'[r].doomed = SessionsOf(request[r].user) \ joined
                 /\ request'[r].op = request[r].op
                 /\ request'[r].user = request[r].user
           /\ history'.ended = history.ended \cup Lines(SessionsOf(request[r].user) \ joined)
           /\ IF request[r].op = "refresh"
                THEN /\ history'.spared = history.spared
                     /\ history'.racing = history.racing
                ELSE /\ history'.spared = history.spared \cup Lines(joined)
                     /\ history'.racing =
                          history.racing \cup PastCheck(request[r].user)
<1> DEFINE found == SessionsOf(request[r].user)
<1>1. PICK joined \in SUBSET found :
        /\ IF joined = found
             THEN Finish(r)
             ELSE request' = [request EXCEPT ![r].doomed = found \ joined,
                                             ![r].pc = "delete"]
        /\ history' =
             IF request[r].op = "refresh"
               THEN [history EXCEPT !.ended = @ \cup Lines(found \ joined)]
               ELSE [history EXCEPT
                      !.ended = @ \cup Lines(found \ joined),
                      !.spared = @ \cup Lines(joined),
                      !.racing = @ \cup PastCheck(request[r].user)]
  BY DEF ScanSessions
<1>2. history'.ended = history.ended \cup Lines(found \ joined)
  BY <1>1 DEF TypeInv, TypeOK, History
<1>3. IF request[r].op = "refresh"
        THEN history'.spared = history.spared /\ history'.racing = history.racing
        ELSE /\ history'.spared = history.spared \cup Lines(joined)
             /\ history'.racing = history.racing \cup PastCheck(request[r].user)
  BY <1>1 DEF TypeInv, TypeOK, History
<1>4. CASE joined = found
  BY <1>1, <1>2, <1>3, <1>4, WhereTo
<1>5. CASE joined # found
  <2>1. /\ request'[r].pc = "delete" /\ request'[r].doomed = found \ joined
        /\ request'[r].op = request[r].op /\ request'[r].user = request[r].user
    BY <1>1, <1>5 DEF RequestRecord, TypeInv, TypeOK
  <2> QED  BY <1>2, <1>3, <2>1
<1> QED  BY <1>4, <1>5

\* Revocations end the lines whose sessions they delete.
LEMMA LineRevoked ==
  ASSUME TypeInv, LineKept, NEW r \in Requests,
         ScanSessions(r) \/ (\E j \in Jtis : DeleteSession(r, j))
           \/ RevokeRefreshSession(r)
  PROVE  LineKept'
<1>1. \A q \in Requests \ {r} : request'[q] = request[q]
  BY OneRequest DEF TokenStep
<1>2. issued' = issued /\ request[r] \in RequestRecord
  BY DEF ScanSessions, DeleteSession, RevokeRefreshSession, TypeInv, TypeOK
<1>3. \A q \in Requests \ {r} :
        request'[q].pc = "delete" => Lines(request'[q].doomed) \subseteq history.ended
  BY <1>1 DEF LineKept, DoomedHaveEnded, At
<1>4. CASE ScanSessions(r)
  <2> DEFINE found == SessionsOf(request[r].user)
  <2>2. PICK joined \in SUBSET found :
          /\ \/ request'[r].pc = "idle"
             \/ /\ request'[r].pc = "delete"
                /\ request'[r].doomed = found \ joined
          /\ history'.ended = history.ended \cup Lines(found \ joined)
    BY <1>4, ScanTells
  <2>3. refreshSession' = refreshSession
    BY <1>4 DEF ScanSessions
  <2>4. Dropping' \subseteq Dropping
    BY <1>1, <2>2, DroppingStays
  <2> QED  BY <1>1, <1>2, <1>3, <2>2, <2>3, <2>4, LinesStay
<1>5. ASSUME NEW j \in Jtis, DeleteSession(r, j) PROVE LineKept'
  <2>1. /\ refreshSession' = refreshSession \ {j}
        /\ history' = history
        /\ j \in request[r].doomed /\ At(r, "delete")
    BY <1>5 DEF DeleteSession
  <2>2. Lines(request[r].doomed) \subseteq history.ended
    BY <2>1 DEF LineKept, DoomedHaveEnded
  <2>3. issued[j].root \in history.ended
    BY <2>1, <2>2 DEF Lines
  <2>4. \/ request'[r].pc = "idle"
        \/ /\ request'[r].pc = "delete"
           /\ request'[r].doomed = request[r].doomed \ {j}
    <3>1. CASE Finish(r)
      BY <3>1, WhereTo
    <3>2. CASE ~Finish(r)
      BY <1>2, <1>5, <3>2 DEF DeleteSession, RequestRecord, TypeInv, TypeOK, At
    <3> QED  BY <3>1, <3>2
  <2>5. Lines(request[r].doomed \ {j}) \subseteq history.ended
    BY <2>2 DEF Lines
  <2>6. Dropping' \subseteq Dropping
    BY <1>1, <2>4, DroppingStays
  <2> QED  BY <1>1, <1>2, <1>3, <2>1, <2>3, <2>4, <2>5, <2>6, LinesStay
<1>6. CASE RevokeRefreshSession(r)
  <2>1. /\ refreshSession \ refreshSession' \subseteq {request[r].token}
        /\ history'.ended = history.ended \cup {issued[request[r].token].root}
    BY <1>6 DEF RevokeRefreshSession, TypeInv, TypeOK, History
  <2>2. request'[r].pc = "idle"
    BY <1>6, WhereTo DEF RevokeRefreshSession
  <2>3. Dropping' \subseteq Dropping
    BY <1>1, <2>2, DroppingStays
  <2> QED  BY <1>1, <1>2, <1>3, <2>1, <2>2, <2>3, LinesStay
<1> QED  BY <1>4, <1>5, <1>6

\* A reset token belongs to no line.
LEMMA ResetSigned ==
  ASSUME TypeInv, LineKept, NEW u \in Users, NEW new \in Jtis, ForgotPassword(u, new)
  PROVE  LineKept'
<1>1. /\ issued[new] = Unsigned
      /\ issued'[new].root = None
      /\ \A j \in Jtis \ {new} : issued'[j] = issued[j]
      /\ UNCHANGED <<refreshSession, request, history>>
  BY DEF ForgotPassword, Sign, TypeInv, TypeOK
<1>2. Dropping' = Dropping
  BY <1>1 DEF Dropping, At
<1>3. ASSUME NEW j \in Jtis PROVE HasSession(j)'
  <2> SUFFICES ASSUME issued'[j].root = j, j \notin history.ended
               PROVE  \E k \in refreshSession \ Dropping : issued'[k].root = j
    BY <1>1, <1>2 DEF HasSession
  <2>1. j # new
    BY <1>1, IdentityAssumption
  <2>2. PICK k \in refreshSession \ Dropping : issued[k].root = j
    BY <1>1, <2>1 DEF LineKept, HasSession
  <2>3. k \in Jtis /\ k # new
    BY <1>1, <2>2, IdentityAssumption DEF Unsigned, TypeInv, TypeOK
  <2> QED  BY <1>1, <2>2, <2>3
<1>4. ASSUME NEW q \in Requests PROVE DoomedHaveEnded(q)'
  <2>1. At(q, "delete") => request[q].doomed \subseteq Jtis \ {new}
    BY <1>1, OldIsSigned DEF TypeInv, TypeOK, RequestRecord
  <2> QED  BY <1>1, <2>1 DEF LineKept, DoomedHaveEnded, Lines, At
<1> QED  BY <1>3, <1>4 DEF LineKept

\* A step that deletes no session and begins no deletion.
LEMMA LinesAside ==
  ASSUME TypeInv, LineKept, NEW r \in Requests,
         \A q \in Requests \ {r} : request'[q] = request[q],
         request'[r].pc \notin {"dropOld", "delete"},
         issued' = issued, refreshSession' = refreshSession,
         history'.ended = history.ended
  PROVE  LineKept'
<1>1. Dropping' \subseteq Dropping
  BY DroppingStays
<1>2. \A q \in Requests :
        request'[q].pc = "delete" => Lines(request'[q].doomed) \subseteq history.ended
  BY DEF LineKept, DoomedHaveEnded, At
<1> QED  BY <1>1, <1>2, LinesStay

\* Every step keeps the lines that were not revoked.
LEMMA LinesStep == TypeInv /\ LineKept /\ [Next]_vars => LineKept'
<1> SUFFICES ASSUME TypeInv, LineKept, [Next]_vars PROVE LineKept'
  OBVIOUS
<1>1. CASE UNCHANGED <<issued, refreshSession, request>>
           /\ history'.ended = history.ended
  <2>1. Dropping' = Dropping
    BY <1>1 DEF Dropping, At
  <2>2. \A q \in Requests :
          request'[q].pc = "delete" =>
              Lines(request'[q].doomed) \subseteq history.ended
    BY <1>1 DEF LineKept, DoomedHaveEnded, At
  <2> QED  BY <1>1, <2>1, <2>2, LinesStay
<1>2. ASSUME NEW r \in Requests, Arrive(r) \/ LogInStep(r) \/ OtpStep(r) \/ Gone(r)
      PROVE  LineKept'
  <2>1. \A q \in Requests \ {r} : request'[q] = request[q]
    BY <1>2, OneRequest
  <2>2. /\ issued' = issued /\ refreshSession' = refreshSession
        /\ history'.ended = history.ended
        /\ request'[r].pc \notin {"dropOld", "delete"}
    BY <1>2, ArriveFacts, LogInFacts, OtpFacts, GoneFacts
  <2> QED  BY <2>1, <2>2, LinesAside
<1>3. ASSUME NEW r \in Requests, InvalidateToken(r) \/ LookUpUser(r)
      PROVE  LineKept'
  <2>1. \A q \in Requests \ {r} : request'[q] = request[q]
    BY <1>3, OneRequest DEF TokenStep
  <2>2. /\ issued' = issued /\ refreshSession' = refreshSession
        /\ history'.ended = history.ended
    BY <1>3 DEF InvalidateToken, LookUpUser, TypeInv, TypeOK, History
  <2>3. request'[r].pc \notin {"dropOld", "delete"}
    BY <1>3, WhereTo DEF InvalidateToken, LookUpUser
  <2> QED  BY <2>1, <2>2, <2>3, LinesAside
<1>4. ASSUME NEW r \in Requests, DropOldSession(r) PROVE LineKept'
  <2>1. \A q \in Requests \ {r} : request'[q] = request[q]
    BY <1>4, OneRequest DEF TokenStep
  <2>2. /\ issued' = issued /\ history' = history /\ At(r, "dropOld")
        /\ refreshSession' = refreshSession \ {request[r].token}
        /\ request'[r].pc = "idle"
    BY <1>4, WhereTo DEF DropOldSession
  <2>3. request[r].token \in Dropping
    BY <2>2 DEF Dropping
  <2>4. Dropping' \subseteq Dropping
    BY <2>1, <2>2, DroppingStays
  <2>5. \A q \in Requests :
          request'[q].pc = "delete" =>
              Lines(request'[q].doomed) \subseteq history.ended
    BY <2>1, <2>2 DEF LineKept, DoomedHaveEnded, At
  <2> QED  BY <2>2, <2>3, <2>4, <2>5, LinesStay
<1>5. ASSUME NEW r \in Requests, TokenStep(r) PROVE LineKept'
  BY <1>3, <1>4, <1>5, LineRotated, LineBegun, LineRevoked DEF TokenStep
<1>6. ASSUME NEW u \in Users, UserStep(u) PROVE LineKept'
  <2>1. CASE \E j \in Jtis : ForgotPassword(u, j)
    BY <2>1, ResetSigned
  <2>2. CASE ~ \E j \in Jtis : ForgotPassword(u, j)
    <3>1. issued' = issued
      BY <1>6, <2>2
         DEF UserStep, CreateUser, DeleteUser, UpdateUser, UnchangedButAccount,
             LockoutExpires, CooldownExpires, OtpExpires, AttemptsExpire
    <3> QED  BY <1>1, <1>6, <3>1, UserFacts
  <2> QED  BY <2>1, <2>2
<1>7. CASE KeyStep
  BY <1>1, <1>7, KeyFacts
<1>8. CASE UNCHANGED vars
  BY <1>1, <1>8
<1> QED  BY <1>2, <1>5, <1>6, <1>7, <1>8, StepCases

\* A client whose sessions nobody has revoked can always go on: rotation
\* stores the new session before it deletes the old one, and that is enough
\* for any number of overlapping rotations that fail anywhere: userTokens.ts.
THEOREM LineTheorem == Spec => []LineSurvives
<1>1. LineKept => LineSurvives
  BY DEF LineKept, HasSession, LineSurvives
<1> QED  BY <1>1, AlwaysTyped, InitLines, LinesStep, PTL DEF Spec

-----------------------------------------------------------------------------
(***************************************************************************)
(* The lockout.  A login that is past its check of the counter may still   *)
(* add one to it; a login that has added one has yet to set the time.      *)
(***************************************************************************)
Trying(u) ==
  {r \in Requests : request[r].user = u /\ request[r].pc \in {"compare", "count"}}

Expiring(u) == {r \in Requests : request[r].user = u /\ At(r, "expire")}

FewFailures(u) ==
  failedLogin[u] + Cardinality(Trying(u)) <
    MaxFailedAttempts + Cardinality(Requests)

FailuresTimed(u) ==
  u \notin failedTtl =>
    failedLogin[u] <= history.untimed[u] + Cardinality(Expiring(u))

LockoutCounts == \A u \in Users : FewFailures(u) /\ FailuresTimed(u)

\* Sets of requests can be counted.
LEMMA RequestsCounted ==
  ASSUME NEW S \in SUBSET Requests
  PROVE  /\ IsFiniteSet(S) /\ Cardinality(S) \in Nat
         /\ Cardinality(Requests) \in Nat
         /\ Cardinality(S) <= Cardinality(Requests)
         /\ \A T \in SUBSET S : Cardinality(T) <= Cardinality(S)
         /\ \A r \in S : Cardinality(S \ {r}) = Cardinality(S) - 1
         /\ \A r \in Requests \ S : Cardinality(S \cup {r}) = Cardinality(S) + 1
<1>1. IsFiniteSet(Requests)
  BY IdentityAssumption
<1>2. IsFiniteSet(S)
  BY <1>1, FS_Subset
<1> QED
  BY <1>1, <1>2, FS_Subset, FS_CardinalityType, FS_RemoveElement, FS_AddElement

\* No login has failed at the start.
LEMMA InitLockout == Init => LockoutCounts
<1> SUFFICES ASSUME Init, NEW u \in Users PROVE FewFailures(u) /\ FailuresTimed(u)
  BY DEF LockoutCounts
<1>1. Trying(u) = {} /\ failedLogin[u] = 0 /\ history.untimed[u] = 0
  BY DEF Init, Trying, Idle
<1>2. Expiring(u) \in SUBSET Requests
  BY DEF Expiring
<1> QED
  BY <1>1, <1>2, RequestsCounted, FS_EmptySet, IdentityAssumption
     DEF FewFailures, FailuresTimed

\* The counter of a user's failures does not grow, and nobody passes the check.
LEMMA FewStay ==
  ASSUME TypeInv, NEW u \in Users, FewFailures(u),
         failedLogin'[u] \in {0, failedLogin[u]}, Trying(u)' \subseteq Trying(u)
  PROVE  FewFailures(u)'
<1>1. Trying(u) \in SUBSET Requests /\ Trying(u)' \in SUBSET Trying(u)
  BY DEF Trying
<1>2. /\ Cardinality(Trying(u)') <= Cardinality(Trying(u))
      /\ Cardinality(Trying(u)) \in Nat /\ Cardinality(Requests) \in Nat
      /\ Cardinality(Trying(u)') \in Nat
  BY <1>1, RequestsCounted
<1> QED
  BY <1>2, IdentityAssumption DEF FewFailures, TypeInv, TypeOK

\* Nothing is taken from what explains a counter without a time to live.
LEMMA TimedStay ==
  ASSUME TypeInv, TypeInv', NEW u \in Users, FailuresTimed(u),
         \/ failedLogin'[u] = 0
         \/ /\ failedLogin'[u] = failedLogin[u]
            /\ u \in failedTtl => u \in failedTtl'
            /\ history'.untimed[u] = history.untimed[u]
            /\ Expiring(u) \subseteq Expiring(u)'
  PROVE  FailuresTimed(u)'
<1>1. Expiring(u) \in SUBSET Requests /\ Expiring(u)' \in SUBSET Requests
  BY DEF Expiring
<1>2. /\ Cardinality(Expiring(u)) \in Nat /\ Cardinality(Expiring(u)') \in Nat
      /\ Expiring(u) \subseteq Expiring(u)' =>
           Cardinality(Expiring(u)) <= Cardinality(Expiring(u)')
  BY <1>1, RequestsCounted
<1>3. /\ failedLogin[u] \in Nat
      /\ history.untimed[u] \in Nat /\ history'.untimed[u] \in Nat
  BY DEF TypeInv, TypeOK, History
<1> QED  BY <1>2, <1>3 DEF FailuresTimed

\* A step of one request that neither counts a failure nor was to time one.
LEMMA LockoutStays ==
  ASSUME TypeInv, TypeInv', LockoutCounts, NEW r \in Requests,
         \A q \in Requests \ {r} : request'[q] = request[q],
         UNCHANGED <<failedLogin, failedTtl>>, ~At(r, "expire"),
         history'.untimed = history.untimed,
         request'[r].pc \in {"compare", "count"} =>
           /\ request[r].pc \in {"compare", "count"}
           /\ request'[r].user = request[r].user
  PROVE  LockoutCounts'
<1> SUFFICES ASSUME NEW u \in Users PROVE FewFailures(u)' /\ FailuresTimed(u)'
  BY DEF LockoutCounts
<1>1. Trying(u)' \subseteq Trying(u)
  BY DEF Trying
<1>2. Expiring(u) \subseteq Expiring(u)'
  BY DEF Expiring, At
<1> QED  BY <1>1, <1>2, FewStay, TimedStay DEF LockoutCounts

\* A login passes the check of the counter.
LEMMA LockoutArrive ==
  ASSUME TypeInv, TypeInv', LockoutCounts, NEW r \in Requests, Arrive(r)
  PROVE  LockoutCounts'
<1> SUFFICES ASSUME NEW u \in Users PROVE FewFailures(u)' /\ FailuresTimed(u)'
  BY DEF LockoutCounts
<1>1. /\ UNCHANGED <<failedLogin, failedTtl>>
      /\ history'.untimed = history.untimed
      /\ request'[r].pc # "count"
      /\ request'[r].pc = "compare" =>
           failedLogin[request'[r].user] < MaxFailedAttempts
  BY ArriveFacts
<1>2. \A q \in Requests \ {r} : request'[q] = request[q]
  BY OneRequest
<1>3. At(r, "idle")
  BY DEF Arrive, LogIn, SendOtp, VerifyOtp, GoogleCallback, CreateNewAccessToken,
         LogOut, Authenticate, Begin
<1>4. Expiring(u) \subseteq Expiring(u)'
  BY <1>2, <1>3 DEF Expiring, At
<1>5. FailuresTimed(u)'
  BY <1>1, <1>4, TimedStay DEF LockoutCounts
<1>6. CASE request'[r].pc = "compare" /\ request'[r].user = u
  <2>1. failedLogin'[u] < MaxFailedAttempts /\ failedLogin'[u] \in Nat
    BY <1>1, <1>6 DEF TypeInv, TypeOK
  <2>2. Trying(u)' \in SUBSET Requests
    BY DEF Trying
  <2>3. /\ Cardinality(Trying(u)') <= Cardinality(Requests)
        /\ Cardinality(Trying(u)') \in Nat /\ Cardinality(Requests) \in Nat
    BY <2>2, RequestsCounted
  <2> QED  BY <1>5, <2>1, <2>3, IdentityAssumption DEF FewFailures
<1>7. CASE ~(request'[r].pc = "compare" /\ request'[r].user = u)
  <2>1. Trying(u)' \subseteq Trying(u)
    BY <1>1, <1>2, <1>7 DEF Trying
  <2> QED  BY <1>1, <1>5, <2>1, FewStay DEF LockoutCounts
<1> QED  BY <1>6, <1>7

\* A failure is counted: one login fewer is trying, one more is to set the time.
LEMMA FailureCounted ==
  ASSUME TypeInv, TypeInv', LockoutCounts, NEW r \in Requests, CountFailure(r)
  PROVE  LockoutCounts'
<1> SUFFICES ASSUME NEW u \in Users PROVE FewFailures(u)' /\ FailuresTimed(u)'
  BY DEF LockoutCounts
<1>1. \A q \in Requests \ {r} : request'[q] = request[q]
  BY OneRequest DEF LogInStep
<1>2. /\ request'[r].pc = "expire" /\ request'[r].user = request[r].user
      /\ At(r, "count")
      /\ failedLogin' = [failedLogin EXCEPT ![request[r].user] = @ + 1]
      /\ UNCHANGED <<failedTtl, history>>
  BY WhereTo DEF CountFailure
<1>3. CASE request[r].user # u
  <2>1. Trying(u)' = Trying(u)
    BY <1>1, <1>2, <1>3 DEF Trying
  <2>2. Expiring(u)' = Expiring(u)
    BY <1>1, <1>2, <1>3 DEF Expiring, At
  <2>3. failedLogin'[u] = failedLogin[u]
    BY <1>2, <1>3 DEF TypeInv, TypeOK
  <2> QED  BY <1>2, <2>1, <2>2, <2>3, FewStay, TimedStay DEF LockoutCounts
<1>4. CASE request[r].user = u
  <2>1. Trying(u)' = Trying(u) \ {r} /\ r \in Trying(u) /\ Trying(u) \in SUBSET Requests
    BY <1>1, <1>2, <1>4 DEF Trying, At
  <2>2. /\ Expiring(u)' = Expiring(u) \cup {r} /\ r \notin Expiring(u)
        /\ Expiring(u) \in SUBSET Requests
    BY <1>1, <1>2, <1>4 DEF Expiring, At
  <2>3. /\ Cardinality(Trying(u)') = Cardinality(Trying(u)) - 1
        /\ Cardinality(Trying(u)) \in Nat /\ Cardinality(Requests) \in Nat
    BY <2>1, RequestsCounted
  <2>4. /\ Cardinality(Expiring(u)') = Cardinality(Expiring(u)) + 1
        /\ Cardinality(Expiring(u)) \in Nat
    BY <2>2, RequestsCounted
  <2>5. failedLogin[u] \in Nat /\ failedLogin'[u] = failedLogin[u] + 1
        /\ history.untimed[u] \in Nat
    BY <1>2, <1>4 DEF TypeInv, TypeOK, History
  <2>6. FewFailures(u) /\ FailuresTimed(u)
    BY DEF LockoutCounts
  <2>7. FewFailures(u)'
    BY <2>3, <2>5, <2>6, IdentityAssumption DEF FewFailures
  <2>8. FailuresTimed(u)'
    BY <1>2, <2>4, <2>5, <2>6 DEF FailuresTimed
  <2> QED  BY <2>7, <2>8
<1> QED  BY <1>3, <1>4

\* The time is set, or the counter was gone meanwhile.
LEMMA FailureTimed ==
  ASSUME TypeInv, TypeInv', LockoutCounts, NEW r \in Requests, ExpireFailures(r)
  PROVE  LockoutCounts'
<1> SUFFICES ASSUME NEW u \in Users PROVE FewFailures(u)' /\ FailuresTimed(u)'
  BY DEF LockoutCounts
<1>1. \A q \in Requests \ {r} : request'[q] = request[q]
  BY OneRequest DEF LogInStep
<1>2. /\ request'[r].pc = "idle" /\ At(r, "expire")
      /\ failedTtl' = IF failedLogin[request[r].user] = 0 THEN failedTtl
                      ELSE failedTtl \cup {request[r].user}
      /\ UNCHANGED <<failedLogin, history>>
  BY WhereTo DEF ExpireFailures
<1>3. Trying(u)' \subseteq Trying(u)
  BY <1>1, <1>2 DEF Trying
<1>4. FewFailures(u)'
  BY <1>2, <1>3, FewStay DEF LockoutCounts
<1>5. CASE request[r].user # u
  <2>1. Expiring(u)' = Expiring(u)
    BY <1>1, <1>2, <1>5 DEF Expiring, At
  <2>2. u \in failedTtl => u \in failedTtl'
    BY <1>2
  <2> QED  BY <1>2, <1>4, <2>1, <2>2, TimedStay DEF LockoutCounts
<1>6. CASE request[r].user = u /\ failedLogin[u] = 0
  BY <1>2, <1>4, <1>6, TimedStay DEF LockoutCounts
<1>7. CASE request[r].user = u /\ failedLogin[u] # 0
  BY <1>2, <1>4, <1>7 DEF FailuresTimed
<1> QED  BY <1>5, <1>6, <1>7

\* A success clears the counter.
LEMMA FailuresCleared ==
  ASSUME TypeInv, TypeInv', LockoutCounts, NEW r \in Requests, ClearFailures(r)
  PROVE  LockoutCounts'
<1> SUFFICES ASSUME NEW u \in Users PROVE FewFailures(u)' /\ FailuresTimed(u)'
  BY DEF LockoutCounts
<1>1. \A q \in Requests \ {r} : request'[q] = request[q]
  BY OneRequest DEF LogInStep
<1>2. /\ request'[r].pc = "issue" /\ At(r, "clear")
      /\ failedLogin' = [failedLogin EXCEPT ![request[r].user] = 0]
      /\ failedTtl' = failedTtl \ {request[r].user}
      /\ history' = [history EXCEPT !.untimed[request[r].user] = 0]
  BY WhereTo DEF ClearFailures
<1>3. Trying(u)' \subseteq Trying(u)
  BY <1>1, <1>2 DEF Trying
<1>4. /\ failedLogin'[u] \in {0, failedLogin[u]}
      /\ request[r].user = u => failedLogin'[u] = 0
      /\ request[r].user # u => /\ failedLogin'[u] = failedLogin[u]
                                /\ history'.untimed[u] = history.untimed[u]
                                /\ u \in failedTtl => u \in failedTtl'
  BY <1>2 DEF TypeInv, TypeOK, History
<1>5. Expiring(u)' = Expiring(u)
  BY <1>1, <1>2 DEF Expiring, At
<1> QED  BY <1>3, <1>4, <1>5, FewStay, TimedStay DEF LockoutCounts

\* The lockout is over.
LEMMA LockoutOver ==
  ASSUME TypeInv, TypeInv', LockoutCounts, NEW v \in Users, LockoutExpires(v)
  PROVE  LockoutCounts'
<1> SUFFICES ASSUME NEW u \in Users PROVE FewFailures(u)' /\ FailuresTimed(u)'
  BY DEF LockoutCounts
<1>1. /\ failedLogin'[u] \in {0, failedLogin[u]}
      /\ v = u => failedLogin'[u] = 0
      /\ v # u => /\ failedLogin'[u] = failedLogin[u]
                  /\ history'.untimed[u] = history.untimed[u]
                  /\ u \in failedTtl => u \in failedTtl'
  BY DEF LockoutExpires, TypeInv, TypeOK, History
<1>2. Trying(u)' = Trying(u) /\ Expiring(u)' = Expiring(u)
  BY DEF LockoutExpires, Trying, Expiring, At
<1> QED  BY <1>1, <1>2, FewStay, TimedStay DEF LockoutCounts

\* A request dies, perhaps before it has set the time.
LEMMA LockoutGone ==
  ASSUME TypeInv, TypeInv', LockoutCounts, NEW r \in Requests, Gone(r)
  PROVE  LockoutCounts'
<1>1. \A q \in Requests \ {r} : request'[q] = request[q]
  BY OneRequest
<1>2. UNCHANGED <<failedLogin, failedTtl>> /\ request'[r].pc = "idle"
  BY GoneFacts
<1>3. CASE ~At(r, "expire")
  <2>1. history'.untimed = history.untimed
    BY <1>3, Forgotten DEF Gone
  <2> QED  BY <1>1, <1>2, <1>3, <2>1, LockoutStays
<1>4. CASE At(r, "expire")
  <2> SUFFICES ASSUME NEW u \in Users PROVE FewFailures(u)' /\ FailuresTimed(u)'
    BY DEF LockoutCounts
  <2>2. history'.untimed = [history.untimed EXCEPT ![request[r].user] = @ + 1]
    BY <1>4, Forgotten DEF Gone
  <2>3. Trying(u)' \subseteq Trying(u)
    BY <1>1, <1>2 DEF Trying
  <2>4. FewFailures(u)'
    BY <1>2, <2>3, FewStay DEF LockoutCounts
  <2>5. CASE request[r].user # u
    <3>1. Expiring(u)' = Expiring(u)
      BY <1>1, <1>2, <2>5 DEF Expiring, At
    <3>2. history'.untimed[u] = history.untimed[u]
      BY <2>2, <2>5 DEF TypeInv, TypeOK, History
    <3> QED  BY <1>2, <2>4, <3>1, <3>2, TimedStay DEF LockoutCounts
  <2>6. CASE request[r].user = u
    <3>1. /\ Expiring(u)' = Expiring(u) \ {r} /\ r \in Expiring(u)
          /\ Expiring(u) \in SUBSET Requests
      BY <1>1, <1>2, <1>4, <2>6 DEF Expiring, At
    <3>2. /\ Cardinality(Expiring(u)') = Cardinality(Expiring(u)) - 1
          /\ Cardinality(Expiring(u)) \in Nat
      BY <3>1, RequestsCounted
    <3>3. /\ history'.untimed[u] = history.untimed[u] + 1
          /\ history.untimed[u] \in Nat /\ failedLogin[u] \in Nat
      BY <2>2, <2>6 DEF TypeInv, TypeOK, History
    <3>4. FailuresTimed(u)
      BY DEF LockoutCounts
    <3> QED  BY <1>2, <2>4, <3>2, <3>3, <3>4 DEF FailuresTimed
  <2> QED  BY <2>5, <2>6
<1> QED  BY <1>3, <1>4

\* Every step keeps the counts of failures.
LEMMA LockoutStep ==
  TypeInv /\ TypeInv' /\ LockoutCounts /\ [Next]_vars => LockoutCounts'
<1> SUFFICES ASSUME TypeInv, TypeInv', LockoutCounts, [Next]_vars
             PROVE  LockoutCounts'
  OBVIOUS
<1>1. CASE UNCHANGED <<failedLogin, failedTtl, request>>
           /\ history'.untimed = history.untimed
  <2>1. ASSUME NEW u \in Users PROVE FewFailures(u)' /\ FailuresTimed(u)'
    <3>1. Trying(u)' = Trying(u) /\ Expiring(u)' = Expiring(u)
      BY <1>1 DEF Trying, Expiring, At
    <3> QED  BY <1>1, <3>1, FewStay, TimedStay DEF LockoutCounts
  <2> QED  BY <2>1 DEF LockoutCounts
<1>2. ASSUME NEW r \in Requests, TokenStep(r) \/ OtpStep(r) PROVE LockoutCounts'
  <2>1. \A q \in Requests \ {r} : request'[q] = request[q]
    BY <1>2, OneRequest
  <2>2. /\ UNCHANGED <<failedLogin, failedTtl>>
        /\ history'.untimed = history.untimed
        /\ request'[r].pc \notin {"compare", "count"}
    BY <1>2, TokenFacts, OtpFacts
  <2>3. ~At(r, "expire")
    BY <1>2 DEF TokenStep, InvalidateToken, LookUpUser, DropOldSession,
                ScanSessions,
         CreateUserTokens, Rotate, DeleteSession, RevokeRefreshSession,
         OtpStep, StoreOtp, StartCooldown, CountAttempt, ArmAttempts, BurnOtp,
         ConsumeOtp, MarkVerified, At
  <2> QED  BY <2>1, <2>2, <2>3, LockoutStays
<1>3. ASSUME NEW r \in Requests, LogInStep(r), ~CountFailure(r),
             ~ExpireFailures(r), ~ClearFailures(r)
      PROVE  LockoutCounts'
  <2>1. \A q \in Requests \ {r} : request'[q] = request[q]
    BY <1>3, OneRequest
  <2>2. /\ UNCHANGED <<failedLogin, failedTtl>> /\ ~At(r, "expire")
        /\ history'.untimed = history.untimed
    BY <1>3 DEF LogInStep, ComparePassword, DeleteState, GoogleStrategy,
         StoreAuthCode, ReadPassword, SavePassword, At, TypeInv, TypeOK, History
  <2>3. request'[r].pc \in {"compare", "count"} =>
          /\ request[r].pc \in {"compare", "count"}
          /\ request'[r].user = request[r].user
    <3>1. request \in [Requests -> RequestRecord]
      BY DEF TypeInv, TypeOK
    <3>2. CASE \E right \in BOOLEAN : ComparePassword(r, right)
      BY <3>1, <3>2 DEF ComparePassword, RequestRecord, At
    <3>3. CASE GoogleStrategy(r) \/ ReadPassword(r)
      BY <3>1, <3>3, WhereTo DEF GoogleStrategy, ReadPassword, RequestRecord
    <3>4. CASE \/ \E s \in OAuthStates : DeleteState(r, s)
               \/ StoreAuthCode(r) \/ SavePassword(r)
      BY <3>4, WhereTo DEF DeleteState, StoreAuthCode, SavePassword
    <3> QED  BY <1>3, <3>2, <3>3, <3>4 DEF LogInStep
  <2> QED  BY <2>1, <2>2, <2>3, LockoutStays
<1>4. ASSUME NEW u \in Users, UserStep(u), ~LockoutExpires(u) PROVE LockoutCounts'
  <2>1. UNCHANGED <<failedLogin, failedTtl>> /\ history'.untimed = history.untimed
    BY <1>4 DEF UserStep, CreateUser, DeleteUser, UpdateUser, UnchangedButAccount,
       ForgotPassword, CooldownExpires, OtpExpires, AttemptsExpire,
       TypeInv, TypeOK, History
  <2> QED  BY <1>1, <1>4, <2>1, UserFacts
<1>5. CASE KeyStep
  BY <1>1, <1>5, KeyFacts
<1>6. CASE UNCHANGED vars
  BY <1>1, <1>6
<1> QED
  BY <1>2, <1>3, <1>4, <1>5, <1>6, LockoutArrive, FailureCounted, FailureTimed,
     FailuresCleared, LockoutOver, LockoutGone, StepCases

\* In every state that can be reached the failures are accounted for.
LEMMA AlwaysCounted == Spec => []LockoutCounts
BY AlwaysTyped, InitLockout, LockoutStep, PTL DEF Spec

\* However many logins overlap, the lockout of auth.controller.ts is overrun
\* by no more than the requests that the server handles at a time.
THEOREM FailuresTheorem == Spec => []FailuresBounded
<1>1. TypeInv /\ LockoutCounts => FailuresBounded
  <2> SUFFICES ASSUME TypeInv, LockoutCounts, NEW u \in Users
               PROVE  failedLogin[u] < MaxFailedAttempts + Cardinality(Requests)
    BY DEF FailuresBounded
  <2>1. Trying(u) \in SUBSET Requests
    BY DEF Trying
  <2>2. Cardinality(Trying(u)) \in Nat /\ Cardinality(Requests) \in Nat
    BY <2>1, RequestsCounted
  <2> QED
    BY <2>2, IdentityAssumption DEF LockoutCounts, FewFailures, TypeInv, TypeOK
<1> QED  BY <1>1, AlwaysTyped, AlwaysCounted, PTL

\* A locked account is unlocked by time, unless as many requests as it takes
\* to lock it died between INCR and EXPIRE: auth.controller.ts.
THEOREM LockoutTheorem == Spec => []LockoutIsTimed
<1>1. TypeInv /\ LockoutCounts => LockoutIsTimed
  <2> SUFFICES ASSUME TypeInv, LockoutCounts, NEW u \in Users,
                      failedLogin[u] >= MaxFailedAttempts, u \notin failedTtl,
                      ~ \E r \in Requests : At(r, "expire") /\ request[r].user = u
               PROVE  history.untimed[u] >= MaxFailedAttempts
    BY DEF LockoutIsTimed
  <2>1. Expiring(u) = {}
    BY DEF Expiring
  <2>2. failedLogin[u] <= history.untimed[u] + 0
    BY <2>1, FS_EmptySet DEF LockoutCounts, FailuresTimed
  <2> QED  BY <2>2, IdentityAssumption DEF TypeInv, TypeOK, History
<1> QED  BY <1>1, AlwaysTyped, AlwaysCounted, PTL

-----------------------------------------------------------------------------
(***************************************************************************)
(* Guesses at an OTP and OTPs sent.  What a request has done is either     *)
(* still to be counted by it, or in the counter or the cooldown, or the    *)
(* request died.                                                           *)
(***************************************************************************)
Guessing(u) ==
  {r \in Requests :
     request[r].user = u /\ request[r].pc \in {"attempt", "burn"}}
Storing(u)  == {r \in Requests : request[r].user = u /\ At(r, "store")}
Cooling(u)  == {r \in Requests : request[r].user = u /\ At(r, "coolDown")}

Small(m, n) == IF m < n THEN m ELSE n

\* What the counter has seen of the guesses at the OTP there is: while it may
\* still expire during the life of that OTP, at most one limit.
Counted(u) ==
  Small(otpAttempts[u], MaxOtpAttempts)
    + (IF attemptsTtl[u] \in {-1, otp[u]} THEN MaxOtpAttempts ELSE 0)

GuessesCounted(u) ==
  /\ history.guesses[u] <=
       2 * MaxOtpAttempts + Cardinality(Requests) + history.uncounted[u]
  /\ otp[u] # 0 =>
       history.guesses[u] <=
         Cardinality(Guessing(u)) + Counted(u) + history.uncounted[u]

SendsCounted(u) ==
  IF u \in cooldown
    THEN history.sends[u] + Cardinality(Storing(u)) <=
           Cardinality(Requests) + history.uncooled[u]
    ELSE history.sends[u] <= Cardinality(Cooling(u)) + history.uncooled[u]

OtpsCounted == \A u \in Users : GuessesCounted(u) /\ SendsCounted(u)

GuessesAside(u) ==
  /\ otp'[u] = otp[u] /\ otpAttempts'[u] = otpAttempts[u]
  /\ attemptsTtl'[u] = attemptsTtl[u]
  /\ history'.guesses[u] = history.guesses[u]
  /\ history'.uncounted[u] = history.uncounted[u]

SendsAside(u) ==
  /\ u \in cooldown' <=> u \in cooldown
  /\ history'.sends[u] = history.sends[u]
  /\ history'.uncooled[u] = history.uncooled[u]

OtpPCs == {"store", "coolDown", "attempt", "burn"}

\* The numbers there are.
LEMMA OtpNumbers ==
  ASSUME TypeInv, NEW u \in Users
  PROVE  /\ otp[u] \in Nat /\ otpAttempts[u] \in Nat /\ attemptsTtl[u] \in Nat \cup {-1}
         /\ history.guesses[u] \in Nat /\ history.uncounted[u] \in Nat
         /\ history.sends[u] \in Nat /\ history.uncooled[u] \in Nat
         /\ Guessing(u) \in SUBSET Requests /\ Cardinality(Guessing(u)) \in Nat
         /\ Storing(u) \in SUBSET Requests /\ Cardinality(Storing(u)) \in Nat
         /\ Cooling(u) \in SUBSET Requests /\ Cardinality(Cooling(u)) \in Nat
         /\ Cardinality(Requests) \in Nat
         /\ Cardinality(Guessing(u)) <= Cardinality(Requests)
         /\ Cardinality(Storing(u)) <= Cardinality(Requests)
         /\ MaxOtpAttempts \in Nat \ {0}
<1>1. /\ Guessing(u) \in SUBSET Requests /\ Storing(u) \in SUBSET Requests
      /\ Cooling(u) \in SUBSET Requests
  BY DEF Guessing, Storing, Cooling
<1>2. /\ Cardinality(Guessing(u)) \in Nat /\ Cardinality(Storing(u)) \in Nat
      /\ Cardinality(Cooling(u)) \in Nat /\ Cardinality(Requests) \in Nat
      /\ Cardinality(Guessing(u)) <= Cardinality(Requests)
      /\ Cardinality(Storing(u)) <= Cardinality(Requests)
  BY <1>1, RequestsCounted
<1>3. /\ history.guesses[u] \in Nat /\ history.uncounted[u] \in Nat
      /\ history.sends[u] \in Nat /\ history.uncooled[u] \in Nat
  BY DEF TypeInv, TypeOK, History
<1> QED  BY <1>1, <1>2, <1>3, IdentityAssumption DEF TypeInv, TypeOK

\* Nothing is counted at the start.
LEMMA InitOtpCounts == Init => OtpsCounted
<1> SUFFICES ASSUME Init, NEW u \in Users PROVE GuessesCounted(u) /\ SendsCounted(u)
  BY DEF OtpsCounted
<1>1. TypeInv
  BY InitTypes
<1>2. /\ otp[u] = 0 /\ u \notin cooldown /\ history.guesses[u] = 0
      /\ history.sends[u] = 0
  BY DEF Init
<1> QED  BY <1>1, <1>2, OtpNumbers DEF GuessesCounted, SendsCounted

\* What the others hold in a set of requests stays; r comes, goes or stays.
LEMMA Counting ==
  ASSUME NEW r \in Requests, NEW S \in SUBSET Requests, NEW T \in SUBSET Requests,
         S \ {r} = T \ {r}
  PROVE  /\ r \in S /\ r \in T => Cardinality(T) = Cardinality(S)
         /\ r \in S /\ r \notin T => Cardinality(T) = Cardinality(S) - 1
         /\ r \notin S /\ r \in T => Cardinality(T) = Cardinality(S) + 1
         /\ r \notin S /\ r \notin T => Cardinality(T) = Cardinality(S)
<1>1. CASE r \in S /\ r \notin T
  <2>1. T = S \ {r}
    BY <1>1
  <2> QED  BY <1>1, <2>1, RequestsCounted
<1>2. CASE r \notin S /\ r \in T
  <2>1. T = S \cup {r}
    BY <1>2
  <2> QED  BY <1>2, <2>1, RequestsCounted
<1>3. CASE r \in S <=> r \in T
  <2>1. T = S
    BY <1>3
  <2> QED  BY <1>3, <2>1
<1> QED  BY <1>1, <1>2, <1>3

\* How a step of r alone changes the three numbers of user u.
LEMMA OthersCount ==
  ASSUME TypeInv, TypeInv', NEW r \in Requests, NEW u \in Users,
         \A q \in Requests \ {r} : request'[q] = request[q]
  PROVE  /\ r \in Guessing(u) /\ r \in Guessing(u)'
              => Cardinality(Guessing(u)') = Cardinality(Guessing(u))
         /\ r \in Guessing(u) /\ r \notin Guessing(u)'
              => Cardinality(Guessing(u)') = Cardinality(Guessing(u)) - 1
         /\ r \notin Guessing(u) /\ r \in Guessing(u)'
              => Cardinality(Guessing(u)') = Cardinality(Guessing(u)) + 1
         /\ r \notin Guessing(u) /\ r \notin Guessing(u)'
              => Cardinality(Guessing(u)') = Cardinality(Guessing(u))
         /\ r \in Storing(u) /\ r \notin Storing(u)'
              => Cardinality(Storing(u)') = Cardinality(Storing(u)) - 1
         /\ r \notin Storing(u) /\ r \in Storing(u)'
              => Cardinality(Storing(u)') = Cardinality(Storing(u)) + 1
         /\ r \notin Storing(u) /\ r \notin Storing(u)'
              => Cardinality(Storing(u)') = Cardinality(Storing(u))
         /\ r \in Cooling(u) /\ r \notin Cooling(u)'
              => Cardinality(Cooling(u)') = Cardinality(Cooling(u)) - 1
         /\ r \notin Cooling(u) /\ r \in Cooling(u)'
              => Cardinality(Cooling(u)') = Cardinality(Cooling(u)) + 1
         /\ r \notin Cooling(u) /\ r \notin Cooling(u)'
              => Cardinality(Cooling(u)') = Cardinality(Cooling(u))
<1>1. /\ Guessing(u) \in SUBSET Requests /\ Guessing(u)' \in SUBSET Requests
      /\ Guessing(u) \ {r} = Guessing(u)' \ {r}
  BY DEF Guessing
<1>2. /\ Storing(u) \in SUBSET Requests /\ Storing(u)' \in SUBSET Requests
      /\ Storing(u) \ {r} = Storing(u)' \ {r}
  BY DEF Storing, At
<1>3. /\ Cooling(u) \in SUBSET Requests /\ Cooling(u)' \in SUBSET Requests
      /\ Cooling(u) \ {r} = Cooling(u)' \ {r}
  BY DEF Cooling, At
<1> QED  BY <1>1, <1>2, <1>3, Counting

\* Guesses are counted as before where nothing about them changes ...
LEMMA GuessesStay ==
  ASSUME TypeInv, TypeInv', NEW u \in Users, GuessesCounted(u), GuessesAside(u),
         Cardinality(Guessing(u)') = Cardinality(Guessing(u))
  PROVE  GuessesCounted(u)'
<1>1. Counted(u)' = Counted(u)
  BY DEF GuessesAside, Counted
<1> QED  BY <1>1 DEF GuessesCounted, GuessesAside

\* ... and where the OTP is gone.
LEMMA GuessesOver ==
  ASSUME TypeInv, TypeInv', NEW u \in Users, GuessesCounted(u), otp'[u] = 0,
         history'.guesses[u] = history.guesses[u],
         history'.uncounted[u] = history.uncounted[u]
  PROVE  GuessesCounted(u)'
BY DEF GuessesCounted

LEMMA SendsStay ==
  ASSUME TypeInv, TypeInv', NEW u \in Users, SendsCounted(u), SendsAside(u),
         Cardinality(Storing(u)') = Cardinality(Storing(u)),
         Cardinality(Cooling(u)') = Cardinality(Cooling(u))
  PROVE  SendsCounted(u)'
BY DEF SendsCounted, SendsAside

\* While there is an OTP its bound implies the other one.
LEMMA GuessesLimited ==
  ASSUME TypeInv', NEW u \in Users,
         history'.guesses[u] <=
           Cardinality(Guessing(u)') + Counted(u)' + history'.uncounted[u]
  PROVE  GuessesCounted(u)'
<1>1. /\ otpAttempts'[u] \in Nat /\ history'.guesses[u] \in Nat
      /\ history'.uncounted[u] \in Nat /\ MaxOtpAttempts \in Nat
  BY IdentityAssumption DEF TypeInv, TypeOK, History
<1>2. Counted(u)' \in Nat /\ Counted(u)' <= 2 * MaxOtpAttempts
  BY <1>1 DEF Counted, Small
<1>3. Guessing(u)' \in SUBSET Requests
  BY DEF Guessing
<1>4. /\ Cardinality(Guessing(u)') \in Nat /\ Cardinality(Requests) \in Nat
      /\ Cardinality(Guessing(u)') <= Cardinality(Requests)
  BY <1>3, RequestsCounted
<1> QED  BY <1>1, <1>2, <1>4 DEF GuessesCounted

\* Logins, tokens and keys have nothing to do with OTPs.
LEMMA OtpsUntouched ==
  ASSUME TypeInv, NEW r \in Requests, LogInStep(r) \/ TokenStep(r), NEW u \in Users
  PROVE  /\ GuessesAside(u) /\ SendsAside(u)
         /\ request[r].pc \notin OtpPCs /\ request'[r].pc \notin OtpPCs
<1>0. request \in [Requests -> RequestRecord] /\ history \in History
  BY DEF TypeInv, TypeOK
<1>1. CASE LogInStep(r)
  <2>1. UNCHANGED otpVars /\ request[r].pc \notin OtpPCs
    BY <1>1 DEF LogInStep, ComparePassword, CountFailure, ExpireFailures,
         ClearFailures, DeleteState, GoogleStrategy, StoreAuthCode, ReadPassword,
         SavePassword, At, OtpPCs
  <2>2. /\ history'.guesses = history.guesses /\ history'.uncounted = history.uncounted
        /\ history'.sends = history.sends /\ history'.uncooled = history.uncooled
    BY <1>0, <1>1 DEF LogInStep, ComparePassword, CountFailure, ExpireFailures,
         ClearFailures, DeleteState, GoogleStrategy, StoreAuthCode, ReadPassword,
         SavePassword, History
  <2>3. CASE \/ \E right \in BOOLEAN : ComparePassword(r, right)
             \/ GoogleStrategy(r) \/ ReadPassword(r)
    <3>1. CASE Finish(r)
      BY <2>1, <2>2, <3>1, WhereTo DEF GuessesAside, SendsAside, OtpPCs
    <3>2. CASE \E right \in BOOLEAN : ComparePassword(r, right)
      <4>1. request'[r].pc \in {"clear", "count"}
        BY <1>0, <3>2 DEF ComparePassword, RequestRecord
      <4> QED  BY <2>1, <2>2, <4>1 DEF GuessesAside, SendsAside, OtpPCs
    <3>3. CASE GoogleStrategy(r) /\ ~Finish(r)
      <4>1. request'[r].pc = "issue"
        BY <1>0, <3>3 DEF GoogleStrategy, RequestRecord
      <4> QED  BY <2>1, <2>2, <4>1 DEF GuessesAside, SendsAside, OtpPCs
    <3>4. CASE ReadPassword(r) /\ ~Finish(r)
      <4>1. request'[r].pc = "save"
        BY <1>0, <3>4 DEF ReadPassword, RequestRecord
      <4> QED  BY <2>1, <2>2, <4>1 DEF GuessesAside, SendsAside, OtpPCs
    <3> QED  BY <2>3, <3>1, <3>2, <3>3, <3>4
  <2>4. CASE \/ CountFailure(r) \/ ExpireFailures(r) \/ ClearFailures(r)
             \/ \E s \in OAuthStates : DeleteState(r, s)
             \/ StoreAuthCode(r) \/ SavePassword(r)
    <3>1. request'[r].pc \in {"expire", "idle", "issue", "profile", "invalidate"}
      BY <2>4, WhereTo DEF CountFailure, ExpireFailures, ClearFailures, DeleteState,
                           StoreAuthCode, SavePassword
    <3> QED  BY <2>1, <2>2, <3>1 DEF GuessesAside, SendsAside, OtpPCs
  <2> QED  BY <1>1, <2>3, <2>4 DEF LogInStep
<1>2. CASE TokenStep(r)
  <2>1. UNCHANGED otpVars /\ request[r].pc \notin OtpPCs
    BY <1>2 DEF TokenStep, InvalidateToken, LookUpUser, DropOldSession, ScanSessions,
         CreateUserTokens, Rotate, DeleteSession, RevokeRefreshSession, At, OtpPCs
  <2>2. /\ history'.guesses = history.guesses /\ history'.uncounted = history.uncounted
        /\ history'.sends = history.sends /\ history'.uncooled = history.uncooled
    BY <1>0, <1>2 DEF TokenStep, InvalidateToken, LookUpUser, DropOldSession,
         ScanSessions, CreateUserTokens, Rotate, DeleteSession, RevokeRefreshSession,
         History
  <2>3. request'[r].pc \notin OtpPCs
    <3>0. CASE Finish(r)
      BY <3>0, WhereTo DEF OtpPCs
    <3>4. CASE ScanSessions(r) /\ ~Finish(r)
      BY <1>0, <3>4 DEF ScanSessions, RequestRecord, OtpPCs
    <3>5. CASE (\E j \in Jtis : CreateUserTokens(r, j)) /\ ~Finish(r)
      BY <1>0, <3>5 DEF CreateUserTokens, RequestRecord, OtpPCs
    <3>2. CASE \E j \in Jtis : DeleteSession(r, j)
      BY <1>0, <3>2, WhereTo DEF DeleteSession, At, RequestRecord, OtpPCs
    <3>3. CASE \/ InvalidateToken(r) \/ LookUpUser(r) \/ DropOldSession(r)
               \/ RevokeRefreshSession(r) \/ \E j \in Jtis : Rotate(r, j)
      BY <3>3, WhereTo DEF InvalidateToken, LookUpUser, DropOldSession,
                           RevokeRefreshSession, Rotate, OtpPCs
    <3> QED  BY <1>2, <3>0, <3>2, <3>3, <3>4, <3>5 DEF TokenStep
  <2> QED  BY <2>1, <2>2, <2>3 DEF GuessesAside, SendsAside
<1> QED  BY <1>1, <1>2

\* A request that is at none of the four places is counted nowhere.
LEMMA OtpsElsewhere ==
  ASSUME TypeInv, TypeInv', OtpsCounted, NEW r \in Requests,
         \A q \in Requests \ {r} : request'[q] = request[q],
         request[r].pc \notin OtpPCs, request'[r].pc \notin OtpPCs,
         NEW u \in Users
  PROVE  /\ GuessesAside(u) => GuessesCounted(u)'
         /\ SendsAside(u) => SendsCounted(u)'
<1>1. /\ r \notin Guessing(u) /\ r \notin Guessing(u)'
      /\ r \notin Storing(u) /\ r \notin Storing(u)'
      /\ r \notin Cooling(u) /\ r \notin Cooling(u)'
  BY DEF Guessing, Storing, Cooling, At, OtpPCs
<1> QED  BY <1>1, OthersCount, GuessesStay, SendsStay DEF OtpsCounted

\* A wrong guess is counted by the request that made it.
LEMMA GuessMade ==
  ASSUME TypeInv, TypeInv', OtpsCounted, NEW r \in Requests,
         NEW v \in Users, NEW right \in BOOLEAN, VerifyOtp(r, v, right)
  PROVE  OtpsCounted'
<1>1. \A q \in Requests \ {r} : request'[q] = request[q]
  BY OneRequest DEF Arrive
<1>2. /\ request[r].pc = "idle" /\ otp[v] # 0 /\ UNCHANGED otpVars
      /\ request'[r].pc = (IF right THEN "consume" ELSE "attempt")
      /\ request'[r].user = v
  <2> PICK rec : rec = [Idle EXCEPT !.pc = IF right THEN "consume" ELSE "attempt",
                           !.user = v, !.otp = otp[v]]
    OBVIOUS
  <2>0. otp[v] \in Nat
    BY OtpNumbers
  <2>1. /\ rec \in RequestRecord /\ rec.user = v
        /\ rec.pc = (IF right THEN "consume" ELSE "attempt")
    BY <2>0 DEF Idle, RequestRecord, PCs
  <2>2. Begin(r, "verifyOtp", rec)
    BY DEF VerifyOtp
  <2>3. request[r].pc = "idle" /\ otp[v] # 0 /\ UNCHANGED otpVars
    BY DEF VerifyOtp, Begin, At
  <2> QED  BY <2>1, <2>2, <2>3, Began
<1>3. /\ history'.uncounted = history.uncounted
      /\ history'.sends = history.sends /\ history'.uncooled = history.uncooled
      /\ history'.guesses = IF right THEN history.guesses
                                     ELSE [history.guesses EXCEPT ![v] = @ + 1]
  BY DEF VerifyOtp, TypeInv, TypeOK, History
<1> SUFFICES ASSUME NEW u \in Users PROVE GuessesCounted(u)' /\ SendsCounted(u)'
  BY DEF OtpsCounted
<1>4. GuessesCounted(u) /\ SendsCounted(u)
  BY DEF OtpsCounted
<1>5. SendsCounted(u)'
  <2>1. /\ r \notin Storing(u) /\ r \notin Storing(u)'
        /\ r \notin Cooling(u) /\ r \notin Cooling(u)'
    BY <1>2 DEF Storing, Cooling, At
  <2>2. SendsAside(u)
    BY <1>2, <1>3 DEF SendsAside
  <2> QED  BY <1>1, <1>4, <2>1, <2>2, OthersCount, SendsStay
<1>6. CASE right \/ u # v
  <2>1. r \notin Guessing(u) /\ r \notin Guessing(u)'
    BY <1>2, <1>6 DEF Guessing
  <2>2. GuessesAside(u)
    BY <1>2, <1>3, <1>6 DEF GuessesAside, TypeInv, TypeOK, History
  <2> QED  BY <1>1, <1>4, <1>5, <2>1, <2>2, OthersCount, GuessesStay
<1>7. CASE ~right /\ u = v
  <2>1. r \notin Guessing(u) /\ r \in Guessing(u)'
    BY <1>2, <1>7 DEF Guessing
  <2>2. Cardinality(Guessing(u)') = Cardinality(Guessing(u)) + 1
    BY <1>1, <2>1, OthersCount
  <2>3. Counted(u)' = Counted(u)
    BY <1>2 DEF Counted
  <2>4. history'.guesses[u] = history.guesses[u] + 1
    BY <1>3, <1>7 DEF TypeInv, TypeOK, History
  <2>5. history.guesses[u] <=
          Cardinality(Guessing(u)) + Counted(u) + history.uncounted[u]
    BY <1>2, <1>4, <1>7 DEF GuessesCounted
  <2>6. Counted(u) \in Nat
    BY OtpNumbers DEF Counted, Small
  <2>7. history'.guesses[u] <=
          Cardinality(Guessing(u)') + Counted(u)' + history'.uncounted[u]
    BY <1>3, <2>2, <2>3, <2>4, <2>5, <2>6, OtpNumbers
  <2>8. GuessesCounted(u)'
    BY <2>7, GuessesLimited
  <2> QED  BY <1>5, <2>8
<1> QED  BY <1>6, <1>7

\* A request begins with the label it is given.
LEMMA BeganAt ==
  ASSUME TypeInv, NEW r \in Requests, NEW op, NEW label, NEW t, NEW v,
         \/ Begin(r, op, [Idle EXCEPT !.pc = label, !.user = v])
         \/ Begin(r, op, [Idle EXCEPT !.pc = label, !.token = t, !.user = v])
  PROVE  request'[r].pc = label
BY DEF Begin, Idle, TypeInv, TypeOK

\* Other requests that arrive have not guessed; one may be about to store.
LEMMA OtpsArriving ==
  ASSUME TypeInv, TypeInv', OtpsCounted, NEW r \in Requests, Arrive(r)
  PROVE  OtpsCounted'
<1>1. \A q \in Requests \ {r} : request'[q] = request[q]
  BY OneRequest
<1>2. CASE \E v \in Users, right \in BOOLEAN : VerifyOtp(r, v, right)
  BY <1>2, GuessMade
<1>3. ASSUME NEW v \in Users, SendOtp(r, v)
      PROVE  OtpsCounted'
  <2>1. /\ request[r].pc = "idle" /\ request'[r].pc = "store"
        /\ request'[r].user = v /\ v \notin cooldown
    <3> PICK rec : rec = [Idle EXCEPT !.pc = "store", !.user = v]
      OBVIOUS
    <3>1. rec \in RequestRecord /\ rec.pc = "store" /\ rec.user = v
      BY DEF Idle, RequestRecord, PCs
    <3>2. Begin(r, "sendOtp", rec)
      BY <1>3 DEF SendOtp
    <3>3. request[r].pc = "idle" /\ v \notin cooldown
      BY <1>3 DEF SendOtp, Begin, At
    <3> QED  BY <3>1, <3>2, <3>3, Began
  <2> SUFFICES ASSUME NEW u \in Users PROVE GuessesCounted(u)' /\ SendsCounted(u)'
    BY DEF OtpsCounted
  <2>2. GuessesAside(u) /\ SendsAside(u) /\ GuessesCounted(u) /\ SendsCounted(u)
    BY <1>3 DEF SendOtp, GuessesAside, SendsAside, OtpsCounted
  <2>3. /\ r \notin Guessing(u) /\ r \notin Guessing(u)'
        /\ r \notin Cooling(u) /\ r \notin Cooling(u)'
        /\ u # v => r \notin Storing(u) /\ r \notin Storing(u)'
    BY <2>1 DEF Guessing, Cooling, Storing, At
  <2>4. GuessesCounted(u)'
    BY <1>1, <2>2, <2>3, OthersCount, GuessesStay
  <2>5. CASE u # v
    BY <1>1, <2>2, <2>3, <2>4, <2>5, OthersCount, SendsStay
  <2>6. CASE u = v
    BY <1>1, <2>1, <2>2, <2>3, <2>4, <2>6, OthersCount DEF SendsCounted, SendsAside
  <2> QED  BY <2>5, <2>6
<1>4. CASE \/ \E u \in Users : LogIn(r, u)
           \/ \E u \in Users, s \in OAuthStates : GoogleCallback(r, u, s)
           \/ \E j \in Jtis :
                \/ CreateNewAccessToken(r, j) \/ LogOut(r, j)
                \/ \E op \in {"changePassword", "setPassword"} :
                     Authenticate(r, op, "session", j)
                \/ Authenticate(r, "resetPassword", "reset", j)
  <2>0. UNCHANGED otpVars /\ At(r, "idle")
    BY <1>4 DEF LogIn, GoogleCallback, CreateNewAccessToken, LogOut, Authenticate,
                Begin
  <2>6. history' = history \/ history' = [history EXCEPT !.racing = @ \cup {r}]
    BY <1>4 DEF LogIn, GoogleCallback, CreateNewAccessToken, LogOut, Authenticate
  <2>1. /\ UNCHANGED otpVars /\ At(r, "idle")
        /\ history'.guesses = history.guesses /\ history'.uncounted = history.uncounted
        /\ history'.sends = history.sends /\ history'.uncooled = history.uncooled
    BY <2>0, <2>6 DEF TypeInv, TypeOK, History
  <2>3. request'[r].pc \in {"compare", "callback", "lookup", "scan", "invalidate", "handle"}
    BY <1>4, BeganAt DEF LogIn, GoogleCallback, CreateNewAccessToken, LogOut,
                         Authenticate
  <2>4. request[r].pc \notin OtpPCs /\ request'[r].pc \notin OtpPCs
    BY <2>1, <2>3 DEF At, OtpPCs
  <2>5. \A u \in Users : GuessesAside(u) /\ SendsAside(u)
    BY <2>1 DEF GuessesAside, SendsAside
  <2> QED  BY <1>1, <2>4, <2>5, OtpsElsewhere DEF OtpsCounted
<1> QED  BY <1>2, <1>3, <1>4 DEF Arrive

\* A new OTP: nobody has guessed at it, and it is one more that was sent.
LEMMA OtpSent ==
  ASSUME TypeInv, TypeInv', OtpsCounted, NEW r \in Requests, StoreOtp(r)
  PROVE  OtpsCounted'
<1>1. \A q \in Requests \ {r} : request'[q] = request[q]
  BY OneRequest DEF OtpStep
<1> PICK v : v = request[r].user
  OBVIOUS
<1>2. /\ v \in Users /\ request[r].pc = "store" /\ request'[r].pc = "coolDown"
      /\ request'[r].user = v
  BY WhereTo DEF StoreOtp, At, TypeInv, RequestsKnown, RequestKnown
<1>3. /\ history'.guesses = [history.guesses EXCEPT ![v] = 0]
      /\ history'.uncounted = [history.uncounted EXCEPT ![v] = 0]
      /\ history'.sends = [history.sends EXCEPT ![v] = @ + 1]
      /\ history'.uncooled = history.uncooled
      /\ cooldown' = cooldown
  BY DEF StoreOtp, TypeInv, TypeOK, History
<1> SUFFICES ASSUME NEW u \in Users PROVE GuessesCounted(u)' /\ SendsCounted(u)'
  BY DEF OtpsCounted
<1>4. GuessesCounted(u) /\ SendsCounted(u)
  BY DEF OtpsCounted
<1>5. r \notin Guessing(u) /\ r \notin Guessing(u)'
  BY <1>2 DEF Guessing
<1>6. CASE u # v
  <2>1. GuessesAside(u) /\ SendsAside(u)
    <3>1. /\ otp'[u] = otp[u] /\ otpAttempts' = otpAttempts
          /\ attemptsTtl' = attemptsTtl
      BY <1>6 DEF StoreOtp, TypeInv, TypeOK
    <3>2. /\ history'.guesses[u] = history.guesses[u]
          /\ history'.uncounted[u] = history.uncounted[u]
          /\ history'.sends[u] = history.sends[u]
      BY <1>3, <1>6 DEF TypeInv, TypeOK, History
    <3> QED  BY <1>3, <3>1, <3>2 DEF GuessesAside, SendsAside
  <2>2. /\ r \notin Storing(u) /\ r \notin Storing(u)'
        /\ r \notin Cooling(u) /\ r \notin Cooling(u)'
    BY <1>2, <1>6 DEF Storing, Cooling
  <2> QED  BY <1>1, <1>4, <1>5, <2>1, <2>2, OthersCount, GuessesStay, SendsStay
<1>7. CASE u = v
  <2>1. history'.guesses[u] = 0
    BY <1>2, <1>3, <1>7 DEF TypeInv, TypeOK, History
  <2>2. Counted(u)' \in Nat
    BY OtpNumbers, IdentityAssumption DEF Counted, Small, TypeInv, TypeOK
  <2>3. /\ Cardinality(Guessing(u)') \in Nat /\ history'.uncounted[u] \in Nat
        /\ Cardinality(Storing(u)) \in Nat /\ Cardinality(Cooling(u)) \in Nat
        /\ history.sends[u] \in Nat /\ history.uncooled[u] \in Nat
        /\ Cardinality(Requests) \in Nat
    <3>1. Guessing(u)' \in SUBSET Requests
      BY DEF Guessing
    <3> QED  BY <3>1, RequestsCounted, OtpNumbers DEF TypeInv, TypeOK, History
  <2>4. GuessesCounted(u)'
    <3>1. history'.guesses[u] <=
            Cardinality(Guessing(u)') + Counted(u)' + history'.uncounted[u]
      BY <2>1, <2>2, <2>3
    <3> QED  BY <3>1, GuessesLimited
  <2>5. /\ r \in Storing(u) /\ r \notin Storing(u)'
        /\ r \notin Cooling(u) /\ r \in Cooling(u)'
    BY <1>2, <1>7 DEF Storing, Cooling, At
  <2>6. /\ Cardinality(Storing(u)') = Cardinality(Storing(u)) - 1
        /\ Cardinality(Cooling(u)') = Cardinality(Cooling(u)) + 1
    BY <1>1, <2>5, OthersCount
  <2>7. history'.sends[u] = history.sends[u] + 1
    BY <1>2, <1>3, <1>7 DEF TypeInv, TypeOK, History
  <2>8. SendsCounted(u)'
    BY <1>3, <1>4, <2>3, <2>6, <2>7 DEF SendsCounted
  <2> QED  BY <2>4, <2>8
<1> QED  BY <1>6, <1>7

\* The cooldown begins: who is about to store, and r, are still to come.
LEMMA Cooled ==
  ASSUME TypeInv, TypeInv', OtpsCounted, NEW r \in Requests, StartCooldown(r)
  PROVE  OtpsCounted'
<1>1. \A q \in Requests \ {r} : request'[q] = request[q]
  BY OneRequest DEF OtpStep
<1> PICK v : v = request[r].user
  OBVIOUS
<1>2. /\ v \in Users /\ request[r].pc = "coolDown" /\ request'[r].pc = "idle"
      /\ cooldown' = cooldown \cup {v}
  BY WhereTo DEF StartCooldown, At, TypeInv, RequestsKnown, RequestKnown
<1> SUFFICES ASSUME NEW u \in Users PROVE GuessesCounted(u)' /\ SendsCounted(u)'
  BY DEF OtpsCounted
<1>3. GuessesCounted(u) /\ SendsCounted(u)
  BY DEF OtpsCounted
<1>4. /\ r \notin Guessing(u) /\ r \notin Guessing(u)'
      /\ r \notin Storing(u) /\ r \notin Storing(u)'
      /\ u # v => r \notin Cooling(u) /\ r \notin Cooling(u)'
  BY <1>2 DEF Guessing, Storing, Cooling, At
<1>5. GuessesCounted(u)'
  <2>1. GuessesAside(u)
    BY DEF StartCooldown, GuessesAside
  <2> QED  BY <1>1, <1>3, <1>4, <2>1, OthersCount, GuessesStay
<1>6. Cardinality(Storing(u)') = Cardinality(Storing(u))
  BY <1>1, <1>4, OthersCount
<1>7. CASE u # v
  <2>1. SendsAside(u)
    BY <1>2, <1>7 DEF StartCooldown, SendsAside
  <2> QED  BY <1>1, <1>3, <1>4, <1>5, <1>7, <2>1, OthersCount, SendsStay
<1>8. CASE u = v
  <2>1. /\ Storing(u) \in SUBSET Requests /\ Cooling(u) \in SUBSET Requests
        /\ Storing(u) \cap Cooling(u) = {}
    BY DEF Storing, Cooling, At
  <2>2. Cardinality(Storing(u)) + Cardinality(Cooling(u)) <= Cardinality(Requests)
    <3>1. IsFiniteSet(Storing(u)) /\ IsFiniteSet(Cooling(u))
      BY <2>1, RequestsCounted
    <3>2. Cardinality(Storing(u) \cup Cooling(u)) =
            Cardinality(Storing(u)) + Cardinality(Cooling(u))
      BY <2>1, <3>1, FS_EmptySet, FS_Union, OtpNumbers
    <3>3. Storing(u) \cup Cooling(u) \in SUBSET Requests
      BY <2>1
    <3> QED  BY <3>2, <3>3, RequestsCounted
  <2>3. /\ history'.sends[u] = history.sends[u]
        /\ history'.uncooled[u] = history.uncooled[u] /\ u \in cooldown'
    BY <1>2, <1>8 DEF StartCooldown
  <2>4. SendsCounted(u)'
    BY <1>3, <1>6, <2>2, <2>3, OtpNumbers DEF SendsCounted
  <2> QED  BY <1>5, <2>4
<1> QED  BY <1>7, <1>8

\* The counter takes over what the request has guessed, up to the limit;
\* beyond it the request goes on to take the OTP away.
LEMMA GuessCounted ==
  ASSUME TypeInv, TypeInv', OtpsCounted, NEW r \in Requests, CountAttempt(r)
  PROVE  OtpsCounted'
<1>1. \A q \in Requests \ {r} : request'[q] = request[q]
  BY OneRequest DEF OtpStep
<1> PICK v : v = request[r].user
  OBVIOUS
<1>2. /\ v \in Users /\ request[r].pc = "attempt"
      /\ otpAttempts' = [otpAttempts EXCEPT ![v] = @ + 1]
      /\ UNCHANGED <<otp, attemptsTtl, cooldown, history>>
  BY DEF CountAttempt, At, TypeInv, RequestsKnown, RequestKnown
<1>3. CASE otpAttempts[v] >= MaxOtpAttempts
  <2>1. Goto(r, "burn")
    <3>1. otpAttempts[v] # 0
      BY <1>2, <1>3, OtpNumbers
    <3> QED  BY <1>3, <3>1 DEF CountAttempt
  <2>2. request'[r].pc = "burn" /\ request'[r].user = v
    BY <2>1, WhereTo
  <2> SUFFICES ASSUME NEW u \in Users PROVE GuessesCounted(u)' /\ SendsCounted(u)'
    BY DEF OtpsCounted
  <2>3. GuessesCounted(u) /\ SendsCounted(u)
    BY DEF OtpsCounted
  <2>4. /\ r \in Guessing(u) <=> r \in Guessing(u)'
        /\ r \notin Storing(u) /\ r \notin Storing(u)'
        /\ r \notin Cooling(u) /\ r \notin Cooling(u)'
    BY <1>2, <2>2 DEF Guessing, Storing, Cooling, At
  <2>5. SendsCounted(u)'
    BY <1>1, <1>2, <2>3, <2>4, OthersCount, SendsStay DEF SendsAside
  <2>6. Cardinality(Guessing(u)') = Cardinality(Guessing(u))
    BY <1>1, <2>4, OthersCount
  <2>7. Counted(u)' = Counted(u)
    <3>1. otpAttempts'[u] = (IF u = v THEN otpAttempts[v] + 1 ELSE otpAttempts[u])
      BY <1>2 DEF TypeInv, TypeOK
    <3>2. Small(otpAttempts[u], MaxOtpAttempts)' = Small(otpAttempts[u], MaxOtpAttempts)
      BY <1>3, <3>1, OtpNumbers DEF Small
    <3> QED  BY <1>2, <3>2 DEF Counted
  <2>8. GuessesCounted(u)'
    BY <1>2, <2>3, <2>6, <2>7 DEF GuessesCounted
  <2> QED  BY <2>5, <2>8
<1>4. CASE otpAttempts[v] < MaxOtpAttempts
  <2>1. request'[r].pc \in {"arm", "idle"}
    <3>1. Goto(r, "arm") \/ Finish(r)
      <4>1. ~(otpAttempts[v] >= MaxOtpAttempts)
        BY <1>2, <1>4, OtpNumbers
      <4>2. CASE otpAttempts[v] = 0
        BY <4>1, <4>2 DEF CountAttempt
      <4>3. CASE otpAttempts[v] # 0
        BY <4>1, <4>3 DEF CountAttempt
      <4> QED  BY <4>2, <4>3
    <3> QED  BY <3>1, WhereTo
  <2> SUFFICES ASSUME NEW u \in Users PROVE GuessesCounted(u)' /\ SendsCounted(u)'
    BY DEF OtpsCounted
  <2>3. GuessesCounted(u) /\ SendsCounted(u)
    BY DEF OtpsCounted
  <2>4. /\ r \notin Guessing(u)' /\ (r \in Guessing(u) <=> u = v)
        /\ r \notin Storing(u) /\ r \notin Storing(u)'
        /\ r \notin Cooling(u) /\ r \notin Cooling(u)'
    BY <1>2, <2>1 DEF Guessing, Storing, Cooling, At
  <2>5. SendsCounted(u)'
    BY <1>1, <1>2, <2>3, <2>4, OthersCount, SendsStay DEF SendsAside
  <2>6. CASE u # v
    <3>1. GuessesAside(u)
      BY <1>2, <2>6 DEF GuessesAside
    <3> QED  BY <1>1, <2>3, <2>4, <2>5, <2>6, <3>1, OthersCount, GuessesStay
  <2>7. CASE u = v
    <3>1. Cardinality(Guessing(u)') = Cardinality(Guessing(u)) - 1
      BY <1>1, <2>4, <2>7, OthersCount
    <3>2. Counted(u)' = Counted(u) + 1
      <4>1. otpAttempts'[u] = otpAttempts[u] + 1
        BY <1>2, <2>7 DEF TypeInv, TypeOK
      <4>2. Small(otpAttempts[u], MaxOtpAttempts)' = Small(otpAttempts[u], MaxOtpAttempts) + 1
        BY <1>4, <2>7, <4>1, OtpNumbers DEF Small
      <4>3. Small(otpAttempts[u], MaxOtpAttempts) \in Nat
        BY OtpNumbers DEF Small
      <4> QED  BY <1>2, <4>2, <4>3, OtpNumbers DEF Counted
    <3>3. Counted(u) \in Nat
      BY OtpNumbers DEF Counted, Small
    <3>4. Cardinality(Guessing(u)') + Counted(u)' = Cardinality(Guessing(u)) + Counted(u)
      BY <3>1, <3>2, <3>3, OtpNumbers
    <3>5. GuessesCounted(u)'
      BY <1>2, <2>3, <3>4 DEF GuessesCounted
    <3> QED  BY <2>5, <3>5
  <2> QED  BY <2>6, <2>7
<1> QED  BY <1>2, <1>3, <1>4, OtpNumbers

\* The counter gets its time to live with the OTP there is, if any.
LEMMA AttemptsArmed ==
  ASSUME TypeInv, TypeInv', OtpsCounted, NEW r \in Requests, ArmAttempts(r)
  PROVE  OtpsCounted'
<1>1. \A q \in Requests \ {r} : request'[q] = request[q]
  BY OneRequest DEF OtpStep
<1>2. request[r].pc = "arm" /\ request'[r].pc = "idle" /\ request[r].user \in Users
  BY WhereTo DEF ArmAttempts, At, TypeInv, RequestsKnown, RequestKnown
<1>3. /\ UNCHANGED <<otp, otpAttempts, cooldown, history>>
      /\ \A u \in Users : attemptsTtl'[u] \in {attemptsTtl[u], otp[u]}
  BY <1>2 DEF ArmAttempts, TypeInv, TypeOK
<1> SUFFICES ASSUME NEW u \in Users PROVE GuessesCounted(u)' /\ SendsCounted(u)'
  BY DEF OtpsCounted
<1>4. GuessesCounted(u) /\ SendsCounted(u)
  BY DEF OtpsCounted
<1>5. request[r].pc \notin OtpPCs /\ request'[r].pc \notin OtpPCs
  BY <1>2 DEF OtpPCs
<1>6. SendsCounted(u)'
  BY <1>1, <1>3, <1>5, OtpsElsewhere DEF SendsAside
<1>7. Cardinality(Guessing(u)') = Cardinality(Guessing(u))
  <2>1. r \notin Guessing(u) /\ r \notin Guessing(u)'
    BY <1>5 DEF Guessing, OtpPCs
  <2> QED  BY <1>1, <2>1, OthersCount
<1>8. Counted(u) <= Counted(u)' /\ Counted(u) \in Nat /\ Counted(u)' \in Nat
  <2>1. attemptsTtl[u] \in {-1, otp[u]} => attemptsTtl'[u] \in {-1, otp'[u]}
    BY <1>3
  <2>2. Small(otpAttempts[u], MaxOtpAttempts)' = Small(otpAttempts[u], MaxOtpAttempts)
        /\ Small(otpAttempts[u], MaxOtpAttempts) \in Nat
    BY <1>3, OtpNumbers DEF Small
  <2> QED  BY <2>1, <2>2, OtpNumbers DEF Counted
<1>9. GuessesCounted(u)'
  BY <1>3, <1>4, <1>7, <1>8, OtpNumbers DEF GuessesCounted
<1> QED  BY <1>6, <1>9

\* An OTP that is taken away or consumed cannot be guessed any more.
LEMMA OtpTaken ==
  ASSUME TypeInv, TypeInv', OtpsCounted, NEW r \in Requests, BurnOtp(r) \/ ConsumeOtp(r)
  PROVE  OtpsCounted'
<1>1. \A q \in Requests \ {r} : request'[q] = request[q]
  BY OneRequest DEF OtpStep
<1> PICK v : v = request[r].user
  OBVIOUS
<1>2. /\ v \in Users /\ request[r].pc \in {"burn", "consume"}
      /\ request'[r].pc \in {"idle", "verify"}
      /\ otp'[v] = 0 /\ UNCHANGED <<cooldown, history>>
      /\ \A u \in Users \ {v} : otp'[u] = otp[u] /\ otpAttempts'[u] = otpAttempts[u]
                                /\ attemptsTtl'[u] = attemptsTtl[u]
  BY WhereTo DEF BurnOtp, ConsumeOtp, DeleteOtp, At, TypeInv, TypeOK, RequestsKnown,
                 RequestKnown
<1> SUFFICES ASSUME NEW u \in Users PROVE GuessesCounted(u)' /\ SendsCounted(u)'
  BY DEF OtpsCounted
<1>3. GuessesCounted(u) /\ SendsCounted(u)
  BY DEF OtpsCounted
<1>4. /\ r \notin Storing(u) /\ r \notin Storing(u)'
      /\ r \notin Cooling(u) /\ r \notin Cooling(u)'
      /\ u # v => r \notin Guessing(u) /\ r \notin Guessing(u)'
  BY <1>2 DEF Guessing, Storing, Cooling, At
<1>5. SendsCounted(u)'
  BY <1>1, <1>2, <1>3, <1>4, OthersCount, SendsStay DEF SendsAside
<1>6. CASE u = v
  BY <1>2, <1>3, <1>5, <1>6, GuessesOver
<1>7. CASE u # v
  <2>1. GuessesAside(u)
    BY <1>2, <1>7 DEF GuessesAside
  <2> QED  BY <1>1, <1>3, <1>4, <1>5, <1>7, <2>1, OthersCount, GuessesStay
<1> QED  BY <1>6, <1>7

\* A request that dies with a guess or before a cooldown is remembered.
LEMMA OtpsGone ==
  ASSUME TypeInv, TypeInv', OtpsCounted, NEW r \in Requests, Gone(r)
  PROVE  OtpsCounted'
<1>1. \A q \in Requests \ {r} : request'[q] = request[q]
  BY OneRequest
<1> PICK v : v = request[r].user
  OBVIOUS
<1>2. UNCHANGED otpVars /\ request'[r].pc = "idle"
  BY GoneFacts DEF Gone, Abandon
<1>3. /\ v \in Users
      /\ history'.guesses = history.guesses /\ history'.sends = history.sends
      /\ history'.uncooled =
           IF At(r, "coolDown") THEN [history.uncooled EXCEPT ![v] = @ + 1]
                                ELSE history.uncooled
      /\ history'.uncounted =
           IF request[r].pc \in {"attempt", "burn"}
             THEN [history.uncounted EXCEPT ![v] = @ + 1]
             ELSE history.uncounted
  BY Forgotten DEF Gone
<1> SUFFICES ASSUME NEW u \in Users PROVE GuessesCounted(u)' /\ SendsCounted(u)'
  BY DEF OtpsCounted
<1>4. GuessesCounted(u) /\ SendsCounted(u)
  BY DEF OtpsCounted
<1>5. /\ r \notin Guessing(u)' /\ r \notin Storing(u)' /\ r \notin Cooling(u)'
  BY <1>2 DEF Guessing, Storing, Cooling, At
<1>6. GuessesCounted(u)'
  <2>1. CASE r \in Guessing(u)
    <3>1. history'.uncounted[u] = history.uncounted[u] + 1
      BY <1>3, <2>1 DEF Guessing, TypeInv, TypeOK, History
    <3>2. Cardinality(Guessing(u)') = Cardinality(Guessing(u)) - 1
      BY <1>1, <1>5, <2>1, OthersCount
    <3>3. Counted(u)' = Counted(u) /\ Counted(u) \in Nat
      BY <1>2, OtpNumbers DEF Counted, Small
    <3> QED  BY <1>2, <1>3, <1>4, <3>1, <3>2, <3>3, OtpNumbers DEF GuessesCounted
  <2>2. CASE r \notin Guessing(u)
    <3>1. history'.uncounted[u] = history.uncounted[u]
      BY <1>3, <2>2 DEF Guessing, TypeInv, TypeOK, History
    <3>2. GuessesAside(u)
      BY <1>2, <1>3, <3>1 DEF GuessesAside
    <3> QED  BY <1>1, <1>4, <1>5, <2>2, <3>2, OthersCount, GuessesStay
  <2> QED  BY <2>1, <2>2
<1>7. SendsCounted(u)'
  <2>1. CASE r \in Cooling(u)
    <3>1. history'.uncooled[u] = history.uncooled[u] + 1 /\ r \notin Storing(u)
      BY <1>3, <2>1 DEF Cooling, Storing, At, TypeInv, TypeOK, History
    <3>2. /\ Cardinality(Cooling(u)') = Cardinality(Cooling(u)) - 1
          /\ Cardinality(Storing(u)') = Cardinality(Storing(u))
      BY <1>1, <1>5, <2>1, <3>1, OthersCount
    <3> QED  BY <1>2, <1>3, <1>4, <3>1, <3>2, OtpNumbers DEF SendsCounted
  <2>2. CASE r \notin Cooling(u)
    <3>1. history'.uncooled[u] = history.uncooled[u]
      BY <1>3, <2>2 DEF Cooling, At, TypeInv, TypeOK, History
    <3>2. Cardinality(Cooling(u)') = Cardinality(Cooling(u))
      BY <1>1, <1>5, <2>2, OthersCount
    <3>3. Cardinality(Storing(u)') <= Cardinality(Storing(u))
          /\ Cardinality(Storing(u)') \in Nat
      <4>1. /\ Storing(u)' \in SUBSET Requests
            /\ Cardinality(Storing(u)) \in Nat
        BY OtpNumbers DEF Storing
      <4>2. Cardinality(Storing(u)') \in Nat
        BY <4>1, RequestsCounted
      <4>3. \/ Cardinality(Storing(u)') = Cardinality(Storing(u)) - 1
            \/ Cardinality(Storing(u)') = Cardinality(Storing(u))
        BY <1>1, <1>5, OthersCount
      <4> QED  BY <4>1, <4>2, <4>3
    <3> QED  BY <1>2, <1>3, <1>4, <3>1, <3>2, <3>3, OtpNumbers DEF SendsCounted
  <2> QED  BY <2>1, <2>2
<1> QED  BY <1>6, <1>7

\* Clocks: a cooldown ends, an OTP or its counter expires.
LEMMA OtpClocks ==
  ASSUME TypeInv, TypeInv', OtpsCounted, NEW v \in Users, UserStep(v)
  PROVE  OtpsCounted'
<1>1. request' = request
  BY UserFacts
<1> SUFFICES ASSUME NEW u \in Users PROVE GuessesCounted(u)' /\ SendsCounted(u)'
  BY DEF OtpsCounted
<1>2. GuessesCounted(u) /\ SendsCounted(u)
  BY DEF OtpsCounted
<1>3. /\ Guessing(u)' = Guessing(u) /\ Storing(u)' = Storing(u)
      /\ Cooling(u)' = Cooling(u)
  BY <1>1 DEF Guessing, Storing, Cooling, At
<1>4. CASE CooldownExpires(v)
  <2>1. /\ history'.sends = [history.sends EXCEPT ![v] = 0]
        /\ history'.uncooled = [history.uncooled EXCEPT ![v] = 0]
        /\ history'.guesses = history.guesses /\ history'.uncounted = history.uncounted
        /\ cooldown' = cooldown \ {v} /\ UNCHANGED <<otp, otpAttempts, attemptsTtl>>
    BY <1>4 DEF CooldownExpires, TypeInv, TypeOK, History
  <2>2. GuessesCounted(u)'
    <3>1. GuessesAside(u)
      BY <2>1 DEF GuessesAside
    <3> QED  BY <1>2, <1>3, <3>1, GuessesStay
  <2>3. CASE u = v
    <3>1. /\ history'.sends[u] = 0 /\ history'.uncooled[u] = 0 /\ u \notin cooldown'
      BY <2>1, <2>3 DEF TypeInv, TypeOK, History
    <3> QED  BY <1>3, <2>2, <3>1, OtpNumbers DEF SendsCounted
  <2>4. CASE u # v
    <3>1. SendsAside(u)
      BY <2>1, <2>4 DEF SendsAside, TypeInv, TypeOK, History
    <3> QED  BY <1>2, <1>3, <2>2, <3>1, SendsStay
  <2> QED  BY <2>3, <2>4
<1>5. CASE OtpExpires(v) \/ AttemptsExpire(v)
  <2>1. UNCHANGED <<cooldown, history>>
    BY <1>5 DEF OtpExpires, AttemptsExpire
  <2>2. SendsCounted(u)'
    BY <1>2, <1>3, <2>1, SendsStay DEF SendsAside
  <2>3. CASE u # v
    <3>1. GuessesAside(u)
      BY <1>5, <2>1, <2>3 DEF OtpExpires, AttemptsExpire, GuessesAside, TypeInv, TypeOK
    <3> QED  BY <1>2, <1>3, <2>2, <3>1, GuessesStay
  <2>4. CASE u = v /\ OtpExpires(v)
    <3>1. otp'[u] = 0
      BY <2>4 DEF OtpExpires, TypeInv, TypeOK
    <3> QED  BY <1>2, <2>1, <2>2, <3>1, GuessesOver
  \* The counter was started by another OTP, so that it had not yet been
  \* allowed for; what it has seen is at most one limit.
  <2>5. CASE u = v /\ AttemptsExpire(v)
    <3>1. /\ otpAttempts'[u] = 0 /\ attemptsTtl'[u] = -1 /\ otp' = otp
          /\ otp[u] # 0 => attemptsTtl[u] \notin {-1, otp[u]}
      BY <2>5 DEF AttemptsExpire, TypeInv, TypeOK
    <3>2. Counted(u)' = MaxOtpAttempts
      BY <3>1, OtpNumbers DEF Counted, Small
    <3>3. otp[u] # 0 => Counted(u) <= MaxOtpAttempts /\ Counted(u) \in Nat
      BY <3>1, OtpNumbers DEF Counted, Small
    <3> QED  BY <1>2, <1>3, <2>1, <2>2, <3>1, <3>2, <3>3, OtpNumbers
             DEF GuessesCounted
  <2> QED  BY <1>5, <2>3, <2>4, <2>5
<1>6. CASE ~CooldownExpires(v) /\ ~OtpExpires(v) /\ ~AttemptsExpire(v)
  <2>1. /\ UNCHANGED otpVars
        /\ history'.guesses = history.guesses /\ history'.uncounted = history.uncounted
        /\ history'.sends = history.sends /\ history'.uncooled = history.uncooled
    BY <1>6 DEF UserStep, CreateUser, DeleteUser, UpdateUser, UnchangedButAccount,
       ForgotPassword, LockoutExpires, TypeInv, TypeOK, History
  <2>2. GuessesAside(u) /\ SendsAside(u)
    BY <2>1 DEF GuessesAside, SendsAside
  <2> QED  BY <1>2, <1>3, <2>2, GuessesStay, SendsStay
<1> QED  BY <1>4, <1>5, <1>6

\* Every step keeps the counts.
LEMMA OtpCountStep ==
  TypeInv /\ TypeInv' /\ OtpsCounted /\ [Next]_vars => OtpsCounted'
<1> SUFFICES ASSUME TypeInv, TypeInv', OtpsCounted, [Next]_vars PROVE OtpsCounted'
  OBVIOUS
<1>1. ASSUME NEW r \in Requests, LogInStep(r) \/ TokenStep(r) PROVE OtpsCounted'
  BY <1>1, OneRequest, OtpsUntouched, OtpsElsewhere DEF OtpsCounted
<1>2. ASSUME NEW r \in Requests, MarkVerified(r) PROVE OtpsCounted'
  <2>1. /\ UNCHANGED otpVars /\ request[r].pc = "verify" /\ request'[r].pc = "idle"
        /\ history'.guesses = history.guesses /\ history'.uncounted = history.uncounted
        /\ history'.sends = history.sends /\ history'.uncooled = history.uncooled
    BY <1>2, WhereTo DEF MarkVerified, At, TypeInv, TypeOK, History
  <2>2. \A u \in Users : GuessesAside(u) /\ SendsAside(u)
    BY <2>1 DEF GuessesAside, SendsAside
  <2>3. request[r].pc \notin OtpPCs /\ request'[r].pc \notin OtpPCs
    BY <2>1 DEF OtpPCs
  <2>4. \A q \in Requests \ {r} : request'[q] = request[q]
    BY <1>2, OneRequest DEF OtpStep
  <2> QED  BY <2>2, <2>3, <2>4, OtpsElsewhere DEF OtpsCounted
<1>3. ASSUME NEW r \in Requests, OtpStep(r) PROVE OtpsCounted'
  BY <1>2, <1>3, OtpSent, Cooled, GuessCounted, AttemptsArmed, OtpTaken DEF OtpStep
<1>4. CASE KeyStep \/ UNCHANGED vars
  <2>1. /\ UNCHANGED <<otpVars, request>>
        /\ history'.guesses = history.guesses /\ history'.uncounted = history.uncounted
        /\ history'.sends = history.sends /\ history'.uncooled = history.uncooled
    BY <1>4 DEF KeyStep, StartGoogle, ExchangeAuthCode, InstanceRestarts,
       SyncLocalToRedis, RefuseToken, RedisTurns, TypeInv, TypeOK, History
  <2> SUFFICES ASSUME NEW u \in Users PROVE GuessesCounted(u)' /\ SendsCounted(u)'
    BY DEF OtpsCounted
  <2>2. GuessesAside(u) /\ SendsAside(u)
    BY <2>1 DEF GuessesAside, SendsAside
  <2>3. /\ Guessing(u)' = Guessing(u) /\ Storing(u)' = Storing(u)
        /\ Cooling(u)' = Cooling(u)
    BY <2>1 DEF Guessing, Storing, Cooling, At
  <2> QED  BY <2>2, <2>3, GuessesStay, SendsStay DEF OtpsCounted
<1> QED  BY <1>1, <1>3, <1>4, OtpsArriving, OtpsGone, OtpClocks, StepCases

LEMMA AlwaysOtpsCounted == Spec => []OtpsCounted
BY AlwaysTyped, InitOtpCounts, OtpCountStep, PTL DEF Spec

(***************************************************************************)
(* otp.service.ts: the guesses at one OTP are limited, for any limit, any  *)
(* number of requests and any faults, but for those that died with theirs. *)
(***************************************************************************)
THEOREM GuessesTheorem == Spec => []GuessesBounded
<1>1. OtpsCounted => GuessesBounded
  BY DEF OtpsCounted, GuessesCounted, GuessesBounded
<1> QED  BY <1>1, AlwaysOtpsCounted, PTL

(***************************************************************************)
(* otp.service.ts: between two cooldowns no more OTPs are sent than there  *)
(* are requests in flight, but for those that died before the cooldown.    *)
(***************************************************************************)
THEOREM SendsTheorem == Spec => []SendsBounded
<1>1. TypeInv /\ OtpsCounted => SendsBounded
  <2> SUFFICES ASSUME TypeInv, OtpsCounted, NEW u \in Users
               PROVE  history.sends[u] <= Cardinality(Requests) + history.uncooled[u]
    BY DEF SendsBounded
  <2>1. Cardinality(Cooling(u)) <= Cardinality(Requests)
    BY OtpNumbers, RequestsCounted
  <2> QED  BY <2>1, OtpNumbers DEF OtpsCounted, SendsCounted
<1> QED  BY <1>1, AlwaysTyped, AlwaysOtpsCounted, PTL

-----------------------------------------------------------------------------
(***************************************************************************)
(* Outdated sessions.  A session with an older password is on its way out: *)
(* a change of the password is still going to look for it, or has found it *)
(* and will delete it.  A request that may yet open or renew such a        *)
(* session is remembered as racing, or a change has still to look and will *)
(* remember it then.                                                       *)
(***************************************************************************)
Revoking(v) == {s \in Requests : ChangesPassword(s) /\ request[s].user = v}

ToScan(v) == \E s \in Revoking(v) : ~At(s, "delete")

WillDelete(j) ==
  \E s \in Revoking(issued[j].user) : At(s, "delete") => j \in request[s].doomed

SessionDue(j) ==
  Outdated(j) /\ issued[j].root \notin history.spared => WillDelete(j)

LoginDue(r) ==
  LET u == request[r].user
  IN request[r].pc \in {"clear", "issue"}
       /\ request[r].password < account[u].password =>
         r \in history.racing \/ ToScan(u)

RenewalDue(r) ==
  LET j == request[r].token
  IN request[r].pc \in {"lookup", "rotate"} =>
       /\ issued[j].user = request[r].user
       /\ Outdated(j) /\ issued[j].root \notin history.spared =>
            r \in history.racing \/ ToScan(request[r].user)

\* Only the three operations about passwords come to save one, and only
\* users that exist sign in.
Entitled(r) ==
  /\ request[r].pc \in {"handle", "save"} =>
       request[r].op \in {"changePassword", "setPassword", "resetPassword"}
  /\ request[r].pc \in {"clear", "issue"} =>
       account[request[r].user].isActive # "NONE"

Promised(r) == LoginDue(r) /\ RenewalDue(r) /\ Entitled(r)

OutdatedDue ==
  /\ \A j \in refreshSession : SessionDue(j)
  /\ \A r \in Requests : Promised(r)
  /\ \A j \in Jtis :
       issued[j].kind # "none" => account[issued[j].user].isActive # "NONE"

\* Nobody has a password that was changed at the start.
LEMMA InitDue == Init => OutdatedDue
BY DEF Init, OutdatedDue, Promised, LoginDue, RenewalDue, Entitled, Idle, Unsigned

\* What is owed is what the property says.
LEMMA DueIsSpared == OutdatedDue => OutdatedIsSpared
<1> SUFFICES ASSUME OutdatedDue, NEW j \in refreshSession, Outdated(j),
                    issued[j].root \notin history.spared
             PROVE  \E r \in Requests :
                      ChangesPassword(r) /\ request[r].user = issued[j].user
  BY DEF OutdatedIsSpared
<1>1. WillDelete(j)
  BY DEF OutdatedDue, SessionDue
<1> QED  BY <1>1 DEF WillDelete, Revoking

(***************************************************************************)
(* A step by the requests in moved keeps its promises when each session    *)
(* that stays is spared, or is going to be deleted, or neither its user's  *)
(* password changes nor was it to be deleted; when the same is true of the *)
(* requests that do not move; and when new sessions and the requests that  *)
(* move are taken care of.                                                 *)
(***************************************************************************)
PasswordStays(v) == account'[v].password = account[v].password

SessionKept(j) ==
  \/ issued[j].root \in history'.spared
  \/ WillDelete(j)'
  \/ PasswordStays(issued[j].user) /\ ~WillDelete(j)

OthersKept(v, moved) ==
  \/ ToScan(v)'
  \/ PastCheck(v) \ moved \subseteq history'.racing
  \/ PasswordStays(v) /\ ~ToScan(v)

LEMMA DueKept ==
  ASSUME TypeInv, OutdatedDue, NEW moved \in SUBSET Requests,
         \A q \in Requests \ moved : request'[q] = request[q],
         \A j \in Jtis : issued[j].kind # "none" => issued'[j] = issued[j],
         \A j \in Jtis : issued'[j].kind # "none" =>
           issued[j].kind # "none" \/ account'[issued'[j].user].isActive # "NONE",
         \A v \in Users :
           account[v].isActive # "NONE" => account'[v].isActive # "NONE",
         history.spared \subseteq history'.spared,
         history.racing \ moved \subseteq history'.racing,
         \A j \in refreshSession : j \in refreshSession' => SessionKept(j),
         \A j \in refreshSession' \ refreshSession : SessionDue(j)',
         \A v \in Users : OthersKept(v, moved),
         \A q \in moved : Promised(q)'
  PROVE  OutdatedDue'
<1>1. ASSUME NEW j \in refreshSession, j \in refreshSession' PROVE SessionDue(j)'
  <2>1. j \in Jtis /\ issued'[j] = issued[j]
    BY <1>1 DEF TypeInv, TypeOK, TokensKnown
  <2>2. SessionKept(j) /\ SessionDue(j)
    BY <1>1 DEF OutdatedDue
  <2>3. CASE PasswordStays(issued[j].user) /\ ~WillDelete(j)
    <3>1. Outdated(j)' <=> Outdated(j)
      BY <2>1, <2>3 DEF Outdated, PasswordStays
    <3> QED  BY <2>1, <2>2, <2>3, <3>1 DEF SessionDue
  <2> QED  BY <2>1, <2>2, <2>3 DEF SessionDue, SessionKept
<1>2. ASSUME NEW q \in Requests \ moved PROVE Promised(q)'
  <2>1. request'[q] = request[q] /\ Promised(q) /\ request[q] \in RequestRecord
        /\ RequestKnown(request[q])
    BY DEF OutdatedDue, TypeInv, TypeOK, RequestsKnown
  <2>2. Entitled(q)'
    <3>1. Entitled(q)
      BY <2>1 DEF Promised
    <3> QED  BY <2>1, <3>1 DEF Entitled, RequestKnown
  <2>3. LoginDue(q)'
    <3> SUFFICES ASSUME request[q].pc \in {"clear", "issue"},
                        request[q].password < account'[request[q].user].password
                 PROVE  q \in history'.racing \/ ToScan(request[q].user)'
      BY <2>1 DEF LoginDue
    <3>1. request[q].user \in Users /\ q \in PastCheck(request[q].user)
      BY <2>1 DEF RequestKnown, PastCheck
    <3>2. CASE PasswordStays(request[q].user) /\ ~ToScan(request[q].user)
      <4>1. q \in history.racing
        BY <2>1, <3>2 DEF Promised, LoginDue, PasswordStays
      <4> QED  BY <4>1
    <3> QED  BY <3>1, <3>2 DEF OthersKept
  <2>4. RenewalDue(q)'
    <3> PICK j : j = request[q].token
      OBVIOUS
    <3> SUFFICES ASSUME request[q].pc \in {"lookup", "rotate"}
                 PROVE  /\ issued'[j].user = request[q].user
                        /\ Outdated(j)' /\ issued'[j].root \notin history'.spared =>
                             q \in history'.racing \/ ToScan(request[q].user)'
      BY <2>1 DEF RenewalDue
    <3>1. /\ request[q].user \in Users /\ q \in PastCheck(request[q].user)
          /\ j \in Jtis /\ issued'[j] = issued[j] /\ issued[j].user = request[q].user
      BY <2>1 DEF RequestKnown, PastCheck, HasToken, Promised, RenewalDue
    <3>2. ASSUME PasswordStays(request[q].user), ~ToScan(request[q].user),
                 Outdated(j)', issued'[j].root \notin history'.spared
          PROVE  q \in history'.racing
      <4>1. Outdated(j) /\ issued[j].root \notin history.spared
        BY <3>1, <3>2 DEF Outdated, PasswordStays
      <4>2. q \in history.racing
        BY <2>1, <3>2, <4>1 DEF Promised, RenewalDue
      <4> QED  BY <4>2
    <3> QED  BY <3>1, <3>2 DEF OthersKept
  <2> QED  BY <2>2, <2>3, <2>4 DEF Promised
<1>3. ASSUME NEW j \in Jtis, issued'[j].kind # "none"
      PROVE  account'[issued'[j].user].isActive # "NONE"
  BY <1>3 DEF OutdatedDue, TypeInv, TokensKnown
<1> QED  BY <1>1, <1>2, <1>3 DEF OutdatedDue

\* A request that is at none of the places in question is owed nothing.
LEMMA NothingDue ==
  ASSUME NEW r \in Requests,
         request'[r].pc \notin {"clear", "issue", "lookup", "rotate", "handle", "save"}
  PROVE  Promised(r)'
BY DEF Promised, LoginDue, RenewalDue, Entitled

\* A step of r leaves the changes of passwords of the others under way, and
\* r's own too if r is not changing one.
LEMMA OthersRevoke ==
  ASSUME NEW r \in Requests,
         \A q \in Requests \ {r} : request'[q] = request[q],
         NEW v, ~ChangesPassword(r) \/ request[r].user # v
  PROVE  /\ ToScan(v) => ToScan(v)'
         /\ \A j \in Jtis : issued[j].user = v /\ issued'[j] = issued[j] /\ WillDelete(j)
              => WillDelete(j)'
<1>1. \A s \in Revoking(v) : s # r
  BY DEF Revoking
<1>2. \A s \in Revoking(v) : s \in Revoking(v)'
  BY <1>1 DEF Revoking, ChangesPassword
<1>3. ASSUME ToScan(v) PROVE ToScan(v)'
  <2>1. PICK s \in Revoking(v) : ~At(s, "delete")
    BY <1>3 DEF ToScan
  <2>2. s \in Requests /\ request'[s] = request[s]
    BY <1>1 DEF Revoking
  <2> QED  BY <1>2, <2>1, <2>2 DEF ToScan, At
<1>4. ASSUME NEW j \in Jtis, issued[j].user = v, issued'[j] = issued[j], WillDelete(j)
      PROVE  WillDelete(j)'
  <2>1. PICK s \in Revoking(v) : At(s, "delete") => j \in request[s].doomed
    BY <1>4 DEF WillDelete
  <2>2. s \in Requests /\ request'[s] = request[s]
    BY <1>1 DEF Revoking
  <2> QED  BY <1>2, <1>4, <2>1, <2>2 DEF WillDelete, At
<1> QED  BY <1>3, <1>4

\* A request changes the password of v and has still to look for sessions.
LEMMA StillToScan ==
  ASSUME NEW r \in Requests, ChangesPassword(r)', request'[r].pc # "delete",
         NEW v, request'[r].user = v
  PROVE  ToScan(v)' /\ \A j : issued'[j].user = v => WillDelete(j)'
BY DEF ToScan, WillDelete, Revoking, At

\* A step of a request that may change the password of user u, and does to the
\* sessions of u what must be done.
LEMMA OneUserDue ==
  ASSUME TypeInv, OutdatedDue, NEW r \in Requests, NEW u,
         ~ChangesPassword(r) \/ request[r].user = u,
         \A q \in Requests \ {r} : request'[q] = request[q],
         issued' = issued, refreshSession' \subseteq refreshSession,
         \A v \in Users : account'[v].isActive = account[v].isActive,
         \A v \in Users : v # u => PasswordStays(v),
         history.spared \subseteq history'.spared,
         history.racing \ {r} \subseteq history'.racing,
         \A j \in refreshSession' : issued[j].user = u => SessionKept(j),
         OthersKept(u, {r}),
         Promised(r)'
  PROVE  OutdatedDue'
<1>1. ASSUME NEW j \in refreshSession, j \in refreshSession' PROVE SessionKept(j)
  <2>1. j \in Jtis /\ issued[j].user \in Users
    BY <1>1 DEF TypeInv, TypeOK, TokensKnown
  <2>2. CASE issued[j].user # u
    BY <2>1, <2>2, OthersRevoke DEF SessionKept
  <2> QED  BY <1>1, <2>2
<1>2. ASSUME NEW v \in Users PROVE OthersKept(v, {r})
  <2>1. CASE v # u
    BY <2>1, OthersRevoke DEF OthersKept
  <2> QED  BY <2>1
<1>3. \A j \in Jtis : issued'[j].kind # "none" => issued[j].kind # "none"
  OBVIOUS
<1> QED  BY <1>1, <1>2, <1>3, DueKept

\* Where the other requests stand when they have arrived.
LEMMA ArrivedAt ==
  ASSUME TypeInv, NEW r \in Requests,
         \/ \E v \in Users : LogIn(r, v) \/ SendOtp(r, v)
         \/ \E v \in Users, right \in BOOLEAN : VerifyOtp(r, v, right)
         \/ \E v \in Users, s \in OAuthStates : GoogleCallback(r, v, s)
         \/ \E j \in Jtis : LogOut(r, j)
  PROVE  request'[r].pc \in {"compare", "store", "consume", "attempt", "callback",
                             "invalidate"}
<1>1. ASSUME NEW v \in Users, LogIn(r, v) PROVE request'[r].pc = "compare"
  BY <1>1, BeganAt DEF LogIn
<1>2. ASSUME NEW v \in Users, SendOtp(r, v) PROVE request'[r].pc = "store"
  BY <1>2, BeganAt DEF SendOtp
<1>3. ASSUME NEW v \in Users, NEW right \in BOOLEAN, VerifyOtp(r, v, right)
      PROVE  request'[r].pc \in {"consume", "attempt"}
  BY <1>3 DEF VerifyOtp, Begin, Idle, TypeInv, TypeOK
<1>4. ASSUME NEW v \in Users, NEW s \in OAuthStates, GoogleCallback(r, v, s)
      PROVE  request'[r].pc = "callback"
  BY <1>4, BeganAt DEF GoogleCallback
<1>5. ASSUME NEW j \in Jtis, LogOut(r, j) PROVE request'[r].pc = "invalidate"
  BY <1>5, BeganAt DEF LogOut
<1> QED  BY <1>1, <1>2, <1>3, <1>4, <1>5

\* A step of a request that is not changing a password, and changes none.
LEMMA DueAside ==
  ASSUME TypeInv, OutdatedDue, NEW r \in Requests, ~ChangesPassword(r),
         \A q \in Requests \ {r} : request'[q] = request[q],
         issued' = issued, refreshSession' \subseteq refreshSession,
         \A v \in Users : PasswordStays(v) /\ account'[v].isActive = account[v].isActive,
         history.spared \subseteq history'.spared,
         history.racing \ {r} \subseteq history'.racing,
         Promised(r)'
  PROVE  OutdatedDue'
<1>1. ASSUME NEW j \in refreshSession PROVE SessionKept(j)
  <2>1. j \in Jtis /\ issued[j].user \in Users
    BY DEF TypeInv, TypeOK, TokensKnown
  <2> QED  BY <2>1, OthersRevoke DEF SessionKept
<1>2. ASSUME NEW v \in Users PROVE OthersKept(v, {r})
  BY OthersRevoke DEF OthersKept
<1>3. \A j \in Jtis : issued'[j].kind # "none" => issued[j].kind # "none"
  OBVIOUS
<1> QED  BY <1>1, <1>2, <1>3, DueKept

\* A request that presents a session which is being deleted races with that.
LEMMA RefreshDue ==
  ASSUME TypeInv, OutdatedDue, NEW r \in Requests, NEW j \in Jtis,
         CreateNewAccessToken(r, j)
  PROVE  OutdatedDue'
<1>1. /\ At(r, "idle") /\ UNCHANGED <<account, issued, refreshSession>>
      /\ issued[j].kind = "session"
  BY DEF CreateNewAccessToken, Begin
<1>2. \A q \in Requests \ {r} : request'[q] = request[q]
  BY OneRequest DEF Arrive
<1>3. /\ request'[r].pc = (IF j \in refreshSession THEN "lookup" ELSE "scan")
      /\ request'[r].token = j /\ request'[r].user = issued[j].user
  <2> PICK rec : rec = [Idle EXCEPT
                      !.pc = IF j \in refreshSession THEN "lookup" ELSE "scan",
                      !.token = j, !.user = issued[j].user]
    OBVIOUS
  <2>1. issued[j].user \in Users
    BY <1>1 DEF TypeInv, TokensKnown
  <2>2. /\ rec \in RequestRecord /\ rec.token = j /\ rec.user = issued[j].user
        /\ rec.pc = (IF j \in refreshSession THEN "lookup" ELSE "scan")
    BY <2>1 DEF Idle, RequestRecord, PCs
  <2>3. Begin(r, "refresh", rec)
    BY DEF CreateNewAccessToken
  <2> QED  BY <2>2, <2>3, Began
<1>4. /\ history'.spared = history.spared
      /\ history.racing \subseteq history'.racing
      /\ (\E s \in Requests : j \in request[s].doomed \cap refreshSession)
           => r \in history'.racing
  BY DEF CreateNewAccessToken, TypeInv, TypeOK, History
<1>5. ~ChangesPassword(r)
  BY <1>1 DEF ChangesPassword, At
<1>6. Promised(r)'
  <2>1. CASE j \notin refreshSession
    BY <1>3, <2>1, NothingDue
  <2>2. CASE j \in refreshSession
    <3>1. ASSUME Outdated(j), issued[j].root \notin history.spared
          PROVE  r \in history'.racing \/ ToScan(issued[j].user)'
      <4>1. PICK s \in Revoking(issued[j].user) :
              At(s, "delete") => j \in request[s].doomed
        BY <2>2, <3>1 DEF OutdatedDue, SessionDue, WillDelete
      <4>2. CASE At(s, "delete")
        BY <1>4, <2>2, <4>1, <4>2 DEF Revoking
      <4>3. CASE ~At(s, "delete")
        <5> PICK v : v = issued[j].user
          OBVIOUS
        <5>1. ToScan(v)
          BY <4>1, <4>3 DEF ToScan
        <5>2. ToScan(v)'
          BY <1>2, <1>5, <5>1, OthersRevoke
        <5> QED  BY <1>1, <5>2
      <4> QED  BY <4>2, <4>3
    <3>2. Outdated(j)' <=> Outdated(j)
      BY <1>1 DEF Outdated
    <3> QED  BY <1>1, <1>3, <1>4, <2>2, <3>1, <3>2
             DEF Promised, LoginDue, RenewalDue, Entitled
  <2> QED  BY <2>1, <2>2
<1> QED  BY <1>1, <1>2, <1>4, <1>5, <1>6, DueAside DEF PasswordStays

\* The other requests that arrive are past no check yet.
LEMMA ArriveDue ==
  ASSUME TypeInv, OutdatedDue, NEW r \in Requests, Arrive(r)
  PROVE  OutdatedDue'
<1>1. CASE \E j \in Jtis : CreateNewAccessToken(r, j)
  BY <1>1, RefreshDue
<1>2. CASE ~ \E j \in Jtis : CreateNewAccessToken(r, j)
  <2>1. /\ At(r, "idle") /\ UNCHANGED <<account, issued, refreshSession>>
    BY <1>2 DEF Arrive, LogIn, SendOtp, VerifyOtp, GoogleCallback, LogOut,
                Authenticate, Begin
  <2>2. \A q \in Requests \ {r} : request'[q] = request[q]
    BY OneRequest
  <2>3. history'.spared = history.spared /\ history'.racing = history.racing
    BY <1>2 DEF Arrive, LogIn, SendOtp, VerifyOtp, GoogleCallback, LogOut,
                Authenticate, TypeInv, TypeOK, History
  <2>4. ~ChangesPassword(r)
    BY <2>1 DEF ChangesPassword, At
  <2>5. Promised(r)'
    <3>1. CASE \/ \E j \in Jtis, op \in {"changePassword", "setPassword"} :
                    Authenticate(r, op, "session", j)
               \/ \E j \in Jtis : Authenticate(r, "resetPassword", "reset", j)
      <4>1. PICK j \in Jtis, op \in {"changePassword", "setPassword", "resetPassword"} :
              request' = [request EXCEPT ![r] =
                [[Idle EXCEPT !.pc = "handle", !.token = j, !.user = issued[j].user]
                 EXCEPT !.op = op]]
        BY <3>1 DEF Authenticate, Begin
      <4>2. request'[r].pc = "handle" /\ request'[r].op = op
        BY <4>1 DEF Idle, TypeInv, TypeOK
      <4> QED  BY <4>2 DEF Promised, LoginDue, RenewalDue, Entitled
    <3>2. CASE \/ \E v \in Users : LogIn(r, v) \/ SendOtp(r, v)
               \/ \E v \in Users, right \in BOOLEAN : VerifyOtp(r, v, right)
               \/ \E v \in Users, s \in OAuthStates : GoogleCallback(r, v, s)
               \/ \E j \in Jtis : LogOut(r, j)
      <4>1. request'[r].pc \in {"compare", "store", "consume", "attempt", "callback",
                                "invalidate"}
        BY <3>2, ArrivedAt
      <4> QED  BY <4>1, NothingDue
    <3> QED  BY <1>2, <3>1, <3>2 DEF Arrive
  <2> QED  BY <2>1, <2>2, <2>3, <2>4, <2>5, DueAside DEF PasswordStays
<1> QED  BY <1>1, <1>2

\* Signing in: who has proved the password that is now the user's, or is past
\* that, has nothing to fear unless a change of it is on its way.
LEMMA SignInDue ==
  ASSUME TypeInv, OutdatedDue, NEW r \in Requests,
         \/ \E right \in BOOLEAN : ComparePassword(r, right)
         \/ CountFailure(r) \/ ExpireFailures(r) \/ ClearFailures(r)
         \/ \E s \in OAuthStates : DeleteState(r, s)
         \/ StoreAuthCode(r) \/ ReadPassword(r)
  PROVE  OutdatedDue'
<1>1. /\ UNCHANGED <<account, issued, refreshSession>>
      /\ history'.spared = history.spared /\ history'.racing = history.racing
  BY DEF ComparePassword, CountFailure, ExpireFailures, ClearFailures, DeleteState,
         StoreAuthCode, ReadPassword, TypeInv, TypeOK, History
<1>2. \A q \in Requests \ {r} : request'[q] = request[q]
  BY OneRequest DEF LogInStep
<1>3. ~ChangesPassword(r)
  BY DEF ComparePassword, CountFailure, ExpireFailures, ClearFailures, DeleteState,
         StoreAuthCode, ReadPassword, ChangesPassword, At
<1>4. request[r] \in RequestRecord /\ RequestKnown(request[r])
  BY DEF TypeInv, TypeOK, RequestsKnown
<1>5. Promised(r)'
  <2>1. ASSUME NEW right \in BOOLEAN, ComparePassword(r, right) PROVE Promised(r)'
    <3> PICK u : u = request[r].user
      OBVIOUS
    <3>1. u \in Users /\ account[u].password \in Nat
      BY <1>4, <2>1 DEF ComparePassword, At, RequestKnown, TypeInv, TypeOK, Account
    <3>2. /\ request'[r].pc = (IF right THEN "clear" ELSE "count")
          /\ request'[r].user = u
          /\ request'[r].password = (IF right THEN account[u].password ELSE 0)
          /\ right => account[u].isActive # "NONE"
      BY <1>4, <2>1 DEF ComparePassword, MayAct, RequestRecord, TypeInv, TypeOK
    <3>3. CASE ~right
      BY <3>2, <3>3, NothingDue
    <3>4. CASE right
      <4>1. LoginDue(r)'
        BY <1>1, <3>1, <3>2, <3>4 DEF LoginDue
      <4>2. RenewalDue(r)' /\ Entitled(r)'
        BY <1>1, <3>2, <3>4 DEF RenewalDue, Entitled
      <4> QED  BY <4>1, <4>2 DEF Promised
    <3> QED  BY <3>3, <3>4
  <2>2. CASE \/ CountFailure(r) \/ ExpireFailures(r) \/ StoreAuthCode(r)
             \/ \E s \in OAuthStates : DeleteState(r, s)
    <3>1. request'[r].pc \in {"expire", "idle", "profile"}
      BY <2>2, WhereTo DEF CountFailure, ExpireFailures, StoreAuthCode, DeleteState
    <3> QED  BY <3>1, NothingDue
  <2>3. CASE ClearFailures(r)
    <3> PICK u : u = request[r].user
      OBVIOUS
    <3>1. request[r].pc = "clear" /\ request' = [request EXCEPT ![r].pc = "issue"]
      BY <2>3 DEF ClearFailures, At, Goto
    <3>2. /\ request'[r].pc = "issue" /\ request'[r].user = u
          /\ request'[r].password = request[r].password
      BY <1>4, <3>1 DEF RequestRecord, TypeInv, TypeOK
    <3>3. LoginDue(r) /\ Entitled(r)
      BY DEF OutdatedDue, Promised
    <3>4. ToScan(u) => ToScan(u)'
      BY <1>2, <1>3, OthersRevoke
    <3>5. LoginDue(r)'
      BY <1>1, <3>1, <3>2, <3>3, <3>4 DEF LoginDue
    <3>6. RenewalDue(r)' /\ Entitled(r)'
      BY <1>1, <3>1, <3>2, <3>3 DEF RenewalDue, Entitled
    <3> QED  BY <3>5, <3>6 DEF Promised
  <2>4. CASE ReadPassword(r) /\ Finish(r)
    BY <2>4, WhereTo, NothingDue
  <2>5. CASE ReadPassword(r) /\ ~Finish(r)
    <3>1. /\ request[r].pc = "handle" /\ request'[r].pc = "save"
          /\ request'[r].op = request[r].op
      BY <1>4, <2>5 DEF ReadPassword, At, RequestRecord, TypeInv, TypeOK
    <3>2. Entitled(r)
      BY DEF OutdatedDue, Promised
    <3> QED  BY <3>1, <3>2 DEF Promised, LoginDue, RenewalDue, Entitled
  <2> QED  BY <2>1, <2>2, <2>3, <2>4, <2>5
<1> QED  BY <1>1, <1>2, <1>3, <1>5, DueAside DEF PasswordStays

\* Where no user exists nobody has a token, and nobody is past a check.
LEMMA StrangersOwnNothing ==
  ASSUME TypeInv, OutdatedDue, NEW v \in Users, account[v].isActive = "NONE"
  PROVE  /\ PastCheck(v) = {}
         /\ \A j \in Jtis : issued[j].kind # "none" => issued[j].user # v
<1>1. \A j \in Jtis : issued[j].kind # "none" => issued[j].user # v
  BY DEF OutdatedDue
<1>2. ASSUME NEW q \in PastCheck(v) PROVE FALSE
  <2>1. /\ q \in Requests /\ request[q].user = v
        /\ request[q].pc \in {"clear", "issue", "lookup", "rotate"}
    BY DEF PastCheck
  <2>2. RequestKnown(request[q]) /\ Promised(q)
    BY <2>1 DEF OutdatedDue, TypeInv, RequestsKnown
  <2>3. CASE request[q].pc \in {"clear", "issue"}
    BY <2>1, <2>2, <2>3 DEF Promised, Entitled
  <2>4. CASE request[q].pc \in {"lookup", "rotate"}
    BY <1>1, <2>1, <2>2, <2>4 DEF Promised, RenewalDue, RequestKnown, HasToken
  <2> QED  BY <2>1, <2>3, <2>4
<1> QED  BY <1>1, <1>2

\* A user who signs in with Google for the first time has no session.
LEMMA GoogleDue ==
  ASSUME TypeInv, OutdatedDue, NEW r \in Requests, GoogleStrategy(r)
  PROVE  OutdatedDue'
<1> PICK u : u = request[r].user
  OBVIOUS
<1>1. /\ issued' = issued /\ refreshSession' = refreshSession /\ history' = history
      /\ request[r].pc = "profile"
  BY DEF GoogleStrategy, At
<1>2. \A q \in Requests \ {r} : request'[q] = request[q]
  BY OneRequest DEF LogInStep
<1>3. ~ChangesPassword(r)
  BY <1>1 DEF ChangesPassword
<1>4. /\ request[r] \in RequestRecord /\ u \in Users /\ account[u].password \in Nat
  BY <1>1 DEF TypeInv, TypeOK, RequestsKnown, RequestKnown, Account
<1>5. /\ \A v \in Users \ {u} : account'[v] = account[v]
      /\ account[u].isActive # "NONE" => account' = account
      /\ account[u].isActive = "NONE" =>
           account'[u].password = 0 /\ account'[u].isActive = "ACTIVE"
  BY <1>4 DEF GoogleStrategy, TypeInv, TypeOK
<1>6. Promised(r)'
  <2>1. CASE Finish(r)
    BY <2>1, WhereTo, NothingDue
  <2>2. CASE ~Finish(r)
    <3>1. /\ request'[r].pc = "issue" /\ request'[r].user = u
          /\ request'[r].password = account[u].password
      BY <1>4, <2>2 DEF GoogleStrategy, RequestRecord, TypeInv, TypeOK
    <3>2. ~(request'[r].password < account'[u].password)
      BY <1>4, <1>5, <3>1
    <3>3. LoginDue(r)'
      BY <3>1, <3>2 DEF LoginDue
    <3>4. RenewalDue(r)' /\ Entitled(r)'
      BY <1>5, <3>1 DEF RenewalDue, Entitled
    <3> QED  BY <3>3, <3>4 DEF Promised
  <2> QED  BY <2>1, <2>2
<1>7. ASSUME NEW v \in Users PROVE OthersKept(v, {r})
  <2>1. CASE v = u /\ account[u].isActive = "NONE"
    BY <2>1, StrangersOwnNothing DEF OthersKept
  <2>2. CASE ~(v = u /\ account[u].isActive = "NONE")
    <3>1. PasswordStays(v)
      BY <1>5, <2>2 DEF PasswordStays
    <3> QED  BY <1>2, <1>3, <3>1, OthersRevoke DEF OthersKept
  <2> QED  BY <2>1, <2>2
<1>8. ASSUME NEW j \in refreshSession PROVE SessionKept(j)
  <2>1. j \in Jtis /\ issued[j].kind # "none" /\ issued[j].user \in Users
    BY DEF TypeInv, TypeOK, TokensKnown
  <2>2. ~(issued[j].user = u /\ account[u].isActive = "NONE")
    BY <1>4, <2>1, StrangersOwnNothing
  <2>3. PasswordStays(issued[j].user)
    BY <1>5, <2>1, <2>2 DEF PasswordStays
  <2> QED  BY <1>1, <1>2, <1>3, <2>1, <2>3, OthersRevoke DEF SessionKept
<1>9. \A v \in Users : account[v].isActive # "NONE" => account'[v].isActive # "NONE"
  BY <1>5
<1> QED  BY <1>1, <1>2, <1>6, <1>7, <1>8, <1>9, DueKept

(***************************************************************************)
(* A password is saved: changed, it is still to be followed by a search    *)
(* for sessions; set for the first time, it is not, and what is there of   *)
(* sessions is spared, who is past his check is racing.                    *)
(***************************************************************************)
LEMMA SaveDue ==
  ASSUME TypeInv, OutdatedDue, NEW r \in Requests, SavePassword(r)
  PROVE  OutdatedDue'
<1> PICK u : u = request[r].user
  OBVIOUS
<1>1. /\ issued' = issued /\ refreshSession' = refreshSession
      /\ request[r].pc = "save" /\ request[r] \in RequestRecord /\ u \in Users
  BY DEF SavePassword, At, TypeInv, TypeOK, RequestsKnown, RequestKnown
<1>2. \A q \in Requests \ {r} : request'[q] = request[q]
  BY OneRequest DEF LogInStep
<1>3. ~ChangesPassword(r)
  BY <1>1 DEF ChangesPassword
<1>4. /\ \A v \in Users : v # u => PasswordStays(v)
      /\ \A v \in Users : account'[v].isActive = account[v].isActive
  BY <1>1 DEF SavePassword, PasswordStays, TypeInv, TypeOK, Account
<1>5. Entitled(r)
  BY DEF OutdatedDue, Promised
<1>6. Promised(r)'
  <2>1. request'[r].pc \in {"idle", "invalidate"}
    BY WhereTo DEF SavePassword
  <2> QED  BY <2>1, NothingDue
<1>7. CASE request[r].op = "setPassword"
  <2>1. /\ history'.spared = history.spared \cup Lines(SessionsOf(u))
        /\ history'.racing = history.racing \cup PastCheck(u)
    BY <1>7 DEF SavePassword, TypeInv, TypeOK, History
  <2>2. OthersKept(u, {r})
    BY <2>1 DEF OthersKept
  <2>3. \A j \in refreshSession : issued[j].user = u => SessionKept(j)
    BY <2>1 DEF SessionKept, Lines, SessionsOf
  <2> QED  BY <1>1, <1>2, <1>3, <1>4, <1>6, <2>1, <2>2, <2>3, OneUserDue
<1>8. CASE request[r].op # "setPassword"
  <2>1. history' = history /\ request' = [request EXCEPT ![r].pc = "invalidate"]
    BY <1>8 DEF SavePassword, Goto
  <2>2. /\ request'[r].pc = "invalidate" /\ request'[r].user = u
        /\ request'[r].op = request[r].op
    BY <1>1, <2>1 DEF RequestRecord, TypeInv, TypeOK
  <2>3. ChangesPassword(r)'
    BY <1>1, <1>5, <1>8, <2>2 DEF ChangesPassword, Entitled
  <2>4. ToScan(u)' /\ \A j : issued'[j].user = u => WillDelete(j)'
    BY <2>2, <2>3, StillToScan
  <2>5. OthersKept(u, {r})
    BY <2>4 DEF OthersKept
  <2>6. \A j \in refreshSession : issued[j].user = u => SessionKept(j)
    BY <1>1, <2>4 DEF SessionKept
  <2> QED  BY <1>1, <1>2, <1>3, <1>4, <1>6, <2>1, <2>5, <2>6, OneUserDue
<1> QED  BY <1>7, <1>8

\* A change of a password looks for sessions ...
LEMMA ScanDue ==
  ASSUME TypeInv, OutdatedDue, NEW r \in Requests,
         InvalidateToken(r) \/ ScanSessions(r)
  PROVE  OutdatedDue'
<1> PICK u : u = request[r].user
  OBVIOUS
<1>1. /\ UNCHANGED <<account, issued, refreshSession>>
      /\ request[r].pc \in {"invalidate", "scan"} /\ request[r] \in RequestRecord
  BY DEF InvalidateToken, ScanSessions, At, TypeInv, TypeOK
<1>2. \A q \in Requests \ {r} : request'[q] = request[q]
  BY OneRequest DEF TokenStep
<1>3. \A v \in Users : PasswordStays(v) /\ account'[v].isActive = account[v].isActive
  BY <1>1 DEF PasswordStays
<1>4. CASE InvalidateToken(r)
  <2>1. history'.spared = history.spared /\ history'.racing = history.racing
    BY <1>4 DEF InvalidateToken, TypeInv, TypeOK, History
  <2>2. /\ request'[r].pc = (IF request[r].op = "logout" THEN "dropSession" ELSE "scan")
        /\ request'[r].op = request[r].op /\ request'[r].user = u
    BY <1>1, <1>4 DEF InvalidateToken, Goto, RequestRecord, TypeInv, TypeOK
  <2>3. Promised(r)'
    BY <2>2, NothingDue
  <2>4. CASE ~ChangesPassword(r)
    BY <1>1, <1>2, <1>3, <2>1, <2>3, <2>4, DueAside
  <2>5. CASE ChangesPassword(r)
    <3>1. ChangesPassword(r)' /\ request'[r].pc # "delete"
      BY <2>2, <2>5 DEF ChangesPassword
    <3>2. ToScan(u)' /\ \A j : issued'[j].user = u => WillDelete(j)'
      BY <2>2, <3>1, StillToScan
    <3>3. OthersKept(u, {r})
      BY <3>2 DEF OthersKept
    <3>4. \A j \in refreshSession : issued[j].user = u => SessionKept(j)
      BY <1>1, <3>2 DEF SessionKept
    <3> QED  BY <1>1, <1>2, <1>3, <2>1, <2>3, <3>3, <3>4, OneUserDue
  <2> QED  BY <2>4, <2>5
<1>5. CASE ScanSessions(r)
  <2> DEFINE found == SessionsOf(request[r].user)
  <2>2. PICK joined \in SUBSET found :
          /\ \/ joined = found /\ request'[r].pc = "idle"
             \/ /\ request'[r].pc = "delete" /\ request'[r].doomed = found \ joined
                /\ request'[r].op = request[r].op /\ request'[r].user = request[r].user
          /\ IF request[r].op = "refresh"
               THEN history'.spared = history.spared /\ history'.racing = history.racing
               ELSE /\ history'.spared = history.spared \cup Lines(joined)
                    /\ history'.racing = history.racing \cup PastCheck(request[r].user)
    BY <1>5, ScanTells
  <2>3. Promised(r)'
    BY <2>2, NothingDue
  <2>6. /\ history.spared \subseteq history'.spared
        /\ history.racing \subseteq history'.racing
    BY <2>2
  <2>4. CASE ~ChangesPassword(r)
    BY <1>1, <1>2, <1>3, <2>3, <2>4, <2>6, DueAside
  <2>5. CASE ChangesPassword(r)
    <3>0. request[r].op # "refresh"
      BY <2>5 DEF ChangesPassword
    <3>1. OthersKept(u, {r})
      BY <2>2, <3>0 DEF OthersKept
    <3>2. ASSUME NEW j \in refreshSession, issued[j].user = u PROVE SessionKept(j)
      <4>1. j \in found
        BY <3>2 DEF SessionsOf
      <4>2. CASE j \in joined
        BY <2>2, <3>0, <4>2 DEF SessionKept, Lines
      <4>3. CASE j \notin joined
        <5>1. /\ request'[r].pc = "delete" /\ j \in request'[r].doomed
              /\ request'[r].op = request[r].op /\ request'[r].user = u
          BY <2>2, <4>1, <4>3
        <5>2. r \in Revoking(u)'
          BY <2>5, <5>1 DEF Revoking, ChangesPassword
        <5>3. issued'[j].user = u
          BY <1>1, <3>2
        <5>4. WillDelete(j)'
          BY <5>1, <5>2, <5>3 DEF WillDelete
        <5> QED  BY <5>4 DEF SessionKept
      <4> QED  BY <4>2, <4>3
    <3> QED  BY <1>1, <1>2, <1>3, <2>3, <2>6, <3>1, <3>2, OneUserDue
  <2> QED  BY <2>4, <2>5
<1> QED  BY <1>4, <1>5

\* ... and deletes one after the other.
LEMMA DeleteDue ==
  ASSUME TypeInv, OutdatedDue, NEW r \in Requests, NEW k \in Jtis, DeleteSession(r, k)
  PROVE  OutdatedDue'
<1> PICK u : u = request[r].user
  OBVIOUS
<1>1. /\ UNCHANGED <<account, issued, history>> /\ refreshSession' = refreshSession \ {k}
      /\ At(r, "delete") /\ request[r] \in RequestRecord /\ u \in Users
  BY DEF DeleteSession, At, TypeInv, TypeOK, RequestsKnown, RequestKnown
<1>2. \A q \in Requests \ {r} : request'[q] = request[q]
  BY OneRequest DEF TokenStep
<1>3. \A v \in Users : PasswordStays(v) /\ account'[v].isActive = account[v].isActive
  BY <1>1 DEF PasswordStays
<1>4. \/ request'[r].pc = "idle" /\ request[r].doomed = {k}
      \/ /\ request'[r].pc = "delete" /\ request'[r].doomed = request[r].doomed \ {k}
         /\ request'[r].op = request[r].op /\ request'[r].user = u
  <2>1. CASE request[r].doomed = {k}
    BY <2>1, WhereTo DEF DeleteSession
  <2>2. CASE request[r].doomed # {k}
    BY <1>1, <2>2 DEF DeleteSession, At, RequestRecord, TypeInv, TypeOK
  <2> QED  BY <2>1, <2>2
<1>5. Promised(r)'
  BY <1>4, NothingDue
<1>6. OthersKept(u, {r})
  <2>1. ASSUME ToScan(u) PROVE ToScan(u)'
    <3>1. PICK s \in Revoking(u) : ~At(s, "delete")
      BY <2>1 DEF ToScan
    <3>2. s \in Requests /\ request'[s] = request[s]
      BY <1>1, <1>2, <3>1 DEF Revoking
    <3>3. s \in Revoking(u)' /\ ~At(s, "delete")'
      BY <3>1, <3>2 DEF Revoking, ChangesPassword, At
    <3> QED  BY <3>3 DEF ToScan
  <2> QED  BY <1>1, <1>3, <2>1 DEF OthersKept
<1>7. ASSUME NEW j \in refreshSession', issued[j].user = u PROVE SessionKept(j)
  <2>1. j \in refreshSession /\ j # k /\ issued'[j].user = u
    BY <1>1, <1>7
  <2>2. PasswordStays(u)
    BY <1>3, <2>1, <1>7 DEF TypeInv, TypeOK, TokensKnown
  <2>3. ASSUME WillDelete(j) PROVE WillDelete(j)'
    <3>1. PICK s \in Revoking(u) : At(s, "delete") => j \in request[s].doomed
      BY <1>7, <2>3 DEF WillDelete
    <3>2. CASE s = r
      <4>1. /\ request'[r].pc = "delete" /\ j \in request'[r].doomed
            /\ request'[r].op = request[r].op /\ request'[r].user = u
        BY <1>1, <1>4, <2>1, <3>1, <3>2
      <4>2. r \in Revoking(u)'
        BY <3>1, <3>2, <4>1 DEF Revoking, ChangesPassword
      <4> QED  BY <2>1, <4>1, <4>2 DEF WillDelete
    <3>3. CASE s # r
      <4>1. s \in Requests /\ request'[s] = request[s]
        BY <1>2, <3>1, <3>3 DEF Revoking
      <4>2. s \in Revoking(u)' /\ (At(s, "delete")' => j \in request'[s].doomed)
        BY <3>1, <4>1 DEF Revoking, ChangesPassword, At
      <4> QED  BY <2>1, <4>2 DEF WillDelete
    <3> QED  BY <3>2, <3>3
  <2> QED  BY <1>7, <2>2, <2>3 DEF SessionKept
<1> QED  BY <1>1, <1>2, <1>3, <1>5, <1>6, <1>7, OneUserDue

\* A session is renewed or dropped.
LEMMA RenewDue ==
  ASSUME TypeInv, OutdatedDue, NEW r \in Requests,
         LookUpUser(r) \/ DropOldSession(r) \/ RevokeRefreshSession(r)
  PROVE  OutdatedDue'
<1>1. /\ UNCHANGED <<account, issued>> /\ refreshSession' \subseteq refreshSession
      /\ request[r].pc \in {"lookup", "dropOld", "dropSession"}
      /\ request[r] \in RequestRecord
  BY DEF LookUpUser, DropOldSession, RevokeRefreshSession, At, TypeInv, TypeOK
<1>2. \A q \in Requests \ {r} : request'[q] = request[q]
  BY OneRequest DEF TokenStep
<1>3. \A v \in Users : PasswordStays(v) /\ account'[v].isActive = account[v].isActive
  BY <1>1 DEF PasswordStays
<1>4. /\ history'.spared = history.spared
      /\ history.racing \ {r} \subseteq history'.racing
  BY DEF LookUpUser, DropOldSession, RevokeRefreshSession, TypeInv, TypeOK, History
<1>5. ~ChangesPassword(r)
  BY <1>1 DEF ChangesPassword
<1>6. Promised(r)'
  <2>1. CASE Finish(r)
    BY <2>1, WhereTo, NothingDue
  <2>2. CASE ~Finish(r)
    <3> PICK u, j : u = request[r].user /\ j = request[r].token
      OBVIOUS
    <3>1. /\ Goto(r, "rotate") /\ history' = history /\ request[r].pc = "lookup"
      BY <2>2 DEF LookUpUser, DropOldSession, RevokeRefreshSession, At
    <3>2. request'[r].pc = "rotate" /\ request'[r].user = u /\ request'[r].token = j
      BY <3>1, WhereTo
    <3>3. /\ issued[j].user = u
          /\ Outdated(j) /\ issued[j].root \notin history.spared =>
               r \in history.racing \/ ToScan(u)
      BY <3>1 DEF OutdatedDue, Promised, RenewalDue
    <3>4. ToScan(u) => ToScan(u)'
      BY <1>2, <1>5, OthersRevoke
    <3>5. Outdated(j)' <=> Outdated(j)
      BY <1>1 DEF Outdated
    <3>6. RenewalDue(r)'
      BY <1>1, <3>1, <3>2, <3>3, <3>4, <3>5 DEF RenewalDue
    <3> QED  BY <3>2, <3>6 DEF Promised, LoginDue, Entitled
  <2> QED  BY <2>1, <2>2
<1> QED  BY <1>1, <1>2, <1>3, <1>4, <1>5, <1>6, DueAside

\* A session is stored by a request that was past its check: if it has become
\* outdated meanwhile, the request was racing, or there is still a search.
LEMMA SessionStoredDue ==
  ASSUME TypeInv, OutdatedDue, NEW r \in Requests, NEW new \in Jtis,
         issued[new] = Unsigned, NEW token \in Token, token.kind = "session",
         issued' = [issued EXCEPT ![new] = token],
         refreshSession' = refreshSession \cup {new},
         account' = account, ~ChangesPassword(r),
         account[token.user].isActive # "NONE",
         \A q \in Requests \ {r} : request'[q] = request[q],
         history.spared \subseteq history'.spared,
         history.racing \ {r} \subseteq history'.racing,
         token.password < account[token.user].password =>
           token.root \in history'.spared \/ ToScan(token.user),
         request'[r].pc \in {"idle", "storeCode", "dropOld"}
  PROVE  OutdatedDue'
<1>1. /\ issued[new].kind = "none" /\ issued'[new] = token
      /\ \A j \in Jtis \ {new} : issued'[j] = issued[j]
      /\ \A j \in Jtis : issued[j].kind # "none" => issued'[j] = issued[j]
  BY DEF Unsigned, TypeInv, TypeOK
<1>2. \A v \in Users : PasswordStays(v)
  BY DEF PasswordStays
<1>3. ASSUME NEW j \in refreshSession PROVE SessionKept(j)
  <2>1. j \in Jtis /\ issued[j].user \in Users /\ issued'[j] = issued[j]
    BY <1>1 DEF TypeInv, TypeOK, TokensKnown
  <2> QED  BY <1>2, <2>1, OthersRevoke DEF SessionKept
<1>4. ASSUME NEW j \in refreshSession' \ refreshSession PROVE SessionDue(j)'
  <2>1. j = new
    BY <1>4
  <2> SUFFICES ASSUME Outdated(new)', token.root \notin history'.spared
               PROVE  WillDelete(new)'
    BY <1>1, <2>1 DEF SessionDue
  <2>2. ToScan(token.user)
    BY <1>1 DEF Outdated
  <2>3. ToScan(token.user)'
    BY <2>2, OthersRevoke
  <2> QED  BY <1>1, <2>3 DEF ToScan, WillDelete
<1>5. \A v \in Users : OthersKept(v, {r})
  BY <1>2, OthersRevoke DEF OthersKept
<1>6. Promised(r)'
  BY NothingDue
<1>7. \A j \in Jtis : issued'[j].kind # "none" =>
        issued[j].kind # "none" \/ account'[issued'[j].user].isActive # "NONE"
  BY <1>1
<1>8. \A v \in Users : account[v].isActive # "NONE" => account'[v].isActive # "NONE"
  OBVIOUS
<1>9. {r} \in SUBSET Requests /\ \A q \in {r} : Promised(q)'
  BY <1>6
<1> QED  BY <1>1, <1>3, <1>4, <1>5, <1>7, <1>8, <1>9, DueKept, SMTT(30)

\* Sign-ins and rotations store such sessions.
LEMMA IssueDue ==
  ASSUME TypeInv, OutdatedDue, NEW r \in Requests, NEW new \in Jtis,
         CreateUserTokens(r, new) \/ Rotate(r, new)
  PROVE  OutdatedDue'
<1>1. \A q \in Requests \ {r} : request'[q] = request[q]
  BY OneRequest DEF TokenStep
<1>2. request[r] \in RequestRecord /\ RequestKnown(request[r]) /\ Promised(r)
  BY DEF OutdatedDue, TypeInv, TypeOK, RequestsKnown
<1>3. CASE CreateUserTokens(r, new)
  <2> PICK u : u = request[r].user
    OBVIOUS
  <2> PICK token : token = [kind |-> "session", user |-> u, root |-> new,
                            password |-> request[r].password]
    OBVIOUS
  <2>1. /\ request[r].pc = "issue" /\ issued[new] = Unsigned /\ account' = account
        /\ issued' = [issued EXCEPT ![new] = token]
        /\ refreshSession' = refreshSession \cup {new}
    BY <1>3 DEF CreateUserTokens, Sign, At
  <2>2. /\ u \in Users /\ account[u].isActive # "NONE"
    BY <1>2, <2>1 DEF RequestKnown, Promised, Entitled
  <2>3. /\ token \in Token /\ token.kind = "session" /\ token.user = u
        /\ token.root = new /\ token.password = request[r].password
    BY <1>2, <2>2 DEF Token, RequestRecord
  <2>4. /\ history.spared \subseteq history'.spared
        /\ history.racing \ {r} \subseteq history'.racing
        /\ r \in history.racing => new \in history'.spared
    BY <1>3 DEF CreateUserTokens, TypeInv, TypeOK, History
  <2>5. token.password < account[u].password =>
          token.root \in history'.spared \/ ToScan(u)
    BY <1>2, <2>1, <2>3, <2>4 DEF Promised, LoginDue
  <2>6. request'[r].pc \in {"idle", "storeCode"}
    <3>1. CASE Finish(r)
      BY <3>1, WhereTo
    <3>2. CASE ~Finish(r)
      BY <1>2, <1>3, <3>2 DEF CreateUserTokens, RequestRecord, TypeInv, TypeOK
    <3> QED  BY <3>1, <3>2
  <2>7. ~ChangesPassword(r)
    BY <2>1 DEF ChangesPassword
  <2> QED  BY <1>1, <2>1, <2>2, <2>3, <2>4, <2>5, <2>6, <2>7, SessionStoredDue
<1>4. CASE Rotate(r, new)
  <2> PICK j : j = request[r].token
    OBVIOUS
  <2> PICK token : token = [kind |-> "session", user |-> issued[j].user,
                            root |-> issued[j].root, password |-> issued[j].password]
    OBVIOUS
  <2>1. /\ request[r].pc = "rotate" /\ issued[new] = Unsigned /\ account' = account
        /\ issued' = [issued EXCEPT ![new] = token]
        /\ refreshSession' = refreshSession \cup {new}
        /\ Goto(r, "dropOld")
    BY <1>4 DEF Rotate, Sign, At
  <2>2. /\ j \in Jtis /\ issued[j] \in Token /\ issued[j].kind = "session"
        /\ issued[j].user = request[r].user
    BY <1>2, <2>1 DEF RequestKnown, HasToken, Promised, RenewalDue, TypeInv, TypeOK
  <2>3. /\ token \in Token /\ token.kind = "session" /\ token.user = issued[j].user
        /\ token.root = issued[j].root /\ token.password = issued[j].password
    BY <2>2 DEF Token
  <2>4. account[token.user].isActive # "NONE"
    BY <2>2, <2>3 DEF OutdatedDue
  <2>5. /\ history.spared \subseteq history'.spared
        /\ history.racing \ {r} \subseteq history'.racing
        /\ r \in history.racing => token.root \in history'.spared
    BY <1>4, <2>3 DEF Rotate, TypeInv, TypeOK, History
  <2>6. token.password < account[token.user].password =>
          token.root \in history'.spared \/ ToScan(token.user)
    BY <1>2, <2>1, <2>2, <2>3, <2>5 DEF Promised, RenewalDue, Outdated
  <2>7. ~ChangesPassword(r) /\ request'[r].pc = "dropOld"
    BY <2>1, WhereTo DEF ChangesPassword
  <2> QED  BY <1>1, <2>1, <2>3, <2>4, <2>5, <2>6, <2>7, SessionStoredDue
<1> QED  BY <1>3, <1>4

\* One-time passwords have nothing to do with sessions.
LEMMA OtpDue ==
  ASSUME TypeInv, OutdatedDue, NEW r \in Requests, OtpStep(r)
  PROVE  OutdatedDue'
<1>1. /\ UNCHANGED <<issued, refreshSession>>
      /\ request[r].pc \in {"store", "coolDown", "attempt", "arm", "burn", "consume",
                            "verify"}
  BY DEF OtpStep, StoreOtp, StartCooldown, CountAttempt, ArmAttempts, BurnOtp,
         ConsumeOtp, MarkVerified, At
<1>2. \A q \in Requests \ {r} : request'[q] = request[q]
  BY OneRequest
<1>3. \A v \in Users : PasswordStays(v) /\ account'[v].isActive = account[v].isActive
  <2>1. CASE MarkVerified(r)
    BY <2>1 DEF MarkVerified, PasswordStays, TypeInv, TypeOK, Account
  <2>2. CASE ~MarkVerified(r)
    <3>1. account' = account
      BY <2>2 DEF OtpStep, StoreOtp, StartCooldown, CountAttempt, ArmAttempts, BurnOtp,
                  ConsumeOtp
    <3> QED  BY <3>1 DEF PasswordStays
  <2> QED  BY <2>1, <2>2
<1>4. history'.spared = history.spared /\ history'.racing = history.racing
  BY DEF OtpStep, StoreOtp, StartCooldown, CountAttempt, ArmAttempts, BurnOtp,
         ConsumeOtp, MarkVerified, TypeInv, TypeOK, History
<1>5. ~ChangesPassword(r)
  BY <1>1 DEF ChangesPassword
<1>6. request'[r].pc \in {"coolDown", "idle", "arm", "burn", "verify"}
  BY WhereTo DEF OtpStep, StoreOtp, StartCooldown, CountAttempt, ArmAttempts, BurnOtp,
                 ConsumeOtp, MarkVerified
<1>7. Promised(r)'
  BY <1>6, NothingDue
<1> QED  BY <1>1, <1>2, <1>3, <1>4, <1>5, <1>7, DueAside

\* A change of a password that dies spares what it has not deleted.
LEMMA GoneDue ==
  ASSUME TypeInv, OutdatedDue, NEW r \in Requests, Gone(r)
  PROVE  OutdatedDue'
<1> PICK u : u = request[r].user
  OBVIOUS
<1>1. UNCHANGED <<account, issued, refreshSession>> /\ request'[r].pc = "idle"
  BY GoneFacts
<1>2. \A q \in Requests \ {r} : request'[q] = request[q]
  BY OneRequest
<1>3. \A v \in Users : PasswordStays(v) /\ account'[v].isActive = account[v].isActive
  BY <1>1 DEF PasswordStays
<1>4. /\ history.racing \ {r} \subseteq history'.racing
      /\ history'.spared = IF ChangesPassword(r)
                             THEN history.spared \cup Lines(SessionsOf(u))
                             ELSE history.spared
      /\ ChangesPassword(r) => PastCheck(u) \subseteq history'.racing
  BY Forgotten DEF Gone
<1>5. Promised(r)'
  BY <1>1, NothingDue
<1>6. CASE ~ChangesPassword(r)
  BY <1>1, <1>2, <1>3, <1>4, <1>5, <1>6, DueAside
<1>7. CASE ChangesPassword(r)
  <2>1. OthersKept(u, {r})
    BY <1>4, <1>7 DEF OthersKept
  <2>2. \A j \in refreshSession : issued[j].user = u => SessionKept(j)
    BY <1>4, <1>7 DEF SessionKept, Lines, SessionsOf
  <2> QED  BY <1>1, <1>2, <1>3, <1>4, <1>5, <1>7, <2>1, <2>2, OneUserDue
<1> QED  BY <1>6, <1>7

\* Documents and tokens: a password appears only where no user was, and a
\* reset token is no session.
LEMMA UsersDue ==
  ASSUME TypeInv, OutdatedDue, NEW u \in Users, UserStep(u)
  PROVE  OutdatedDue'
<1>1. refreshSession' = refreshSession /\ request' = request
  BY UserFacts
<1>2. history'.spared = history.spared /\ history'.racing = history.racing
  BY DEF UserStep, CreateUser, DeleteUser, UpdateUser, UnchangedButAccount,
         ForgotPassword, LockoutExpires, CooldownExpires, OtpExpires, AttemptsExpire,
         TypeInv, TypeOK, History
<1>3. /\ \A v \in Users : account[v].isActive # "NONE" =>
            account'[v].isActive # "NONE" /\ PasswordStays(v)
      /\ \A v \in Users : v # u => PasswordStays(v)
  <2>1. CASE CreateUser(u)
    BY <2>1 DEF CreateUser, PasswordStays, TypeInv, TypeOK
  <2>2. CASE DeleteUser(u)
    BY <2>2 DEF DeleteUser, PasswordStays, TypeInv, TypeOK, Account
  <2>3. ASSUME NEW status \in StatusChanges, UpdateUser(u, status)
        PROVE  \A v \in Users :
                 /\ account[v].isActive # "NONE" => account'[v].isActive # "NONE"
                 /\ PasswordStays(v)
    <3>1. status # "NONE"
      BY IdentityAssumption DEF IsActive
    <3> QED  BY <2>3, <3>1 DEF UpdateUser, PasswordStays, TypeInv, TypeOK, Account
  <2>4. CASE \/ \E j \in Jtis : ForgotPassword(u, j)
             \/ LockoutExpires(u) \/ CooldownExpires(u) \/ OtpExpires(u)
             \/ AttemptsExpire(u)
    <3>1. account' = account
      BY <2>4 DEF ForgotPassword, LockoutExpires, CooldownExpires, OtpExpires,
                  AttemptsExpire
    <3> QED  BY <3>1 DEF PasswordStays
  <2> QED  BY <2>1, <2>2, <2>3, <2>4 DEF UserStep
<1>4. /\ \A j \in Jtis : issued[j].kind # "none" => issued'[j] = issued[j]
      /\ \A j \in Jtis : issued'[j].kind # "none" =>
           issued[j].kind # "none" \/ account'[issued'[j].user].isActive # "NONE"
  <2>1. ASSUME NEW new \in Jtis, ForgotPassword(u, new)
        PROVE  /\ \A j \in Jtis : issued[j].kind # "none" => issued'[j] = issued[j]
               /\ \A j \in Jtis : issued'[j].kind # "none" =>
                    issued[j].kind # "none" \/ account'[issued'[j].user].isActive # "NONE"
    <3>1. /\ issued[new].kind = "none" /\ issued'[new].user = u
          /\ account' = account /\ account[u].isActive # "NONE"
          /\ \A j \in Jtis \ {new} : issued'[j] = issued[j]
      BY <2>1 DEF ForgotPassword, Sign, MayAct, Found, Unsigned, TypeInv, TypeOK
    <3> QED  BY <3>1
  <2>2. CASE ~ \E j \in Jtis : ForgotPassword(u, j)
    <3>1. issued' = issued
      BY <2>2 DEF UserStep, CreateUser, DeleteUser, UpdateUser, UnchangedButAccount,
                  LockoutExpires, CooldownExpires, OtpExpires, AttemptsExpire
    <3> QED  BY <3>1
  <2> QED  BY <2>1, <2>2
<1>5. \A v \in Users : ToScan(v)' <=> ToScan(v)
  BY <1>1 DEF ToScan, Revoking, ChangesPassword, At
<1>6. ASSUME NEW j \in refreshSession PROVE SessionKept(j)
  <2>1. /\ j \in Jtis /\ issued[j].user \in Users /\ issued[j].kind # "none"
        /\ issued'[j] = issued[j]
    BY <1>4 DEF TypeInv, TypeOK, TokensKnown
  <2>2. PasswordStays(issued[j].user)
    BY <1>3, <2>1 DEF OutdatedDue
  <2>3. WillDelete(j)' <=> WillDelete(j)
    BY <1>1, <2>1 DEF WillDelete, Revoking, ChangesPassword, At
  <2> QED  BY <2>2, <2>3 DEF SessionKept
<1>7. ASSUME NEW v \in Users PROVE OthersKept(v, {})
  <2>1. CASE account[v].isActive = "NONE"
    BY <2>1, StrangersOwnNothing DEF OthersKept
  <2>2. CASE account[v].isActive # "NONE"
    BY <1>3, <1>5, <2>2 DEF OthersKept
  <2> QED  BY <2>1, <2>2
<1> QED  BY <1>1, <1>2, <1>3, <1>4, <1>6, <1>7, DueKept

\* Every step keeps the promises.
LEMMA DueStep == TypeInv /\ OutdatedDue /\ [Next]_vars => OutdatedDue'
<1> SUFFICES ASSUME TypeInv, OutdatedDue, [Next]_vars PROVE OutdatedDue'
  OBVIOUS
<1>1. CASE UNCHANGED <<account, issued, refreshSession, request>>
           /\ history'.spared = history.spared /\ history'.racing = history.racing
  <2>1. /\ \A j \in refreshSession : SessionDue(j)' <=> SessionDue(j)
        /\ \A r \in Requests : Promised(r)' <=> Promised(r)
    BY <1>1 DEF SessionDue, Promised, LoginDue, RenewalDue, Entitled, Outdated,
                WillDelete, ToScan, Revoking, ChangesPassword, At
  <2> QED  BY <1>1, <2>1 DEF OutdatedDue
<1>2. ASSUME NEW r \in Requests, LogInStep(r) PROVE OutdatedDue'
  BY <1>2, SignInDue, GoogleDue, SaveDue DEF LogInStep
<1>3. ASSUME NEW r \in Requests, TokenStep(r) PROVE OutdatedDue'
  BY <1>3, ScanDue, RenewDue, IssueDue, DeleteDue DEF TokenStep
<1>4. CASE KeyStep
  <2>1. history'.spared = history.spared /\ history'.racing = history.racing
    BY <1>4 DEF KeyStep, StartGoogle, ExchangeAuthCode, InstanceRestarts,
                SyncLocalToRedis, RefuseToken, RedisTurns, TypeInv, TypeOK, History
  <2> QED  BY <1>1, <1>4, <2>1, KeyFacts
<1>5. CASE UNCHANGED vars
  BY <1>1, <1>5
<1> QED  BY <1>2, <1>3, <1>4, <1>5, ArriveDue, OtpDue, GoneDue, UsersDue, StepCases

(***************************************************************************)
(* auth.service.ts: a session with an older password belongs to a line     *)
(* that was spared, unless a change of that user's password is still at    *)
(* work: for any number of changes, sign-ins and renewals that overlap,    *)
(* and requests that die in between.                                       *)
(***************************************************************************)
THEOREM OutdatedTheorem == Spec => []OutdatedIsSpared
BY AlwaysTyped, InitDue, DueStep, DueIsSpared, PTL DEF Spec
=============================================================================
