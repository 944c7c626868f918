---------------------------- MODULE IdentityStore ----------------------------
(***************************************************************************)
(* The state that the auth, user and OTP services share: the user          *)
(* documents in MongoDB, the Redis keys of sessions, revoked tokens, login *)
(* failures and OTPs, each instance's own memory, and the HTTP requests    *)
(* that are being handled, with their local variables.                     *)
(*                                                                         *)
(* One document operation or one Redis command is one step, and a request  *)
(* may be overtaken at each of its awaits.  A key and the token it is      *)
(* about expire together: tokens that have expired are left out.           *)
(***************************************************************************)
EXTENDS Integers, FiniteSets

CONSTANTS
  Users,              \* the e-mail addresses: one user document each
  Jtis,               \* ids of the tokens that may come to be signed
  OAuthStates,        \* random states of the Google sign-ins
  Instances,          \* server processes, each with its own memory
  Requests,           \* slots for requests in flight
  InstanceOf,         \* InstanceOf[r]: the process that handles request r
  None,               \* no user, no token, no state
  InitialAccounts,    \* the user documents there are at the start
  StatusChanges,      \* the values isActive may be changed to
  Ops,                \* the operations that clients ask for
  Faults,             \* what may go wrong: see AllFaults
  MaxFailedAttempts,  \* MAX_FAILED_ATTEMPTS
  MaxOtpAttempts,     \* wrong guesses at OTPs that the counter lets pass
  MaxPassword,        \* bound: how often a password is set
  MaxOtp,             \* bound: OTPs sent
  MaxFailures         \* bound: requests that die and outages of Redis

VARIABLES
  account,         \* the user documents
  issued,          \* issued[j]: what the token with jti j was signed for
  refreshSession,  \* refresh_token:<user>:<jti> keys
  oauthState,      \* the oauth_state:<state> keys: new, stored or deleted
  authCode,        \* tokens that wait under an auth_code key
  blacklist,       \* blacklist:<hash> keys
  localBlacklist,  \* localBlacklist[i]: the Map of instance i
  syncing,         \* instances where syncLocalToRedis is running
  redisUp,         \* Redis answers
  failedLogin,     \* failed_login:<email> counters
  failedTtl,       \* users whose failed_login key has a time to live
  otp,             \* otp:<email>: the number of the OTP, 0 if there is none
  lastOtp,         \* the number of the OTP generated last
  otpAttempts,     \* otp_attempts:<email> counters
  attemptsTtl,     \* the OTP there was when otp_attempts got its time to live,
                   \* or -1
  cooldown,        \* users with an otp_sent:<email> key
  failures,        \* how many requests have died and outages begun
  request,         \* the requests in flight
  history          \* what the properties remember: no code reads it

accountVars == <<account, issued>>
sessionVars == <<refreshSession, oauthState, authCode>>
revokeVars  == <<blacklist, localBlacklist, syncing>>
loginVars   == <<failedLogin, failedTtl>>
otpVars     == <<otp, lastOtp, otpAttempts, attemptsTtl, cooldown>>

vars == <<accountVars, sessionVars, revokeVars, redisUp, loginVars, otpVars,
          failures, request, history>>

-----------------------------------------------------------------------------
IsActive == {"ACTIVE", "INACTIVE", "BLOCKED"}

AllOps == {"createUser", "updateUser", "deleteUser", "login", "google",
           "refresh", "logout", "changePassword", "setPassword",
           "forgotPassword", "resetPassword", "sendOtp", "verifyOtp"}

\* Redis is out of reach for a while, a process restarts, a request dies.
AllFaults == {"redis", "restart", "crash"}

ASSUME IdentityAssumption ==
  /\ IsFiniteSet(Requests)
  /\ InstanceOf \in [Requests -> Instances]
  /\ None \notin Users \cup Jtis \cup OAuthStates
  /\ StatusChanges \subseteq IsActive
  /\ Ops \subseteq AllOps /\ Faults \subseteq AllFaults
  /\ MaxFailedAttempts \in Nat \ {0}
  /\ MaxOtpAttempts \in Nat \ {0} /\ MaxPassword \in Nat
  /\ MaxOtp \in Nat /\ MaxFailures \in Nat

(***************************************************************************)
(* A user document.  Passwords are numbered in the order in which they are *)
(* set, 0 is no password; isActive is "NONE" before the user exists.       *)
(***************************************************************************)
Account == [isActive : IsActive \cup {"NONE"}, isVerified : BOOLEAN,
            isDeleted : BOOLEAN, password : Nat]

ASSUME AccountsAssumption == InitialAccounts \in [Users -> Account]

(***************************************************************************)
(* What a token stands for: a session's pair of access and refresh token,  *)
(* which share their jti, or a password reset.  root is the first token of *)
(* a session's line of rotations, password the one that its user had when  *)
(* the line began.                                                         *)
(***************************************************************************)
Token == [kind : {"none", "session", "reset"}, user : Users \cup {None},
          root : Jtis \cup {None}, password : Nat]

Unsigned == [kind |-> "none", user |-> None, root |-> None, password |-> 0]

PCs == {"idle", "compare", "count", "expire", "clear", "issue", "storeCode",
        "callback", "profile", "lookup", "rotate", "dropOld",
        "handle", "save", "invalidate", "scan", "delete", "dropSession",
        "store", "coolDown", "attempt", "arm", "burn", "consume", "verify"}

(***************************************************************************)
(* A request in flight.  token is the token it presented, new the one it   *)
(* signed; password and otp are what it read of them; doomed are the       *)
(* session keys it has found and will delete.                              *)
(***************************************************************************)
RequestRecord ==
  [op       : AllOps \cup {"none"},
   pc       : PCs,
   user     : Users \cup {None},
   token    : Jtis \cup {None},
   new      : Jtis \cup {None},
   password : Nat,
   otp      : Nat,
   doomed   : SUBSET Jtis]

Idle == [op |-> "none", pc |-> "idle", user |-> None, token |-> None,
         new |-> None, password |-> 0, otp |-> 0, doomed |-> {}]

At(r, label)   == request[r].pc = label
Goto(r, label) == request' = [request EXCEPT ![r].pc = label]
Finish(r)      == request' = [request EXCEPT ![r] = Idle]

Begin(r, op, rec) ==
  /\ op \in Ops
  /\ At(r, "idle")
  /\ request' = [request EXCEPT ![r] = [rec EXCEPT !.op = op]]

(***************************************************************************)
(* History.  spent[i]: tokens that a finished logout or password change    *)
(* invalidated on instance i; ended: lines of sessions that were revoked;  *)
(* spared: lines that a new password left alone, because it was the first  *)
(* one, or the revocation of all sessions failed or lost their keys, or    *)
(* they were renewed meanwhile; racing: requests in flight at that time;   *)
(* guesses: wrong guesses at the current OTP; uncounted: those of them     *)
(* that died before they were counted or took the OTP away; sends: OTPs    *)
(* stored since the last cooldown ended; uncooled: those of them whose     *)
(* request died before it began a cooldown; proof: the OTP with which the  *)
(* user was verified; untimed: failed logins since the counter was 0 whose *)
(* EXPIRE was never sent.                                                  *)
(***************************************************************************)
History == [spent : [Instances -> SUBSET Jtis], ended : SUBSET Jtis,
            spared : SUBSET Jtis, racing : SUBSET Requests,
            guesses : [Users -> Nat], uncounted : [Users -> Nat],
            sends : [Users -> Nat], uncooled : [Users -> Nat],
            proof : [Users -> Nat], untimed : [Users -> Nat]]

TypeOK ==
  /\ account \in [Users -> Account]
  /\ issued \in [Jtis -> Token]
  /\ refreshSession \subseteq Jtis
  /\ oauthState \in [OAuthStates -> {"new", "stored", "deleted"}]
  /\ authCode \subseteq Jtis
  /\ blacklist \subseteq Jtis
  /\ localBlacklist \in [Instances -> SUBSET Jtis]
  /\ syncing \subseteq Instances
  /\ redisUp \in BOOLEAN
  /\ failedLogin \in [Users -> Nat]
  /\ failedTtl \subseteq Users
  /\ otp \in [Users -> Nat]
  /\ lastOtp \in Nat
  /\ otpAttempts \in [Users -> Nat]
  /\ attemptsTtl \in [Users -> Nat \cup {-1}]
  /\ cooldown \subseteq Users
  /\ failures \in Nat
  /\ request \in [Requests -> RequestRecord]
  /\ history \in History

Init ==
  /\ account = InitialAccounts
  /\ issued = [j \in Jtis |-> Unsigned]
  /\ refreshSession = {} /\ authCode = {}
  /\ oauthState = [s \in OAuthStates |-> "new"]
  /\ blacklist = {} /\ localBlacklist = [i \in Instances |-> {}]
  /\ syncing = {} /\ redisUp = TRUE
  /\ failedLogin = [u \in Users |-> 0] /\ failedTtl = {}
  /\ otp = [u \in Users |-> 0] /\ lastOtp = 0
  /\ otpAttempts = [u \in Users |-> 0]
  /\ attemptsTtl = [u \in Users |-> -1]
  /\ cooldown = {} /\ failures = 0
  /\ request = [r \in Requests |-> Idle]
  /\ history = [spent |-> [i \in Instances |-> {}], ended |-> {},
                spared |-> {}, racing |-> {}, guesses |-> [u \in Users |-> 0],
                uncounted |-> [u \in Users |-> 0],
                sends |-> [u \in Users |-> 0],
                uncooled |-> [u \in Users |-> 0],
                proof |-> [u \in Users |-> 0], untimed |-> [u \in Users |-> 0]]

-----------------------------------------------------------------------------
\* The soft-delete plugin hides deleted documents from every query.
Found(u) == account[u].isActive # "NONE" /\ ~account[u].isDeleted

\* What checkAuth, checkResetToken, passport and forgotPassword demand.
MayAct(u) ==
  Found(u) /\ account[u].isVerified /\ account[u].isActive = "ACTIVE"

\* Token j is signed now; the jti is a fresh UUID.
Sign(j, kind, u, root, password) ==
  /\ issued[j] = Unsigned
  /\ issued' = [issued EXCEPT ![j] =
       [kind |-> kind, user |-> u, root |-> root, password |-> password]]
=============================================================================
