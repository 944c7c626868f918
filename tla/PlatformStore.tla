--------------------------- MODULE PlatformStore ---------------------------
(***************************************************************************)
(* The state of the deployment: the processes that run server.ts, the      *)
(* super admin in MongoDB, and the mails on their way, some as jobs of the *)
(* BullMQ queue in Redis.                                                  *)
(***************************************************************************)
EXTENDS Naturals, FiniteSets

CONSTANTS
  Instances,       \* processes; each is restarted when it ends
  Workers,         \* those with RUN_WORKER=true
  Mails,           \* calls of sendEmailDirect
  UseBullMQ,       \* USE_BULLMQ=true
  Production,      \* NODE_ENV=production
  StrongPassword,  \* isPasswordStrongEnough(SUPER_ADMIN_PASSWORD)
  Concurrency,     \* jobs that a worker runs at a time, five in the code
  Attempts,        \* defaultJobOptions.attempts, three in the code
  MaxStalls,       \* how often BullMQ lets a job stall
  None,
  MaxSignals,      \* bound: signals and unhandled errors
  MaxFailures      \* bound: kills, refused connections and lost replies

VARIABLES
  phase,      \* how far the main function of each process has come
  shutdown,   \* how far its gracefulShutdown has come
  open,       \* what each process has open
  admins,     \* how many users have the super admin's e-mail address
  call,       \* the calls of sendEmailDirect
  job,        \* the jobs of the queue, one per call at most
  copies,     \* how many copies of each mail the mail server took
  doubts,     \* how often a sender could not know what became of the mail
  signals,    \* how many signals there were
  failures    \* how many faults there were

vars == <<phase, shutdown, open, admins, call, job, copies, doubts, signals,
          failures>>

serverVars == <<phase, shutdown, open, admins, signals>>
mailVars   == <<call, job, copies, doubts>>

Phases == {"off", "redis", "mongo", "find", "create", "worker", "up"}

Stages == {"no", "http", "worker", "queue", "mongo", "redis", "exit"}

Resources == {"http", "worker", "queue", "mongo", "redis"}

\* invoice: the mail has the invoice template.
CallRecord == [at : {"none", "add", "send", "over"}, invoice : BOOLEAN,
               on : Instances \cup {None}]

JobRecord ==
  [at : {"none", "waiting", "active", "sent", "delayed", "stalled", "done",
         "failed"},
   on : Instances \cup {None},
   attempts : 0..Attempts, stalls : 0..MaxStalls]

ASSUME PlatformAssumption ==
  /\ IsFiniteSet(Mails)
  /\ Workers \subseteq Instances
  /\ None \notin Instances
  /\ {UseBullMQ, Production, StrongPassword} \subseteq BOOLEAN
  /\ {Concurrency, Attempts} \subseteq Nat \ {0} /\ MaxStalls \in Nat
  /\ {MaxSignals, MaxFailures} \subseteq Nat

\* Types; and the e-mail address of the super admin is in use once.
TypeOK ==
  /\ phase \in [Instances -> Phases]
  /\ shutdown \in [Instances -> Stages]
  /\ open \in [Instances -> SUBSET Resources]
  /\ admins \in 0..1
  /\ call \in [Mails -> CallRecord]
  /\ job \in [Mails -> JobRecord]
  /\ copies \in [Mails -> Nat] /\ doubts \in [Mails -> Nat]
  /\ signals \in 0..MaxSignals /\ failures \in 0..MaxFailures

Init ==
  /\ phase = [i \in Instances |-> "off"]
  /\ shutdown = [i \in Instances |-> "no"]
  /\ open = [i \in Instances |-> {}]
  /\ admins = 0
  /\ call = [m \in Mails |-> [at |-> "none", invoice |-> FALSE, on |-> None]]
  /\ job = [m \in Mails |->
              [at |-> "none", on |-> None, attempts |-> 0, stalls |-> 0]]
  /\ copies = [m \in Mails |-> 0] /\ doubts = [m \in Mails |-> 0]
  /\ signals = 0 /\ failures = 0

-----------------------------------------------------------------------------
Running(m) == job[m].at \in {"active", "sent"}

\* The request that calls sendEmailDirect has not been answered.
Pending(m) == call[m].at \in {"add", "send"}

JobsOn(i) == {m \in Mails : Running(m) /\ job[m].on = i}

CallsOn(i) == {m \in Mails : Pending(m) /\ call[m].on = i}

Over(rec) == [rec EXCEPT !.at = "over", !.on = None]

Fault ==
  /\ failures < MaxFailures
  /\ failures' = failures + 1

(***************************************************************************)
(* The process ends: its requests get no answer, its jobs lose their lock  *)
(* after a while, and whether a mail just sent was the last, nobody knows. *)
(***************************************************************************)
Die(i) ==
  /\ phase' = [phase EXCEPT ![i] = "off"]
  /\ shutdown' = [shutdown EXCEPT ![i] = "no"]
  /\ open' = [open EXCEPT ![i] = {}]
  /\ call' = [m \in Mails |-> IF m \in CallsOn(i) THEN Over(call[m])
                              ELSE call[m]]
  /\ job' = [m \in Mails |->
       IF m \in JobsOn(i)
       THEN [job[m] EXCEPT !.at = "stalled", !.on = None] ELSE job[m]]
  /\ doubts' = [m \in Mails |->
       IF m \in JobsOn(i) /\ job[m].at = "sent"
       THEN doubts[m] + 1 ELSE doubts[m]]
  /\ UNCHANGED <<admins, copies, signals>>
=============================================================================
