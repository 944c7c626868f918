------------------------------- MODULE Server -------------------------------
(***************************************************************************)
(* server.ts and seedSuperAdmin.ts: how a process starts and how it shuts  *)
(* down.  The shutdown may begin at any time, and the start goes on beside *)
(* it until the process has ended.                                         *)
(***************************************************************************)
EXTENDS PlatformStore

Opens(i, res) == open' = [open EXCEPT ![i] = @ \cup res]

\* The container is started, or started again.
Boot(i) ==
  /\ phase[i] = "off"
  /\ phase' = [phase EXCEPT ![i] = "redis"]
  /\ Opens(i, {"queue"})
  /\ UNCHANGED <<shutdown, admins, signals, mailVars, failures>>

\* connectRedis, without which the process does not run.
ConnectRedis(i) ==
  /\ phase[i] = "redis"
  /\ \/ /\ phase' = [phase EXCEPT ![i] = "mongo"]
        /\ Opens(i, {"redis"})
        /\ UNCHANGED <<shutdown, admins, signals, mailVars, failures>>
     \/ Fault /\ Die(i)

\* startServer: listening begins, whatever a shutdown has closed by then.
StartServer(i) ==
  /\ phase[i] = "mongo"
  /\ \/ /\ phase' = [phase EXCEPT ![i] = "find"]
        /\ Opens(i, {"mongo", "http"})
        /\ UNCHANGED <<shutdown, admins, signals, mailVars, failures>>
     \/ Fault /\ Die(i)

\* Without a verified super admin a process in production refuses to run.
SeedFails(i) ==
  IF Production THEN Die(i)
  ELSE /\ phase' = [phase EXCEPT ![i] = "worker"]
       /\ UNCHANGED <<shutdown, open, admins, signals, mailVars>>

\* MUTANT of FindAdmin: the account is created without looking for it.
SeedBlindly(i) ==
  /\ phase[i] = "find" /\ "mongo" \in open[i]
  /\ phase' = [phase EXCEPT ![i] = "create"]
  /\ UNCHANGED <<shutdown, open, admins, signals, mailVars, failures>>

\* seedSuperAdmin looks for the account, and at the password if there is none.
FindAdmin(i) ==
  /\ phase[i] = "find" /\ "mongo" \in open[i]
  /\ IF admins = 0 /\ Production /\ ~StrongPassword THEN SeedFails(i)
     ELSE /\ phase' = [phase EXCEPT
                         ![i] = IF admins = 0 THEN "create" ELSE "worker"]
          /\ UNCHANGED <<shutdown, open, admins, signals, mailVars>>
  /\ UNCHANGED failures

\* MUTANT of CreateAdmin: the e-mail address is not unique.
CreateAnyAdmin(i) ==
  /\ phase[i] = "create" /\ "mongo" \in open[i]
  /\ phase' = [phase EXCEPT ![i] = "worker"]
  /\ admins' = admins + 1
  /\ UNCHANGED <<shutdown, open, signals, mailVars, failures>>

\* Another process may have been faster: the unique index refuses the second.
CreateAdmin(i) ==
  /\ phase[i] = "create" /\ "mongo" \in open[i]
  /\ IF admins = 0
     THEN /\ phase' = [phase EXCEPT ![i] = "worker"]
          /\ admins' = 1
          /\ UNCHANGED <<shutdown, open, signals, mailVars>>
     ELSE SeedFails(i)
  /\ UNCHANGED failures

\* The import starts the worker, unless a shutdown has imported and closed it.
StartWorker(i) ==
  /\ phase[i] = "worker"
  /\ phase' = [phase EXCEPT ![i] = "up"]
  /\ IF i \in Workers /\ shutdown[i] \in {"no", "http"}
     THEN Opens(i, {"worker"}) ELSE UNCHANGED open
  /\ UNCHANGED <<shutdown, admins, signals, mailVars, failures>>

-----------------------------------------------------------------------------
Advance(i, stage, res) ==
  /\ shutdown' = [shutdown EXCEPT ![i] = stage]
  /\ open' = [open EXCEPT ![i] = @ \ res]
  /\ UNCHANGED <<phase, admins, signals, mailVars, failures>>

(***************************************************************************)
(* gracefulShutdown, at a signal or an unhandled error; a second call      *)
(* returns at once.  server.close stops the listening, if it has begun.    *)
(***************************************************************************)
GracefulShutdown(i) ==
  /\ phase[i] # "off" /\ shutdown[i] = "no"
  /\ signals < MaxSignals /\ signals' = signals + 1
  /\ shutdown' = [shutdown EXCEPT
       ![i] = IF "http" \in open[i] THEN "http" ELSE "worker"]
  /\ open' = [open EXCEPT ![i] = @ \ {"http"}]
  /\ UNCHANGED <<phase, admins, mailVars, failures>>

\* MUTANT of CloseHttp: the callback of server.close is not awaited.
CloseHttpAtOnce(i) ==
  /\ shutdown[i] = "http"
  /\ Advance(i, "worker", {})

\* The callback of server.close: the last request has been answered.
CloseHttp(i) ==
  /\ shutdown[i] = "http"
  /\ CallsOn(i) = {}
  /\ Advance(i, "worker", {})

\* mailWorker.close takes no more jobs and waits for those it has.
StopWorker(i) ==
  /\ shutdown[i] = "worker"
  /\ Advance(i, "queue", {"worker"})

CloseWorker(i) ==
  /\ shutdown[i] = "queue" /\ "queue" \in open[i]
  /\ JobsOn(i) = {}
  /\ Advance(i, "mongo", {"queue"})

CloseMongo(i) ==
  /\ shutdown[i] = "mongo"
  /\ Advance(i, "redis", {"mongo"})

CloseRedis(i) ==
  /\ shutdown[i] = "redis"
  /\ Advance(i, "exit", {"redis"})

\* One of the closings fails, and the rest is skipped.
CloseFails(i) ==
  /\ shutdown[i] \in {"queue", "mongo", "redis"}
  /\ Fault
  /\ shutdown' = [shutdown EXCEPT ![i] = "exit"]
  /\ UNCHANGED <<phase, open, admins, signals, mailVars>>

Exit(i) ==
  /\ shutdown[i] = "exit"
  /\ Die(i)
  /\ UNCHANGED failures

\* forceTimer: fifteen seconds after the shutdown began the process ends.
ForceExit(i) ==
  /\ shutdown[i] # "no"
  /\ Die(i)
  /\ UNCHANGED failures

\* The process is killed.
Kill(i) ==
  /\ phase[i] # "off"
  /\ Fault
  /\ Die(i)
=============================================================================
