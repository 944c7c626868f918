------------------------------ MODULE Platform ------------------------------
(***************************************************************************)
(* The deployment: processes that start, serve, shut down and die, and the *)
(* mails that their requests send and their workers deliver.               *)
(***************************************************************************)
EXTENDS MailQueue, Server

Start(i) ==
  \/ ConnectRedis(i) \/ StartServer(i)
  \/ FindAdmin(i) \/ CreateAdmin(i) \/ StartWorker(i)

Stop(i) ==
  \/ CloseHttp(i) \/ StopWorker(i) \/ CloseWorker(i) \/ CloseMongo(i)
  \/ CloseRedis(i) \/ CloseFails(i) \/ Exit(i) \/ ForceExit(i)

Work(m) ==
  \/ \E i \in Workers : TakeJob(i, m)
  \/ MakeInvoice(m) \/ SendFromWorker(m) \/ CompleteJob(m)
  \/ BackoffEnds(m) \/ RecoverStalled(m)

Request(m) ==
  \/ \E i \in Instances, invoice \in BOOLEAN : SendEmailDirect(i, m, invoice)
  \/ Enqueue(m) \/ EnqueueRefused(m) \/ EnqueueUnanswered(m)
  \/ SendDirectly(m)

Next ==
  \/ \E i \in Instances :
       Boot(i) \/ Start(i) \/ GracefulShutdown(i) \/ Stop(i) \/ Kill(i)
  \/ \E m \in Mails : Work(m) \/ Request(m)

Spec == Init /\ [][Next]_vars

(***************************************************************************)
(* The container runtime restarts a process, the main function goes on,    *)
(* the timer of the shutdown runs out, and workers go on with their jobs.  *)
(* Nothing is assumed of requests and of the closings: they may hang.      *)
(***************************************************************************)
FairSpec ==
  /\ Spec
  /\ \A i \in Instances :
       WF_vars(Boot(i) \/ Start(i)) /\ WF_vars(ForceExit(i))
  /\ \A m \in Mails : WF_vars(Work(m))

-----------------------------------------------------------------------------
(***************************************************************************)
(* sendEmailDirect and the worker.  A mail arrives twice only if a reply   *)
(* was lost: that of the queue, that of the mail server, or the news that  *)
(* a job was done, when the process died before it could tell.             *)
(***************************************************************************)
CopiesAreExplained == \A m \in Mails : copies[m] <= 1 + doubts[m]

(***************************************************************************)
(* gracefulShutdown.  MongoDB is not closed under a request, but for those *)
(* of a server that began to listen after its closing had been skipped,    *)
(* and no connection is closed under a job.                                *)
(***************************************************************************)
ConnectionsOutliveWork ==
  /\ \A i \in Instances :
       CallsOn(i) # {} => {"mongo", "http"} \cap open[i] # {}
  /\ \A i \in Instances :
       JobsOn(i) # {} => {"mongo", "redis", "queue"} \subseteq open[i]

(***************************************************************************)
(* The queue.  Every job it took ends as done or failed, though processes  *)
(* die and mail servers refuse: none is forgotten and none tried for ever. *)
(***************************************************************************)
JobsAreSettled ==
  \A m \in Mails :
    (job[m].at # "none") ~> (job[m].at \in {"done", "failed"})

(***************************************************************************)
(* seedSuperAdmin.  When processes start together one of them loses the    *)
(* race to create the super admin and, in production, ends; but once there *)
(* are no more faults all come up and stay up.                             *)
(***************************************************************************)
AllComeUp == <>[](\A i \in Instances : phase[i] = "up")
=============================================================================
