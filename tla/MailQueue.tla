----------------------------- MODULE MailQueue -----------------------------
(***************************************************************************)
(* sendEmailDirect.ts, mail.queue.ts and mail.worker.ts: a mail goes to    *)
(* the queue, where a worker tries a few times to send it, or, without the *)
(* queue or when the queue refuses it, directly to the mail server.        *)
(***************************************************************************)
EXTENDS PlatformStore

\* A request on process i mails m, an invoice or something else.
SendEmailDirect(i, m, invoice) ==
  /\ "http" \in open[i]
  /\ call[m].at = "none"
  /\ call' = [call EXCEPT ![m] = [at |-> IF UseBullMQ THEN "add" ELSE "send",
                                  invoice |-> invoice, on |-> i]]
  /\ UNCHANGED <<serverVars, job, copies, doubts, failures>>

\* MUTANT of Enqueue: the direct mail follows in any case.
EnqueueAndSend(m) ==
  /\ call[m].at = "add" /\ "queue" \in open[call[m].on]
  /\ call' = [call EXCEPT ![m].at = "send"]
  /\ job' = [job EXCEPT ![m].at = "waiting"]
  /\ UNCHANGED <<serverVars, copies, doubts, failures>>

Enqueue(m) ==
  /\ call[m].at = "add" /\ "queue" \in open[call[m].on]
  /\ call' = [call EXCEPT ![m] = Over(@)]
  /\ job' = [job EXCEPT ![m].at = "waiting"]
  /\ UNCHANGED <<serverVars, copies, doubts, failures>>

\* mailQueue.add is rejected, as it is when the queue is closed: the mail is
\* sent directly.
EnqueueRefused(m) ==
  /\ call[m].at = "add"
  /\ call' = [call EXCEPT ![m].at = "send"]
  /\ IF "queue" \in open[call[m].on] THEN Fault ELSE UNCHANGED failures
  /\ UNCHANGED <<serverVars, job, copies, doubts>>

\* The queue took the job, but the call fails: the mail goes both ways.
EnqueueUnanswered(m) ==
  /\ call[m].at = "add" /\ "queue" \in open[call[m].on]
  /\ Fault
  /\ call' = [call EXCEPT ![m].at = "send"]
  /\ job' = [job EXCEPT ![m].at = "waiting"]
  /\ doubts' = [doubts EXCEPT ![m] = @ + 1]
  /\ UNCHANGED <<serverVars, copies>>

\* sendEmail in the request: the mail server takes the mail or not; there is
\* no other attempt.
SendDirectly(m) ==
  /\ call[m].at = "send"
  /\ call' = [call EXCEPT ![m] = Over(@)]
  /\ \/ copies' = [copies EXCEPT ![m] = @ + 1]
     \/ UNCHANGED copies
  /\ UNCHANGED <<serverVars, job, doubts, failures>>

-----------------------------------------------------------------------------
\* The worker of process i takes a job, unless it has enough of them.
TakeJob(i, m) ==
  /\ "worker" \in open[i]
  /\ job[m].at = "waiting"
  /\ Cardinality(JobsOn(i)) < Concurrency
  /\ job' = [job EXCEPT ![m].at = "active", ![m].on = i]
  /\ UNCHANGED <<serverVars, call, copies, doubts, failures>>

\* MUTANT of AfterFailure: the attempt is not counted.
RetryForEver(rec) == [rec EXCEPT !.at = "delayed", !.on = None]

\* The job is tried again after a backoff, until the attempts are used up.
AfterFailure(rec) ==
  [rec EXCEPT !.at = IF rec.attempts + 1 = Attempts THEN "failed" ELSE "delayed",
              !.on = None, !.attempts = @ + 1]

(***************************************************************************)
(* An invoice comes first to generatePDF, which calls a method of Date on  *)
(* enrollmentDate; the queue keeps its data as JSON, where a date is a     *)
(* string: the attempt fails before anything is uploaded or sent.          *)
(***************************************************************************)
MakeInvoice(m) ==
  /\ job[m].at = "active" /\ call[m].invoice
  /\ job' = [job EXCEPT ![m] = AfterFailure(@)]
  /\ UNCHANGED <<serverVars, call, copies, doubts, failures>>

SendFromWorker(m) ==
  /\ job[m].at = "active" /\ ~call[m].invoice
  /\ \/ /\ job' = [job EXCEPT ![m].at = "sent"]
        /\ copies' = [copies EXCEPT ![m] = @ + 1]
        /\ UNCHANGED <<doubts, failures>>
     \/ /\ job' = [job EXCEPT ![m] = AfterFailure(@)]
        /\ UNCHANGED <<copies, doubts, failures>>
     \/ /\ Fault   \* the mail server took the mail, its reply was lost
        /\ job' = [job EXCEPT ![m] = AfterFailure(@)]
        /\ copies' = [copies EXCEPT ![m] = @ + 1]
        /\ doubts' = [doubts EXCEPT ![m] = @ + 1]
  /\ UNCHANGED <<serverVars, call>>

\* The worker tells the queue that the job is done, which removes it.
CompleteJob(m) ==
  /\ job[m].at = "sent"
  /\ job' = [job EXCEPT ![m] = [at |-> "done", on |-> None, attempts |-> 0,
                                stalls |-> 0]]
  /\ UNCHANGED <<serverVars, call, copies, doubts, failures>>

BackoffEnds(m) ==
  /\ job[m].at = "delayed"
  /\ job' = [job EXCEPT ![m].at = "waiting"]
  /\ UNCHANGED <<serverVars, call, copies, doubts, failures>>

\* A worker of some process finds a job whose lock has run out.
RecoverStalled(m) ==
  /\ job[m].at = "stalled"
  /\ \E i \in Workers : "worker" \in open[i]
  /\ job' = [job EXCEPT
       ![m] = IF job[m].stalls = MaxStalls THEN [job[m] EXCEPT !.at = "failed"]
              ELSE [job[m] EXCEPT !.at = "waiting",
                                  !.stalls = job[m].stalls + 1]]
  /\ UNCHANGED <<serverVars, call, copies, doubts, failures>>
=============================================================================
