--------------------------- MODULE PlatformProofs ---------------------------
(***************************************************************************)
(* What holds of the deployment for any number of processes, workers and   *)
(* mails: a mail is sent twice only if a reply was lost, a job is tried    *)
(* at most Attempts times, there is one super admin, and no connection is  *)
(* closed under a job or a request that needs it.                          *)
(***************************************************************************)
EXTENDS Platform, TLAPS

USE DEF vars, serverVars, mailVars

-----------------------------------------------------------------------------
(***************************************************************************)
(* Types.  A job can be tried again as long as it has not failed, and is   *)
(* not there before mailQueue.add was called.                              *)
(***************************************************************************)
JobIsNew == \A m \in Mails : call[m].at \in {"none", "add"} => job[m].at = "none"

AttemptsLeft ==
  \A m \in Mails : job[m].at # "failed" => job[m].attempts < Attempts

CallerKnown == \A m \in Mails : Pending(m) => call[m].on \in Instances

TypeInv == TypeOK /\ JobIsNew /\ AttemptsLeft /\ CallerKnown

\* The start establishes the types.
LEMMA InitTypes == Init => TypeInv
BY PlatformAssumption
   DEF Init, TypeInv, TypeOK, JobIsNew, AttemptsLeft, CallerKnown, Pending,
       Phases, Stages, CallRecord, JobRecord

\* A call that is over, as it ends.
LEMMA OverType ==
  ASSUME NEW rec \in CallRecord
  PROVE  Over(rec) \in CallRecord /\ Over(rec).at = "over"
BY DEF Over, CallRecord

\* The end of a process.
LEMMA DieTypes ==
  ASSUME TypeInv, NEW i \in Instances, Die(i), failures' \in 0..MaxFailures
  PROVE  TypeInv'
<1>1. /\ phase' \in [Instances -> Phases] /\ shutdown' \in [Instances -> Stages]
      /\ open' \in [Instances -> SUBSET Resources] /\ admins' \in 0..1
      /\ copies' \in [Mails -> Nat] /\ signals' \in 0..MaxSignals
  BY DEF Die, TypeInv, TypeOK, Phases, Stages
<1>2. \A m \in Mails :
        /\ call'[m] \in CallRecord
        /\ call'[m] = call[m] \/ call'[m].at = "over"
  BY OverType DEF Die, TypeInv, TypeOK
<1>3. \A m \in Mails :
        /\ job'[m] \in JobRecord /\ job'[m].attempts = job[m].attempts
        /\ job'[m] = job[m] \/ (job'[m].at = "stalled" /\ Running(m))
  BY DEF Die, TypeInv, TypeOK, JobRecord, JobsOn
<1>4. doubts' \in [Mails -> Nat]
  <2>1. \A m \in Mails : doubts[m] \in Nat /\ doubts[m] + 1 \in Nat
    BY DEF TypeInv, TypeOK
  <2> QED  BY <2>1 DEF Die
<1>5. call' \in [Mails -> CallRecord] /\ job' \in [Mails -> JobRecord]
  BY <1>2, <1>3 DEF Die
<1>6. JobIsNew'
  BY <1>2, <1>3 DEF TypeInv, JobIsNew, Running
<1>7. AttemptsLeft'
  BY <1>3 DEF TypeInv, AttemptsLeft, Running
<1>8. CallerKnown'
  BY <1>2 DEF TypeInv, CallerKnown, Pending
<1> QED  BY <1>1, <1>4, <1>5, <1>6, <1>7, <1>8 DEF TypeInv, TypeOK

\* A failed attempt leaves a job with a type, and with attempts if it goes on.
LEMMA AfterFailureType ==
  ASSUME NEW rec \in JobRecord, rec.attempts < Attempts
  PROVE  /\ AfterFailure(rec) \in JobRecord
         /\ AfterFailure(rec).at \in {"delayed", "failed"}
         /\ AfterFailure(rec).at = "delayed"
              => AfterFailure(rec).attempts < Attempts
<1>1. /\ Attempts \in Nat /\ rec.attempts \in 0..Attempts
      /\ rec.attempts + 1 \in 0..Attempts
      /\ rec.attempts + 1 # Attempts => rec.attempts + 1 < Attempts
  BY PlatformAssumption DEF JobRecord
<1> DEFINE n == rec.attempts + 1
<1>2. AfterFailure(rec) =
        [rec EXCEPT !.at = IF n = Attempts THEN "failed" ELSE "delayed",
                    !.on = None, !.attempts = n]
  BY DEF AfterFailure
<1> HIDE DEF n
<1>3. n \in 0..Attempts /\ (n # Attempts => n < Attempts)
  BY <1>1 DEF n
<1> QED  BY <1>2, <1>3 DEF JobRecord

\* The steps of the process preserve the types.
LEMMA ServerTypes ==
  ASSUME TypeInv, NEW i \in Instances,
         Boot(i) \/ Start(i) \/ GracefulShutdown(i) \/ Stop(i) \/ Kill(i)
  PROVE  TypeInv'
<1> USE DEF TypeInv, TypeOK
<1>1. CASE /\ UNCHANGED <<call, job, copies, doubts>>
           /\ phase' \in [Instances -> Phases]
           /\ shutdown' \in [Instances -> Stages]
           /\ open' \in [Instances -> SUBSET Resources] /\ admins' \in 0..1
           /\ signals' \in 0..MaxSignals /\ failures' \in 0..MaxFailures
  BY <1>1 DEF JobIsNew, AttemptsLeft, CallerKnown, Pending
<1>2. CASE Die(i) /\ failures' \in 0..MaxFailures
  BY <1>2, DieTypes
<1>3. failures' \in 0..MaxFailures
  BY PlatformAssumption
     DEF Boot, Start, ConnectRedis, StartServer, FindAdmin, CreateAdmin,
         StartWorker, GracefulShutdown, Stop, CloseHttp, StopWorker,
         CloseWorker, CloseMongo, CloseRedis, CloseFails, Exit, ForceExit,
         Kill, Advance, SeedFails, Fault
<1>4. CASE Boot(i)
  BY <1>1, <1>3, <1>4 DEF Boot, Opens, Phases, Resources
<1>5. CASE Start(i)
  <2>1. CASE ConnectRedis(i)
    BY <1>1, <1>2, <1>3, <2>1 DEF ConnectRedis, Opens, Phases, Resources
  <2>2. CASE StartServer(i)
    BY <1>1, <1>2, <1>3, <2>2 DEF StartServer, Opens, Phases, Resources
  <2>3. CASE FindAdmin(i)
    BY <1>1, <1>2, <1>3, <2>3 DEF FindAdmin, SeedFails, Phases
  <2>4. CASE CreateAdmin(i)
    BY <1>1, <1>2, <1>3, <2>4 DEF CreateAdmin, SeedFails, Phases
  <2>5. CASE StartWorker(i)
    BY <1>1, <1>3, <2>5 DEF StartWorker, Opens, Phases, Resources
  <2> QED  BY <1>5, <2>1, <2>2, <2>3, <2>4, <2>5 DEF Start
<1>6. CASE GracefulShutdown(i)
  BY <1>1, <1>3, <1>6, PlatformAssumption DEF GracefulShutdown, Stages
<1>7. CASE Stop(i)
  <2>1. CASE CloseHttp(i) \/ StopWorker(i) \/ CloseWorker(i) \/ CloseMongo(i)
             \/ CloseRedis(i)
    BY <1>1, <1>3, <2>1
       DEF CloseHttp, StopWorker, CloseWorker, CloseMongo, CloseRedis, Advance,
           Stages
  <2>2. CASE CloseFails(i)
    BY <1>1, <1>3, <2>2 DEF CloseFails, Stages
  <2>3. CASE Exit(i) \/ ForceExit(i)
    BY <1>2, <1>3, <2>3 DEF Exit, ForceExit
  <2> QED  BY <1>7, <2>1, <2>2, <2>3 DEF Stop
<1>8. CASE Kill(i)
  BY <1>2, <1>3, <1>8 DEF Kill
<1> QED  BY <1>4, <1>5, <1>6, <1>7, <1>8

\* A step that writes the call and the job of one mail.
LEMMA OneMail ==
  ASSUME TypeInv, NEW m \in Mails, NEW c \in CallRecord, NEW j \in JobRecord,
         call' = [call EXCEPT ![m] = c], job' = [job EXCEPT ![m] = j],
         copies' \in [Mails -> Nat], doubts' \in [Mails -> Nat],
         failures' \in 0..MaxFailures, UNCHANGED serverVars,
         c.at \in {"none", "add"} => j.at = "none",
         j.at # "failed" => j.attempts < Attempts,
         c.at \in {"add", "send"} => c.on \in Instances
  PROVE  TypeInv'
<1>1. TypeOK'
  BY DEF TypeInv, TypeOK
<1>2. JobIsNew' /\ AttemptsLeft' /\ CallerKnown'
  BY DEF TypeInv, TypeOK, JobIsNew, AttemptsLeft, CallerKnown, Pending
<1> QED  BY <1>1, <1>2 DEF TypeInv

\* The steps of requests and jobs preserve the types.
LEMMA MailTypes ==
  ASSUME TypeInv, NEW m \in Mails, Work(m) \/ Request(m)
  PROVE  TypeInv'
<1> DEFINE c == call'[m]
           j == job'[m]
<1>1. /\ call[m] \in CallRecord /\ job[m] \in JobRecord
      /\ call[m].at \in {"none", "add"} => job[m].at = "none"
      /\ job[m].at # "failed" => job[m].attempts < Attempts
      /\ call[m].at \in {"add", "send"} => call[m].on \in Instances
  BY DEF TypeInv, TypeOK, JobIsNew, AttemptsLeft, CallerKnown, Pending
<1>2. /\ failures' \in 0..MaxFailures /\ UNCHANGED serverVars
      /\ copies' \in [Mails -> Nat] /\ doubts' \in [Mails -> Nat]
  BY PlatformAssumption
     DEF TypeInv, TypeOK, Work, Request, TakeJob, MakeInvoice, SendFromWorker,
         CompleteJob, BackoffEnds, RecoverStalled, SendEmailDirect, Enqueue,
         EnqueueRefused, EnqueueUnanswered, SendDirectly, Fault
<1>3. CASE Work(m)
  <2>1. UNCHANGED call
    BY <1>3 DEF Work, TakeJob, MakeInvoice, SendFromWorker, CompleteJob,
                BackoffEnds, RecoverStalled
  <2>2. /\ job' = [job EXCEPT ![m] = j] /\ j \in JobRecord
        /\ job[m].at # "none"
        /\ j.at # "failed" => j.attempts < Attempts
    <3>1. CASE \E i \in Workers : TakeJob(i, m)
      <4>1. PICK i \in Instances : TakeJob(i, m)
        BY <3>1, PlatformAssumption
      <4>2. j = [job[m] EXCEPT !.at = "active", !.on = i]
        BY <4>1 DEF TakeJob, TypeInv, TypeOK
      <4> QED  BY <1>1, <4>1, <4>2 DEF TakeJob, JobRecord, TypeInv, TypeOK
    <3>2. CASE MakeInvoice(m)
      BY <1>1, <3>2, AfterFailureType DEF MakeInvoice, TypeInv, TypeOK
    <3>3. CASE SendFromWorker(m)
      <4>1. CASE job' = [job EXCEPT ![m].at = "sent"]
        BY <1>1, <3>3, <4>1 DEF SendFromWorker, JobRecord, TypeInv, TypeOK
      <4>2. CASE job' = [job EXCEPT ![m] = AfterFailure(@)]
        BY <1>1, <3>3, <4>2, AfterFailureType DEF SendFromWorker, TypeInv, TypeOK
      <4> QED  BY <3>3, <4>1, <4>2 DEF SendFromWorker
    <3>4. CASE CompleteJob(m)
      BY <1>1, <3>4, PlatformAssumption
         DEF CompleteJob, JobRecord, TypeInv, TypeOK
    <3>5. CASE BackoffEnds(m)
      BY <1>1, <3>5 DEF BackoffEnds, JobRecord, TypeInv, TypeOK
    <3>6. CASE RecoverStalled(m)
      <4>1. job[m].stalls \in 0..MaxStalls /\ MaxStalls \in Nat
        BY <1>1, PlatformAssumption DEF JobRecord
      <4>2. CASE job[m].stalls = MaxStalls
        BY <1>1, <3>6, <4>2 DEF RecoverStalled, JobRecord, TypeInv, TypeOK
      <4>3. CASE job[m].stalls # MaxStalls
        <5>1. job[m].stalls + 1 \in 0..MaxStalls
          BY <4>1, <4>3
        <5>2. /\ job' = [job EXCEPT ![m] = j]
              /\ j = [job[m] EXCEPT !.at = "waiting",
                                    !.stalls = job[m].stalls + 1]
          <6>1. job' = [job EXCEPT ![m] = [job[m] EXCEPT
                          !.at = "waiting", !.stalls = job[m].stalls + 1]]
            BY <3>6, <4>3 DEF RecoverStalled
          <6> QED  BY <6>1 DEF TypeInv, TypeOK
        <5> HIDE DEF j
        <5> QED  BY <1>1, <3>6, <5>1, <5>2 DEF RecoverStalled, JobRecord
      <4> QED  BY <4>2, <4>3
    <3> QED  BY <1>3, <3>1, <3>2, <3>3, <3>4, <3>5, <3>6 DEF Work
  <2>3. call' = [call EXCEPT ![m] = call[m]]
    BY <2>1 DEF TypeInv, TypeOK
  <2> HIDE DEF j
  <2> QED  BY <1>1, <1>2, <2>2, <2>3, OneMail
<1>4. CASE Request(m)
  <2>1. /\ call' = [call EXCEPT ![m] = c] /\ c \in CallRecord
        /\ c.at \in {"add", "send"} => c.on \in Instances
    BY <1>1, <1>4, OverType
       DEF Request, SendEmailDirect, Enqueue, EnqueueRefused, EnqueueUnanswered,
           SendDirectly, CallRecord, TypeInv, TypeOK
  <2>2. /\ job' = [job EXCEPT ![m] = j] /\ j \in JobRecord
        /\ j.at # "failed" => j.attempts < Attempts
        /\ c.at \in {"none", "add"} => j.at = "none"
    <3>1. CASE \/ \E i \in Instances, invoice \in BOOLEAN :
                    SendEmailDirect(i, m, invoice)
               \/ EnqueueRefused(m) \/ SendDirectly(m)
      <4>1. job' = [job EXCEPT ![m] = job[m]] /\ j = job[m]
        BY <3>1 DEF SendEmailDirect, EnqueueRefused, SendDirectly, TypeInv, TypeOK
      <4>2. c.at \in {"none", "add"} => call[m].at = "none"
        BY <1>1, <3>1, OverType
           DEF SendEmailDirect, EnqueueRefused, SendDirectly, CallRecord,
               TypeInv, TypeOK
      <4> QED  BY <1>1, <4>1, <4>2
    <3>2. CASE Enqueue(m) \/ EnqueueUnanswered(m)
      <4>1. job' = [job EXCEPT ![m] = j] /\ j = [job[m] EXCEPT !.at = "waiting"]
        BY <3>2 DEF Enqueue, EnqueueUnanswered, TypeInv, TypeOK
      <4>2. c.at \in {"over", "send"} /\ call[m].at = "add"
        BY <1>1, <3>2, OverType
           DEF Enqueue, EnqueueUnanswered, CallRecord, TypeInv, TypeOK
      <4> HIDE DEF c, j
      <4> QED  BY <1>1, <4>1, <4>2 DEF JobRecord
    <3> QED  BY <1>4, <3>1, <3>2 DEF Request
  <2> HIDE DEF c, j
  <2> QED  BY <1>2, <2>1, <2>2, OneMail
<1> QED  BY <1>3, <1>4

\* Types are an invariant.
LEMMA TypeStep == TypeInv /\ [Next]_vars => TypeInv'
<1> SUFFICES ASSUME TypeInv, [Next]_vars PROVE TypeInv'
  OBVIOUS
<1>1. CASE Next
  BY <1>1, ServerTypes, MailTypes DEF Next
<1>2. CASE UNCHANGED vars
  BY <1>2 DEF TypeInv, TypeOK, JobIsNew, AttemptsLeft, CallerKnown, Pending
<1> QED  BY <1>1, <1>2

\* TypeOK is an invariant of every deployment: among the rest, the e-mail
\* address of the super admin is in use once at most, and no job is tried more
\* than Attempts times.
THEOREM PlatformTypes == Spec => []TypeOK
<1>1. TypeInv => TypeOK
  BY DEF TypeInv
<1> QED  BY InitTypes, TypeStep, <1>1, PTL DEF Spec

-----------------------------------------------------------------------------
(***************************************************************************)
(* Copies.  CopiesAreExplained is not inductive: what counts, too, is how  *)
(* often a mail may still be sent, by its call and by its job.             *)
(***************************************************************************)
ToSend(m) ==
  (IF call[m].at = "over" THEN 0 ELSE 1)
    + (IF job[m].at \in {"waiting", "active", "delayed", "stalled"} THEN 1 ELSE 0)

CopiesBounded == \A m \in Mails : copies[m] + ToSend(m) <= 1 + doubts[m]

\* Of one mail: a step that explains what it adds keeps the bound.
LEMMA CopiesExplained ==
  ASSUME NEW a \in Nat, NEW b \in Nat, NEW c \in 0..2,
         NEW a1 \in Nat, NEW b1 \in Nat, NEW c1 \in 0..2,
         a + c <= 1 + b, (a1 - a) + (c1 - c) <= b1 - b
  PROVE  a1 + c1 <= 1 + b1
OBVIOUS

\* ToSend counts to two.
LEMMA ToSendType == \A m : ToSend(m) \in 0..2 /\ ToSend(m)' \in 0..2
BY DEF ToSend

\* The end of a process adds no copy, and a doubt for each mail just sent.
LEMMA DieCopies ==
  ASSUME TypeInv, CopiesBounded, NEW i \in Instances, Die(i)
  PROVE  CopiesBounded'
<1> SUFFICES ASSUME NEW m \in Mails
             PROVE  copies'[m] + ToSend(m)' <= 1 + doubts'[m]
  BY DEF CopiesBounded
<1>1. copies[m] \in Nat /\ doubts[m] \in Nat
      /\ copies[m] + ToSend(m) <= 1 + doubts[m] /\ copies'[m] = copies[m]
  BY DEF TypeInv, TypeOK, CopiesBounded, Die
<1>2. call'[m].at = call[m].at \/ call'[m].at = "over"
  BY OverType DEF Die, TypeInv, TypeOK
<1>3. CASE m \in JobsOn(i) /\ job[m].at = "sent"
  <2>1. doubts'[m] = doubts[m] + 1
    BY <1>3 DEF Die
  <2>2. ToSend(m)' <= ToSend(m) + 1
    BY <1>2, <1>3 DEF ToSend
  <2> QED  BY <1>1, <2>1, <2>2, ToSendType
<1>4. CASE ~(m \in JobsOn(i) /\ job[m].at = "sent")
  <2>1. doubts'[m] = doubts[m]
    BY <1>4 DEF Die
  <2>2. job'[m].at = job[m].at \/ job[m].at = "active"
    BY <1>4 DEF Die, JobsOn, Running
  <2>3. ToSend(m)' <= ToSend(m)
    BY <1>2, <2>2 DEF ToSend
  <2> QED  BY <1>1, <2>1, <2>3, ToSendType
<1> QED  BY <1>3, <1>4

\* The steps of the process preserve the bound.
LEMMA ServerCopies ==
  ASSUME TypeInv, CopiesBounded, NEW i \in Instances,
         Boot(i) \/ Start(i) \/ GracefulShutdown(i) \/ Stop(i) \/ Kill(i)
  PROVE  CopiesBounded'
<1>1. Die(i) \/ UNCHANGED mailVars
  BY DEF Boot, Start, ConnectRedis, StartServer, FindAdmin, CreateAdmin,
         StartWorker, GracefulShutdown, Stop, CloseHttp, StopWorker,
         CloseWorker, CloseMongo, CloseRedis, CloseFails, Exit, ForceExit,
         Kill, Advance, SeedFails
<1>2. CASE UNCHANGED mailVars
  BY <1>2 DEF CopiesBounded, ToSend
<1> QED  BY <1>1, <1>2, DieCopies

\* The steps of requests and jobs preserve the bound.
LEMMA MailCopies ==
  ASSUME TypeInv, CopiesBounded, NEW m \in Mails, Work(m) \/ Request(m)
  PROVE  CopiesBounded'
<1>1. \A n \in Mails : copies[n] \in Nat /\ doubts[n] \in Nat
        /\ copies'[n] \in Nat /\ doubts'[n] \in Nat
        /\ copies[n] + ToSend(n) <= 1 + doubts[n]
  BY MailTypes DEF TypeInv, TypeOK, CopiesBounded
<1>2. \A n \in Mails \ {m} : /\ call'[n] = call[n] /\ job'[n] = job[n]
                            /\ copies'[n] = copies[n] /\ doubts'[n] = doubts[n]
  BY DEF TypeInv, TypeOK, Work, Request, TakeJob, MakeInvoice, SendFromWorker,
         CompleteJob, BackoffEnds, RecoverStalled, SendEmailDirect, Enqueue,
         EnqueueRefused, EnqueueUnanswered, SendDirectly
<1>3. \A n \in Mails \ {m} : copies'[n] + ToSend(n)' <= 1 + doubts'[n]
  BY <1>1, <1>2 DEF ToSend
<1>4. (copies'[m] - copies[m]) + (ToSend(m)' - ToSend(m)) <= doubts'[m] - doubts[m]
  <2> USE <1>1 DEF TypeInv, TypeOK
  <2>1. CASE Work(m)
    <3>1. CASE \/ \E i \in Workers : TakeJob(i, m)
               \/ CompleteJob(m) \/ BackoffEnds(m) \/ RecoverStalled(m)
      <4>1. UNCHANGED <<call, copies, doubts>>
        BY <3>1 DEF TakeJob, CompleteJob, BackoffEnds, RecoverStalled
      <4>2. \/ job[m].at \in {"waiting", "delayed", "stalled"}
            \/ job'[m].at = "done"
        BY <3>1 DEF TakeJob, CompleteJob, BackoffEnds, RecoverStalled
      <4>3. ToSend(m)' <= ToSend(m)
        BY <4>1, <4>2 DEF ToSend
      <4> QED  BY <4>1, <4>3, ToSendType
    <3>2. CASE MakeInvoice(m)
      BY <3>2, ToSendType DEF MakeInvoice, ToSend
    <3>3. CASE SendFromWorker(m)
      <4>1. job[m].at = "active" /\ UNCHANGED call
        BY <3>3 DEF SendFromWorker
      <4>2. CASE job'[m].at = "sent" /\ copies'[m] = copies[m] + 1
                 /\ doubts'[m] = doubts[m]
        BY <4>1, <4>2 DEF ToSend
      <4>3. CASE copies'[m] - copies[m] <= doubts'[m] - doubts[m]
        <5>1. ToSend(m)' <= ToSend(m)
          BY <4>1 DEF ToSend
        <5> QED  BY <4>3, <5>1, ToSendType
      <4> QED  BY <3>3, <4>2, <4>3 DEF SendFromWorker, JobRecord
    <3> QED  BY <2>1, <3>1, <3>2, <3>3 DEF Work
  <2>2. CASE Request(m)
    <3>1. CASE \/ \E i \in Instances, invoice \in BOOLEAN :
                    SendEmailDirect(i, m, invoice)
               \/ EnqueueRefused(m)
      BY <3>1, ToSendType DEF SendEmailDirect, EnqueueRefused, ToSend
    <3>2. CASE Enqueue(m)
      BY <3>2, OverType, ToSendType DEF Enqueue, ToSend
    <3>3. CASE EnqueueUnanswered(m)
      BY <3>3, ToSendType DEF EnqueueUnanswered, ToSend
    <3>4. CASE SendDirectly(m)
      BY <3>4, OverType, ToSendType DEF SendDirectly, ToSend
    <3> QED  BY <2>2, <3>1, <3>2, <3>3, <3>4 DEF Request
  <2> QED  BY <2>1, <2>2
<1> QED  BY <1>1, <1>3, <1>4, ToSendType DEF CopiesBounded

\* CopiesAreExplained is an invariant: a mail is sent twice only if a reply was
\* lost, however many processes and workers there are and however they die.
THEOREM CopiesTheorem == Spec => []CopiesAreExplained
<1>1. Init => CopiesBounded
  BY DEF Init, CopiesBounded, ToSend
<1>2. TypeInv /\ CopiesBounded /\ [Next]_vars => CopiesBounded'
  <2> SUFFICES ASSUME TypeInv, CopiesBounded, [Next]_vars PROVE CopiesBounded'
    OBVIOUS
  <2>1. CASE UNCHANGED vars
    BY <2>1 DEF CopiesBounded, ToSend
  <2> QED  BY <2>1, ServerCopies, MailCopies DEF Next
<1>3. TypeInv /\ CopiesBounded => CopiesAreExplained
  <2> SUFFICES ASSUME TypeInv, CopiesBounded, NEW m \in Mails
               PROVE  copies[m] <= 1 + doubts[m]
    BY DEF CopiesAreExplained
  <2>1. /\ copies[m] \in Nat /\ doubts[m] \in Nat
        /\ copies[m] + ToSend(m) <= 1 + doubts[m]
    BY DEF TypeInv, TypeOK, CopiesBounded
  <2> QED  BY <2>1, ToSendType
<1> QED  BY InitTypes, TypeStep, <1>1, <1>2, <1>3, PTL DEF Spec

-----------------------------------------------------------------------------
(***************************************************************************)
(* Connections.  What a process has open follows from how far its start    *)
(* has come, until its shutdown has reached the queue.  A job runs only    *)
(* where the worker was started and its closing has not been passed; a     *)
(* request waits only where the server listens, or has just stopped to.    *)
(***************************************************************************)
OpenedSoFar ==
  \A i \in Instances :
    /\ "http" \in open[i] => phase[i] \in {"find", "create", "worker", "up"}
    /\ shutdown[i] \in {"no", "http", "worker", "queue"} =>
         /\ phase[i] # "off" => "queue" \in open[i]
         /\ phase[i] \notin {"off", "redis"} => "redis" \in open[i]
         /\ phase[i] \notin {"off", "redis", "mongo"} => "mongo" \in open[i]

WorkerOpen ==
  \A i \in Instances : "worker" \in open[i] =>
    shutdown[i] \in {"no", "http", "worker"} /\ phase[i] = "up"

JobsHeld ==
  \A i \in Instances : JobsOn(i) # {} =>
    /\ shutdown[i] \in {"no", "http", "worker", "queue", "exit"}
    /\ {"mongo", "redis", "queue"} \subseteq open[i]

CallsHeld ==
  \A i \in Instances :
    /\ CallsOn(i) # {} => "http" \in open[i] \/ shutdown[i] = "http"
    /\ shutdown[i] = "http" => "mongo" \in open[i]

Connected == OpenedSoFar /\ WorkerOpen /\ JobsHeld /\ CallsHeld

\* The end of a process leaves nothing open, and nothing that needs it.
LEMMA DieConnected ==
  ASSUME TypeInv, Connected, NEW i \in Instances, Die(i)
  PROVE  Connected'
<1>1. /\ \A k \in Instances \ {i} : /\ open'[k] = open[k]
                                   /\ phase'[k] = phase[k]
                                   /\ shutdown'[k] = shutdown[k]
      /\ open'[i] = {} /\ phase'[i] = "off" /\ shutdown'[i] = "no"
  BY DEF Die, TypeInv, TypeOK
<1>2. \A k \in Instances : JobsOn(k)' \subseteq JobsOn(k) /\ JobsOn(i)' = {}
  BY PlatformAssumption DEF Die, JobsOn, Running, TypeInv, TypeOK, JobRecord
<1>3. \A k \in Instances : CallsOn(k)' \subseteq CallsOn(k) /\ CallsOn(i)' = {}
  BY OverType, PlatformAssumption
     DEF Die, CallsOn, Pending, TypeInv, TypeOK, CallRecord
<1> QED  BY <1>1, <1>2, <1>3
         DEF Connected, OpenedSoFar, WorkerOpen, JobsHeld, CallsHeld

\* The steps of the process, but for its end: nothing is closed too early.
LEMMA ServerConnected ==
  ASSUME TypeInv, Connected, NEW i \in Instances,
         Boot(i) \/ Start(i) \/ GracefulShutdown(i) \/ Stop(i) \/ Kill(i)
  PROVE  Connected'
<1> USE DEF Connected, OpenedSoFar, WorkerOpen, JobsHeld, CallsHeld, TypeInv,
            TypeOK
<1>1. CASE Die(i)
  BY <1>1, DieConnected
<1> SUFFICES ASSUME ~Die(i) PROVE Connected'
  BY <1>1
<1>2. UNCHANGED <<call, job>>
  BY DEF Boot, Start, ConnectRedis, StartServer, FindAdmin, CreateAdmin,
         StartWorker, GracefulShutdown, Stop, CloseHttp, StopWorker,
         CloseWorker, CloseMongo, CloseRedis, CloseFails, Exit, ForceExit,
         Kill, Advance, SeedFails
<1>3. \A k \in Instances : JobsOn(k)' = JobsOn(k) /\ CallsOn(k)' = CallsOn(k)
  BY <1>2 DEF JobsOn, CallsOn, Running, Pending
<1>4. CASE Boot(i)
  BY <1>3, <1>4 DEF Boot, Opens
<1>5. CASE Start(i)
  <2>1. CASE ConnectRedis(i)
    BY <1>3, <2>1 DEF ConnectRedis, Opens
  <2>2. CASE StartServer(i)
    BY <1>3, <2>2 DEF StartServer, Opens
  <2>3. CASE FindAdmin(i)
    BY <1>3, <2>3 DEF FindAdmin, SeedFails
  <2>4. CASE CreateAdmin(i)
    BY <1>3, <2>4 DEF CreateAdmin, SeedFails
  <2>5. CASE StartWorker(i)
    BY <1>3, <2>5 DEF StartWorker, Opens
  <2> QED  BY <1>5, <2>1, <2>2, <2>3, <2>4, <2>5 DEF Start
<1>6. CASE GracefulShutdown(i)
  BY <1>3, <1>6 DEF GracefulShutdown
<1>7. CASE Stop(i)
  <2>1. CASE CloseHttp(i)
    BY <1>3, <2>1 DEF CloseHttp, Advance
  <2>2. CASE StopWorker(i)
    BY <1>3, <2>2 DEF StopWorker, Advance
  <2>3. CASE CloseWorker(i)
    BY <1>3, <2>3 DEF CloseWorker, Advance
  <2>4. CASE CloseMongo(i)
    BY <1>3, <2>4 DEF CloseMongo, Advance
  <2>5. CASE CloseRedis(i)
    BY <1>3, <2>5 DEF CloseRedis, Advance
  <2>6. CASE CloseFails(i)
    BY <1>3, <2>6 DEF CloseFails
  <2> QED  BY <1>7, <2>1, <2>2, <2>3, <2>4, <2>5, <2>6
           DEF Stop, Exit, ForceExit
<1>8. CASE Kill(i)
  BY <1>8 DEF Kill
<1> QED  BY <1>4, <1>5, <1>6, <1>7, <1>8

\* The steps of requests and jobs: a process that takes one has what it needs.
LEMMA MailConnected ==
  ASSUME TypeInv, Connected, NEW m \in Mails, Work(m) \/ Request(m)
  PROVE  Connected'
<1>1. UNCHANGED serverVars
  BY DEF Work, Request, TakeJob, MakeInvoice, SendFromWorker, CompleteJob,
         BackoffEnds, RecoverStalled, SendEmailDirect, Enqueue,
         EnqueueRefused, EnqueueUnanswered, SendDirectly
<1>2. \A i \in Instances : JobsOn(i)' # {} =>
        JobsOn(i) # {} \/ "worker" \in open[i]
  <2> SUFFICES ASSUME NEW i \in Instances, JobsOn(i)' # {}, JobsOn(i) = {}
               PROVE  "worker" \in open[i]
    OBVIOUS
  <2>1. PICK n \in Mails : Running(n)' /\ job'[n].on = i
    BY DEF JobsOn
  <2>2. ~(Running(n) /\ job[n].on = i)
    BY DEF JobsOn
  <2>3. n = m /\ job'[n] # job[n]
    BY <2>1, <2>2 DEF Running, Work, Request, MakeInvoice, SendFromWorker,
       CompleteJob, BackoffEnds, RecoverStalled, SendEmailDirect, Enqueue,
       EnqueueRefused, TakeJob, EnqueueUnanswered, SendDirectly, TypeInv, TypeOK
  <2>4. job'[n].at \in {"active", "sent"} /\ (Running(n) => job[n].on # i)
    BY <2>1, <2>2 DEF Running
  <2>5. ~Request(m)
    BY <2>3, <2>4
       DEF Request, SendEmailDirect, Enqueue, EnqueueRefused, EnqueueUnanswered,
           SendDirectly, TypeInv, TypeOK, JobRecord
  <2>6. ~CompleteJob(m) /\ ~BackoffEnds(m) /\ ~RecoverStalled(m)
    <3>1. ~CompleteJob(m) /\ ~BackoffEnds(m)
      BY <2>3, <2>4 DEF CompleteJob, BackoffEnds, TypeInv, TypeOK, JobRecord
    <3>2. RecoverStalled(m) => job'[m].at \in {"failed", "waiting"}
      BY DEF RecoverStalled, TypeInv, TypeOK, JobRecord
    <3> QED  BY <2>3, <2>4, <3>1, <3>2
  <2>7. ~MakeInvoice(m)
    BY <2>3, <2>4, AfterFailureType
       DEF MakeInvoice, TypeInv, TypeOK, JobRecord, AttemptsLeft
  <2>8. ~SendFromWorker(m)
    <3>1. ASSUME SendFromWorker(m) PROVE FALSE
      <4>1. job' = [job EXCEPT ![m].at = "sent"] /\ Running(m)
        BY <2>3, <2>4, <3>1, AfterFailureType
           DEF SendFromWorker, Running, TypeInv, TypeOK, JobRecord, AttemptsLeft
      <4> QED  BY <2>1, <2>3, <2>4, <4>1 DEF TypeInv, TypeOK, JobRecord
    <3> QED  BY <3>1
  <2>9. PICK k \in Workers : TakeJob(k, n)
    BY <2>3, <2>5, <2>6, <2>7, <2>8 DEF Work
  <2> QED  BY <2>1, <2>9 DEF TakeJob, TypeInv, TypeOK, JobRecord
<1>3. \A i \in Instances : CallsOn(i)' # {} =>
        CallsOn(i) # {} \/ "http" \in open[i]
  <2> SUFFICES ASSUME NEW i \in Instances, CallsOn(i)' # {}, CallsOn(i) = {}
               PROVE  "http" \in open[i]
    OBVIOUS
  <2>1. PICK n \in Mails : Pending(n)' /\ call'[n].on = i
    BY DEF CallsOn
  <2>2. ~(Pending(n) /\ call[n].on = i)
    BY DEF CallsOn
  <2>3. call'[n] # call[n] /\ call'[n].at \in {"add", "send"}
    BY <2>1, <2>2 DEF Pending
  <2>4. n = m
    BY <2>3 DEF Work, Request, MakeInvoice, SendFromWorker, CompleteJob,
       BackoffEnds, RecoverStalled, SendEmailDirect, Enqueue, EnqueueRefused,
       TakeJob, EnqueueUnanswered, SendDirectly, TypeInv, TypeOK
  <2>5. ~(call[n].at = "add" /\ call'[n].on = call[n].on)
    BY <2>1, <2>2 DEF Pending
  <2>6. ~Work(m) /\ ~Enqueue(m) /\ ~SendDirectly(m)
    BY <2>3, <2>4, OverType
       DEF Work, MakeInvoice, SendFromWorker, CompleteJob, BackoffEnds,
           RecoverStalled, TakeJob, Enqueue, SendDirectly, TypeInv, TypeOK
  <2>7. ~EnqueueRefused(m) /\ ~EnqueueUnanswered(m)
    BY <2>4, <2>5 DEF EnqueueRefused, EnqueueUnanswered, TypeInv, TypeOK, CallRecord
  <2>8. PICK k \in Instances, invoice \in BOOLEAN : SendEmailDirect(k, n, invoice)
    BY <2>4, <2>6, <2>7 DEF Request
  <2> QED  BY <2>1, <2>8 DEF SendEmailDirect, TypeInv, TypeOK, CallRecord
<1> QED  BY <1>1, <1>2, <1>3
         DEF Connected, OpenedSoFar, WorkerOpen, JobsHeld, CallsHeld

\* ConnectionsOutliveWork is an invariant: gracefulShutdown closes no
\* connection under a request or a job that still needs it.
THEOREM ConnectionsTheorem == Spec => []ConnectionsOutliveWork
<1>1. Init => Connected
  BY DEF Init, Connected, OpenedSoFar, WorkerOpen, JobsHeld, CallsHeld, JobsOn,
         CallsOn, Running, Pending
<1>2. TypeInv /\ Connected /\ [Next]_vars => Connected'
  <2> SUFFICES ASSUME TypeInv, Connected, [Next]_vars PROVE Connected'
    OBVIOUS
  <2>1. CASE UNCHANGED vars
    BY <2>1 DEF Connected, OpenedSoFar, WorkerOpen, JobsHeld, CallsHeld, JobsOn,
                CallsOn, Running, Pending
  <2> QED  BY <2>1, ServerConnected, MailConnected DEF Next
<1>3. Connected => ConnectionsOutliveWork
  BY DEF Connected, JobsHeld, CallsHeld, ConnectionsOutliveWork
<1> QED  BY InitTypes, TypeStep, <1>1, <1>2, <1>3, PTL DEF Spec
=============================================================================
