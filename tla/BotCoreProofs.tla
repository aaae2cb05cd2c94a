---------------------------- MODULE BotCoreProofs ----------------------------
(***************************************************************************)
(* Theorems about BotCore for every set of calls and keys, every queue     *)
(* capacity, high-water mark and waiter memory: the inductive invariant,   *)
(* the safety properties it implies, what the worker's hands hold, and the *)
(* refinement of the job ledger.                                           *)
(***************************************************************************)
EXTENDS BotStepProofs

(* The worker's part of the invariant survives a step of a call, which     *)
(* writes no record but its own new one.                                   *)
LEMMA CallsLeaveWorker ==
  ASSUME TypeOK, WorkerHolds, UNCHANGED <<workerVars, phase>>,
         \A j \in Calls : status[j] # "absent" => status'[j] = status[j]
  PROVE  WorkerHolds' /\ WorkerTypeOK' /\ phase' \in {"polling", "stopping", "closed"}
BY DEF WorkerHolds, WorkerTypeOK, workerVars, TypeOK, TerminalStatus

(* A call that moves on, and may put its own job in the queue.             *)
LEMMA CallMoves ==
  ASSUME IInv, NEW c \in Calls, NEW pc, CallStep(c, pc), UNCHANGED <<workerVars, phase>>,
         pc \in {"putting", "waiting", "done", "cancelled", "expired", "error"},
         pc = "putting" => cpc[c] = "announcing" /\ target[c] = c,
         pc = "done" => futState[holds[c]] = "result",
         \/ /\ UNCHANGED queueVars
            /\ cpc[c] = "waiting" \/ pc \in {"error", "putting"} \/ target[c] # c
         \/ /\ Put(c)
            /\ target[c] = c /\ cpc[c] \in {"announcing", "putting"} /\ pc # "putting"
  PROVE  IInv'
<1>1. TypeOK /\ ServiceInv /\ WorkerHolds /\ QueuedOnce
  BY DEF IInv, ServiceInv
<1>2. /\ status' = status /\ dedupe' = dedupe /\ code' = code
      /\ futures' = futures /\ futState' = futState /\ terminal' = terminal /\ holds' = holds
      /\ target' = target /\ cpc' = [cpc EXCEPT ![c] = pc] /\ cpc[c] \in OpenPC
      /\ cpc \in [Calls -> CallPC] /\ queue \in Seq(Calls) /\ producerClosed \in BOOLEAN
  BY <1>1 DEF CallStep, Become, recordVars, waiterVars, TypeOK, RouterTypeOK, QueueTypeOK
<1>3. ServiceInv'
  BY <1>1, CallKeepsService
<1>4. WorkerHolds' /\ WorkerTypeOK' /\ phase' \in {"polling", "stopping", "closed"}
  BY <1>1, <1>2, CallsLeaveWorker
<1>5. ServiceTypeOK' /\ RouterTypeOK'
  BY <1>1, <1>2 DEF TypeOK, ServiceTypeOK, WaiterTypeOK, RouterTypeOK, CallPC, OpenPC, FinalPC
<1>6. QueueTypeOK(Calls)' /\ QueuedOnce'
  <2>1. CASE UNCHANGED queueVars
    <3>1. queue' = queue /\ producerClosed' = producerClosed
      BY <2>1 DEF queueVars
    <3>2. \A j : InQueue(j)' <=> InQueue(j)
      BY <3>1 DEF InQueue
    <3>3. cpc[c] = "waiting" \/ pc \in {"error", "putting"} \/ status[c] # "queued"
      <4>1. target[c] # c => status[c] = "absent"
        BY <1>1 DEF ServiceInv, CallsHaveJobs
      <4>2. cpc[c] = "waiting" \/ pc \in {"error", "putting"} \/ target[c] # c
        BY <2>1 DEF Put, queueVars, QueueFull
      <4> QED
        BY <4>1, <4>2
    <3>4. pc = "putting" => ~InQueue(c)
      BY <1>1 DEF QueuedOnce
    <3> QED
      BY <1>1, <1>2, <3>1, <3>2, <3>3, <3>4 DEF QueuedOnce, QueueTypeOK, OpenPC
  <2>2. CASE /\ Put(c) /\ target[c] = c
             /\ cpc[c] \in {"announcing", "putting"} /\ pc # "putting"
    <3>1. /\ queue' \in Seq(Calls)
          /\ \A j : InQueue(j)' <=> InQueue(j) \/ j = c
          /\ NoDuplicate /\ ~InQueue(c) => NoDuplicate'
      BY <1>2, <2>2, PutEffect
    <3>2. ~InQueue(c) /\ status[c] = "queued"
      BY <1>1, <2>2 DEF QueuedOnce, ServiceInv, CallsHaveJobs
    <3>3. NoDuplicate'
      BY <1>1, <3>1, <3>2 DEF QueuedOnce, NoDuplicate
    <3>4. producerClosed' = producerClosed
      BY <2>2 DEF Put
    <3>5. /\ \A j \in Calls : InQueue(j)' =>
               status'[j] = "queued" /\ cpc'[j] \notin {"new", "announcing", "putting"}
          /\ \A j \in Calls : status'[j] = "queued" =>
               InQueue(j)' \/ cpc'[j] \in {"announcing", "putting", "error"}
      BY <1>1, <1>2, <2>2, <3>1, <3>2 DEF QueuedOnce
    <3> QED
      BY <1>2, <3>1, <3>3, <3>4, <3>5 DEF QueuedOnce, NoDuplicate, QueueTypeOK
  <2> QED
    BY <2>1, <2>2
<1> QED
  BY <1>3, <1>4, <1>5, <1>6 DEF IInv, ServiceInv, TypeOK

(* The wait of a call ends, or turns out to have ended, as its future says. *)
LEMMA AwaitOutcomes ==
  ASSUME NEW c
  PROVE  /\ AwaitOutcome(c) \in {"done", "cancelled", "waiting"}
         /\ AwaitOutcome(c) = "done" => futState[holds[c]] = "result"
BY DEF AwaitOutcome

(* Every step of a call keeps the invariant.                               *)
LEMMA CallKeepsInvariant ==
  ASSUME IInv, NEW c \in Calls, RouterStep(c) \/ RouterFault(c)
  PROVE  IInv'
<1>1. TypeOK /\ ServiceInv /\ WorkerHolds /\ QueuedOnce
  BY DEF IInv, ServiceInv
<1>2. UNCHANGED <<workerVars, phase>>
  BY DEF RouterStep, RouterFault
<1>3. /\ queue \in Seq(Calls) /\ cpc \in [Calls -> CallPC]
      /\ target \in [Calls -> Calls \union {None}]
  BY <1>1 DEF TypeOK, RouterTypeOK, QueueTypeOK
<1>4. ASSUME Announce(c)
      PROVE  IInv'
  <2>1. CASE AnnounceJoined(c)
    <3>1. CallStep(c, AwaitOutcome(c)) /\ target[c] # c /\ UNCHANGED queueVars
      BY <2>1 DEF AnnounceJoined, At, CallStep, OpenPC, serviceVars, ShouldEnqueue
    <3> QED
      BY <1>2, <3>1, AwaitOutcomes, CallMoves
  <2>2. CASE AnnounceClosed(c)
    <3>1. CallStep(c, "error") /\ UNCHANGED queueVars
      BY <2>2 DEF AnnounceClosed, At, CallStep, OpenPC, serviceVars
    <3> QED
      BY <1>2, <3>1, CallMoves
  <2>3. CASE AnnounceFull(c)
    <3>1. CallStep(c, "putting") /\ UNCHANGED queueVars /\ cpc[c] = "announcing" /\ target[c] = c
      BY <2>3 DEF AnnounceFull, At, CallStep, OpenPC, serviceVars, ShouldEnqueue
    <3> QED
      BY <1>2, <3>1, CallMoves
  <2>4. CASE AnnouncePut(c)
    <3>1. CallStep(c, AwaitOutcome(c)) /\ Put(c) /\ cpc[c] = "announcing" /\ target[c] = c
      BY <2>4 DEF AnnouncePut, At, CallStep, OpenPC, serviceVars, ShouldEnqueue
    <3> QED
      BY <1>2, <3>1, AwaitOutcomes, CallMoves
  <2> QED
    BY <1>4, <2>1, <2>2, <2>3, <2>4 DEF Announce
<1>5. CASE PutUnblocked(c)
  <2>1. CallStep(c, AwaitOutcome(c)) /\ Put(c) /\ cpc[c] = "putting" /\ target[c] = c
    BY <1>1, <1>5 DEF PutUnblocked, At, CallStep, OpenPC, serviceVars, ServiceInv, CallsHaveJobs
  <2> QED
    BY <1>2, <2>1, AwaitOutcomes, CallMoves
<1>6. CASE AnnounceFail(c)
  <2>1. CallStep(c, "error") /\ UNCHANGED queueVars
    BY <1>6 DEF AnnounceFail, At, CallStep, OpenPC, serviceVars
  <2> QED
    BY <1>2, <2>1, CallMoves
<1>7. ASSUME Await(c)
      PROVE  IInv'
  <2>1. CASE Finish(c)
    <3>1. CallStep(c, "done") /\ UNCHANGED queueVars /\ cpc[c] = "waiting"
          /\ futState[holds[c]] = "result"
      BY <2>1 DEF Finish, At, CallStep, OpenPC, serviceVars
    <3> QED
      BY <1>2, <3>1, CallMoves
  <2>2. CASE Interrupted(c)
    <3>1. CallStep(c, "cancelled") /\ UNCHANGED queueVars /\ cpc[c] = "waiting"
      BY <2>2 DEF Interrupted, At, CallStep, OpenPC, serviceVars
    <3> QED
      BY <1>2, <3>1, CallMoves
  <2>3. CASE Timeout(c) /\ UNCHANGED waiterVars
    <3>1. CallStep(c, "expired") /\ UNCHANGED queueVars /\ cpc[c] = "waiting"
      BY <2>3 DEF Timeout, At, CallStep, OpenPC
    <3> QED
      BY <1>2, <3>1, CallMoves
  <2>4. CASE Timeout(c) /\ CancelFuture(holds[c])
    <3>1. /\ cpc[c] = "waiting" /\ Become(c, "expired")
          /\ UNCHANGED <<recordVars, target>> /\ UNCHANGED queueVars
      BY <2>4 DEF Timeout, At
    <3>2. ServiceInv'
      BY <1>1, <2>4, <3>1, CancelKeepsService
    <3>3. WorkerHolds' /\ WorkerTypeOK' /\ phase' \in {"polling", "stopping", "closed"}
      BY <1>1, <1>2, <3>1, CallsLeaveWorker DEF recordVars
    <3>4. ServiceTypeOK' /\ RouterTypeOK' /\ QueueTypeOK(Calls)'
      BY <1>1, <2>4, <3>1 DEF TypeOK, ServiceTypeOK, WaiterTypeOK, RouterTypeOK, QueueTypeOK,
         CancelFuture, Become, recordVars, queueVars, FutureState, CallPC, FinalPC
    <3>5. QueuedOnce'
      BY <1>1, <1>3, <3>1 DEF QueuedOnce, InQueue, Become, recordVars, queueVars
    <3> QED
      BY <3>2, <3>3, <3>4, <3>5 DEF IInv, ServiceInv, TypeOK
  <2> QED
    BY <1>7, <2>1, <2>2, <2>3, <2>4 DEF Await, Timeout
<1>8. ASSUME Request(c)
      PROVE  IInv'
  <2>1. cpc[c] = "new" /\ UNCHANGED queueVars
    BY <1>8 DEF Request, RequestBusy, RequestRejected, RequestNew, RequestJoin, At
  <2>2. status[c] = "absent" /\ target[c] = None /\ ~InQueue(c)
    BY <1>1, <2>1 DEF ServiceInv, FreshCalls, QueuedOnce
  <2>3. ASSUME NEW pc \in {"busy", "rejected"}, Become(c, pc), UNCHANGED <<serviceVars, target>>
        PROVE  IInv'
    <3>1. ServiceInv'
      BY <1>1, <2>1, <2>3, TurnAwayKeepsService DEF serviceVars
    <3>2. WorkerHolds' /\ WorkerTypeOK' /\ phase' \in {"polling", "stopping", "closed"}
      BY <1>1, <1>2, <2>3, CallsLeaveWorker DEF serviceVars, recordVars
    <3>3. ServiceTypeOK' /\ RouterTypeOK' /\ QueueTypeOK(Calls)'
      BY <1>1, <2>1, <2>3 DEF TypeOK, ServiceTypeOK, WaiterTypeOK, RouterTypeOK, QueueTypeOK,
         Become, serviceVars, recordVars, waiterVars, queueVars, CallPC, FinalPC
    <3>4. QueuedOnce'
      BY <1>1, <1>3, <2>1, <2>2, <2>3 DEF QueuedOnce, InQueue, Become, serviceVars, recordVars, queueVars
    <3> QED
      BY <3>1, <3>2, <3>3, <3>4 DEF IInv, ServiceInv, TypeOK
  <2>4. ASSUME NEW k \in Keys, RequestNew(c, k)
        PROVE  IInv'
    <3>1. ServiceInv'
      BY <1>1, <2>4, NewKeepsService
    <3>2. /\ status' = [status EXCEPT ![c] = "queued"] /\ dedupe' = [dedupe EXCEPT ![c] = k]
          /\ code' = code /\ cpc' = [cpc EXCEPT ![c] = "announcing"]
          /\ target' = [target EXCEPT ![c] = c] /\ Subscribe(c, c, "queued")
      BY <2>4 DEF RequestNew, SubmitNew, Become
    <3>3. WorkerHolds' /\ WorkerTypeOK' /\ phase' \in {"polling", "stopping", "closed"}
      BY <1>1, <1>2, <2>2, <3>2, CallsLeaveWorker DEF TypeOK, ServiceTypeOK
    <3>4. WaiterTypeOK'
      BY <1>1, <3>2 DEF TypeOK, ServiceTypeOK, WaiterTypeOK, Subscribe, FutureState
    <3>5. ServiceTypeOK' /\ RouterTypeOK' /\ QueueTypeOK(Calls)'
      BY <1>1, <2>1, <3>2, <3>4 DEF TypeOK, ServiceTypeOK, RouterTypeOK, QueueTypeOK,
         queueVars, Status, ActiveStatus, CallPC, OpenPC
    <3>6. QueuedOnce'
      BY <1>1, <1>3, <2>1, <2>2, <3>2 DEF QueuedOnce, InQueue, queueVars, TypeOK, ServiceTypeOK
    <3> QED
      BY <3>1, <3>3, <3>5, <3>6 DEF IInv, ServiceInv, TypeOK
  <2>5. ASSUME NEW k \in Keys, RequestJoin(c, k)
        PROVE  IInv'
    <3>1. ServiceInv'
      BY <1>1, <2>5, JoinKeepsService
    <3>2. PICK j \in Calls :
            /\ UNCHANGED recordVars /\ cpc' = [cpc EXCEPT ![c] = "announcing"]
            /\ target' = [target EXCEPT ![c] = j] /\ Subscribe(c, j, status[j])
      BY <2>5 DEF RequestJoin, SubmitJoin, Become
    <3>3. WorkerHolds' /\ WorkerTypeOK' /\ phase' \in {"polling", "stopping", "closed"}
      BY <1>1, <1>2, <3>2, CallsLeaveWorker DEF recordVars
    <3>4. WaiterTypeOK'
      BY <1>1, <3>2 DEF TypeOK, ServiceTypeOK, WaiterTypeOK, Subscribe, FutureState
    <3>5. ServiceTypeOK' /\ RouterTypeOK' /\ QueueTypeOK(Calls)'
      BY <1>1, <2>1, <3>2, <3>4 DEF TypeOK, ServiceTypeOK, RouterTypeOK, QueueTypeOK,
         queueVars, recordVars, CallPC, OpenPC
    <3>6. QueuedOnce'
      BY <1>1, <1>3, <2>1, <2>2, <3>2 DEF QueuedOnce, InQueue, queueVars, recordVars
    <3> QED
      BY <3>1, <3>3, <3>5, <3>6 DEF IInv, ServiceInv, TypeOK
  <2> QED
    BY <1>8, <2>3, <2>4, <2>5 DEF Request, RequestBusy, RequestRejected
<1> QED
  BY <1>4, <1>5, <1>6, <1>7, <1>8 DEF RouterStep, RouterFault

-----------------------------------------------------------------------------
(* The worker                                                              *)

(* A job outside the hands of its creator and with nothing in the queue.   *)
Unqueued(j) == ~InQueue(j) /\ ~(cpc[j] \in {"announcing", "putting"} /\ target[j] = j)

(* What the worker does to the queue: nothing, or it takes the message of  *)
(* the job it then handles.                                                *)
Withdraws(j) ==
  /\ queue' \in Seq(Calls) /\ producerClosed' = producerClosed
  /\ \A i \in Calls : InQueue(i)' <=> InQueue(i) /\ i # j
  /\ NoDuplicate'

(* The worker records a verdict of a job that is not queued any more.      *)
LEMMA SettleKeepsInvariant ==
  ASSUME IInv, NEW j \in Calls, NEW s, SettleStep(j, s), status[j] # "absent",
         ~(cpc[j] \in {"announcing", "putting"} /\ target[j] = j),
         Withdraws(j), code' \in [Calls -> ErrorCode \union {None}],
         WorkerTypeOK', WorkerHolds', phase' = phase
  PROVE  IInv'
<1>1. TypeOK /\ ServiceInv /\ QueuedOnce
  BY DEF IInv, ServiceInv
<1>2. /\ status' = [status EXCEPT ![j] = s] /\ s \in {"succeeded", "failed"}
      /\ dedupe' = dedupe /\ cpc' = cpc /\ target' = target
      /\ status \in [Calls -> Status]
  BY <1>1 DEF SettleStep, routerVars, TypeOK, ServiceTypeOK
<1>3. ServiceInv'
  BY <1>1, SettleKeepsService
<1>4. WaiterTypeOK'
  BY <1>1, PublishEffect DEF SettleStep, TypeOK, ServiceTypeOK
<1>5. TypeOK'
  BY <1>1, <1>2, <1>4 DEF TypeOK, ServiceTypeOK, RouterTypeOK, QueueTypeOK, Withdraws,
     Status, TerminalStatus
<1>6. QueuedOnce'
  BY <1>1, <1>2 DEF QueuedOnce, NoDuplicate, Withdraws
<1> QED
  BY <1>3, <1>5, <1>6 DEF IInv, ServiceInv

(* A step of the worker that leaves records, futures, calls and queue      *)
(* alone.                                                                  *)
LEMMA WorkerMovesOn ==
  ASSUME IInv, UNCHANGED serviceVars, UNCHANGED queueVars, UNCHANGED routerVars, phase' = phase,
         WorkerTypeOK', WorkerHolds'
  PROVE  IInv'
<1>1. ServiceInv'
  BY OtherKeepsService DEF IInv, ServiceInv, serviceVars
<1>2. TypeOK' /\ QueuedOnce'
  BY DEF IInv, TypeOK, ServiceTypeOK, WaiterTypeOK, RouterTypeOK, QueueTypeOK, QueuedOnce, InQueue,
     serviceVars, recordVars, waiterVars, queueVars, routerVars
<1> QED
  BY <1>1, <1>2 DEF IInv, ServiceInv

(* The job in the worker's hands has a record and is not queued any more.  *)
LEMMA HeldJob ==
  ASSUME IInv, NEW j \in Calls, wjob = j,
         wpc \in {"fetching", "backoff", "notifying", "apologizing"}
  PROVE  /\ status[j] \notin {"absent", "queued"}
         /\ Unqueued(j)
<1>1. status[j] \notin {"absent", "queued"}
  BY DEF IInv, WorkerHolds, TerminalStatus
<1> QED
  BY <1>1 DEF IInv, Unqueued, QueuedOnce, CallsHaveJobs

(* The message a worker takes is for a queued job.                         *)
LEMMA ReceivedJob ==
  ASSUME IInv, NEW j, Receive(j)
  PROVE  /\ j \in Calls /\ status[j] = "queued" /\ wpc = "idle"
         /\ ~(cpc[j] \in {"announcing", "putting"} /\ target[j] = j)
         /\ Withdraws(j)
<1>1. Take(j) /\ wpc = "idle" /\ queue \in Seq(Calls)
  BY DEF Receive, IInv, TypeOK, QueueTypeOK
<1>2. /\ queue' \in Seq(Calls) /\ j \in Calls /\ InQueue(j)
      /\ \A i : InQueue(i)' => InQueue(i)
      /\ \A i : InQueue(i) /\ i # j => InQueue(i)'
      /\ NoDuplicate => NoDuplicate' /\ ~InQueue(j)'
  BY <1>1, TakeEffect
<1>3. NoDuplicate
  BY DEF IInv, QueuedOnce, NoDuplicate
<1>4. status[j] = "queued" /\ cpc[j] \notin {"announcing", "putting"}
  BY <1>2 DEF IInv, QueuedOnce
<1> QED
  BY <1>1, <1>2, <1>3, <1>4 DEF Withdraws, Take

(* A worker that leaves the queue alone withdraws nothing.                 *)
LEMMA NothingWithdrawn ==
  ASSUME IInv, NEW j \in Calls, Unqueued(j), UNCHANGED queueVars
  PROVE  Withdraws(j)
BY DEF IInv, TypeOK, QueueTypeOK, QueuedOnce, Withdraws, Unqueued, InQueue, NoDuplicate, queueVars

(* mark_succeeded and mark_failed of a job with a record settle it.        *)
LEMMA MarkSettles ==
  ASSUME IInv, NEW j \in Calls, status[j] # "absent", UNCHANGED routerVars
  PROVE  /\ MarkSucceeded(j) =>
              SettleStep(j, "succeeded") /\ code' \in [Calls -> ErrorCode \union {None}]
         /\ \A err \in ErrorCode : MarkFailed(j, err) =>
              SettleStep(j, "failed") /\ code' \in [Calls -> ErrorCode \union {None}]
BY DEF IInv, TypeOK, ServiceTypeOK, MarkSucceeded, MarkFailed, Known, SettleStep

(* The step from the get of a message to the next suspension.              *)
LEMMA HandleKeepsInvariant ==
  ASSUME IInv, NEW j \in Calls, Handle(j), UNCHANGED routerVars, phase' = phase
  PROVE  IInv'
<1>1. CASE Receive(j)
  <2>1. /\ status[j] = "queued" /\ wpc = "idle"
        /\ ~(cpc[j] \in {"announcing", "putting"} /\ target[j] = j)
        /\ Withdraws(j)
    BY <1>1, ReceivedJob
  <2>2. TypeOK /\ ServiceInv /\ QueuedOnce /\ WorkerTypeOK
    BY DEF IInv, ServiceInv, TypeOK
  <2>3. ASSUME NEW s, SettleStep(j, s), code' \in [Calls -> ErrorCode \union {None}],
               NEW pc \in {"notifying", "apologizing"}, pc = "apologizing" => s = "failed",
               GoTo(pc, j), UNCHANGED <<retried, threads, blobs, inbox>>
        PROVE  IInv'
    <3>1. status' = [status EXCEPT ![j] = s] /\ s \in {"succeeded", "failed"}
          /\ status \in [Calls -> Status] /\ wpc' = pc /\ wjob' = j
      BY <2>2, <2>3 DEF SettleStep, TypeOK, ServiceTypeOK, GoTo
    <3>2. WorkerTypeOK' /\ WorkerHolds'
      BY <2>2, <2>3, <3>1 DEF WorkerTypeOK, WorkerPC, WorkerHolds, TerminalStatus
    <3> QED
      BY <2>1, <2>3, <3>2, SettleKeepsInvariant
  <2>4. CASE HandleSkip(j)
    BY <2>1, <2>4 DEF HandleSkip, TerminalStatus
  <2>5. CASE HandleUnsupported(j)
    <3>1. SettleStep(j, "failed") /\ code' \in [Calls -> ErrorCode \union {None}]
      BY <2>1, <2>5, MarkSettles DEF HandleUnsupported, ErrorCode
    <3> QED
      BY <2>3, <2>5, <3>1 DEF HandleUnsupported
  <2>6. CASE HandleCacheHit(j)
    <3>1. SettleStep(j, "succeeded") /\ code' \in [Calls -> ErrorCode \union {None}]
      BY <2>1, <2>6, MarkSettles DEF HandleCacheHit
    <3> QED
      BY <2>3, <2>6, <3>1 DEF HandleCacheHit
  <2>7. CASE HandleError(j)
    <3>1. SettleStep(j, "failed") /\ code' \in [Calls -> ErrorCode \union {None}]
      BY <2>1, <2>7, MarkSettles DEF HandleError, ErrorCode
    <3> QED
      BY <2>3, <2>7, <3>1 DEF HandleError
  <2>8. CASE HandleMiss(j)
    <3>1. /\ status' = [status EXCEPT ![j] = "running"] /\ dedupe' = dedupe /\ code' = code
          /\ UNCHANGED waiterVars /\ wpc' = "fetching" /\ wjob' = j
          /\ threads' = threads \union {j} /\ UNCHANGED <<retried, blobs, inbox>>
          /\ status \in [Calls -> Status]
      BY <2>1, <2>2, <2>8
         DEF HandleMiss, MarkRunning, Known, GoTo, StartThread, TypeOK, ServiceTypeOK
    <3>2. ServiceInv'
      BY <2>1, <2>2, <3>1, RunKeepsService DEF RunStep, ActiveStatus
    <3>3. WorkerTypeOK' /\ WorkerHolds'
      BY <2>2, <3>1 DEF WorkerTypeOK, WorkerPC, WorkerHolds
    <3>4. TypeOK'
      BY <2>1, <2>2, <3>1, <3>3 DEF TypeOK, ServiceTypeOK, WaiterTypeOK, RouterTypeOK, QueueTypeOK,
         Withdraws, Status, ActiveStatus, waiterVars, routerVars
    <3>5. QueuedOnce'
      BY <2>1, <2>2, <3>1 DEF QueuedOnce, NoDuplicate, Withdraws, routerVars
    <3> QED
      BY <3>2, <3>3, <3>4, <3>5 DEF IInv, ServiceInv
  <2> QED
    BY <2>4, <2>5, <2>6, <2>7, <2>8 DEF Handle
<1> QED
  BY <1>1 DEF Handle, HandleSkip, HandleUnsupported, HandleCacheHit, HandleMiss, HandleError

(* The end of a download attempt.                                          *)
LEMMA FetchKeepsInvariant ==
  ASSUME IInv, NEW j \in Calls, Fetch(j), UNCHANGED routerVars, phase' = phase
  PROVE  IInv'
<1>1. wpc \in {"fetching", "backoff"} /\ wjob = j /\ UNCHANGED queueVars
  BY DEF Fetch, DownloadOk, DownloadFatal, DownloadTransient, DownloadTransientAgain,
         DownloadTimeout, DownloadError, BackoffEnds
<1>2. TypeOK /\ WorkerTypeOK /\ WorkerHolds
  BY DEF IInv, TypeOK
<1>3. status[j] = "running" /\ Blob(j) \in Keys
  BY <1>1, <1>2, WorkerAssumption DEF WorkerHolds, Blob, IInv, KeyedRecords
<1>4. Unqueued(j) /\ Withdraws(j)
  BY <1>1, HeldJob, NothingWithdrawn
<1>5. ASSUME NEW s, SettleStep(j, s), code' \in [Calls -> ErrorCode \union {None}],
             NEW pc \in {"notifying", "apologizing"}, pc = "apologizing" => s = "failed",
             GoTo(pc, j), threads' \in {threads, threads \ {j}},
             blobs' \in {blobs, blobs \union {Blob(j)}}, UNCHANGED <<retried, inbox>>
      PROVE  IInv'
  <2>1. status' = [status EXCEPT ![j] = s] /\ s \in {"succeeded", "failed"}
        /\ status \in [Calls -> Status] /\ wpc' = pc /\ wjob' = j
    BY <1>2, <1>5 DEF SettleStep, TypeOK, ServiceTypeOK, GoTo
  <2>2. WorkerTypeOK' /\ WorkerHolds'
    BY <1>2, <1>3, <1>5, <2>1 DEF WorkerTypeOK, WorkerPC, WorkerHolds, TerminalStatus
  <2> QED
    BY <1>3, <1>4, <1>5, <2>2, SettleKeepsInvariant DEF Unqueued
<1>6. ASSUME NEW pc \in {"fetching", "backoff"}, GoTo(pc, j), UNCHANGED serviceVars,
             threads' \in {threads \ {j}, threads \union {j}}, retried' \in BOOLEAN,
             UNCHANGED <<blobs, inbox>>
      PROVE  IInv'
  <2>1. WorkerTypeOK' /\ WorkerHolds'
    BY <1>2, <1>3, <1>6 DEF WorkerTypeOK, WorkerPC, WorkerHolds, GoTo, serviceVars, recordVars
  <2> QED
    BY <1>1, <1>6, <2>1, WorkerMovesOn
<1>7. CASE DownloadOk(j)
  <2>1. SettleStep(j, "succeeded") /\ code' \in [Calls -> ErrorCode \union {None}]
    BY <1>3, <1>7, MarkSettles DEF DownloadOk
  <2> QED
    BY <1>5, <1>7, <2>1 DEF DownloadOk, EndThread
<1>8. ASSUME NEW err \in ErrorCode, MarkFailed(j, err),
             NEW pc \in {"notifying", "apologizing"}, GoTo(pc, j),
             threads' \in {threads, threads \ {j}}, UNCHANGED <<retried, blobs, inbox>>
      PROVE  IInv'
  <2>1. SettleStep(j, "failed") /\ code' \in [Calls -> ErrorCode \union {None}]
    BY <1>3, <1>8, MarkSettles
  <2> QED
    BY <1>5, <1>8, <2>1
<1>9. CASE DownloadFatal(j)
  BY <1>8, <1>9 DEF DownloadFatal, EndThread, ErrorCode
<1>10. CASE DownloadTransient(j)
  BY <1>6, <1>10 DEF DownloadTransient, EndThread
<1>11. CASE DownloadTransientAgain(j)
  BY <1>8, <1>11 DEF DownloadTransientAgain, EndThread, ErrorCode
<1>12. CASE DownloadTimeout(j)
  BY <1>8, <1>12 DEF DownloadTimeout, ErrorCode
<1>13. CASE DownloadError(j)
  BY <1>8, <1>13 DEF DownloadError, EndThread, ErrorCode
<1>14. CASE BackoffEnds(j)
  BY <1>2, <1>6, <1>14 DEF BackoffEnds, StartThread, WorkerTypeOK
<1> QED
  BY <1>7, <1>9, <1>10, <1>11, <1>12, <1>13, <1>14 DEF Fetch

(* The end of a Telegram call of the notifier.                             *)
LEMMA NotifyKeepsInvariant ==
  ASSUME IInv, NEW j \in Calls, Notify(j) \/ NotifierFault(j), UNCHANGED routerVars, phase' = phase
  PROVE  IInv'
<1>1. wpc \in {"notifying", "apologizing"} /\ wjob = j /\ UNCHANGED queueVars
      /\ UNCHANGED <<threads, blobs>>
  BY DEF Notify, NotifierFault, NotifyOk, ApologyOk, NotifyFail, ApologyFail
<1>2. TypeOK /\ WorkerTypeOK
  BY DEF IInv, TypeOK
<1>3. inbox' \in [Calls -> Seq({"file", "failure"})]
  <2>1. \/ inbox' = inbox
        \/ inbox' = [inbox EXCEPT ![j] = Append(@, Verdict(j))]
    BY DEF Notify, NotifierFault, NotifyOk, ApologyOk, NotifyFail, ApologyFail, MaybeDeliver, Deliver
  <2>2. Verdict(j) \in {"file", "failure"}
    BY DEF Verdict
  <2>3. inbox[j] \in Seq({"file", "failure"})
    BY <1>2 DEF WorkerTypeOK
  <2>4. Append(inbox[j], Verdict(j)) \in Seq({"file", "failure"})
    BY <2>2, <2>3
  <2> QED
    BY <1>2, <2>1, <2>4 DEF WorkerTypeOK
<1>4. CASE NotifyFail(j)
  <2>1. status[j] # "absent" /\ Unqueued(j) /\ Withdraws(j)
    BY <1>1, HeldJob, NothingWithdrawn
  <2>2. SettleStep(j, "failed") /\ code' \in [Calls -> ErrorCode \union {None}]
    BY <1>4, <2>1, MarkSettles DEF NotifyFail, ErrorCode
  <2>3. WorkerTypeOK' /\ WorkerHolds'
    BY <1>1, <1>2, <1>3, <1>4, <2>2 DEF WorkerTypeOK, WorkerPC, WorkerHolds, NotifyFail, GoTo,
       SettleStep, TypeOK, ServiceTypeOK
  <2> QED
    BY <2>1, <2>2, <2>3, SettleKeepsInvariant DEF Unqueued
<1>5. CASE NotifyOk(j) \/ ApologyOk(j) \/ ApologyFail(j)
  <2>1. UNCHANGED serviceVars /\ wpc' \in {"idle", "dead"} /\ wjob' = None /\ retried' = FALSE
    BY <1>5 DEF NotifyOk, ApologyOk, ApologyFail, BecomeIdle, GoTo
  <2>2. WorkerTypeOK' /\ WorkerHolds'
    BY <1>1, <1>2, <1>3, <2>1 DEF WorkerTypeOK, WorkerPC, WorkerHolds
  <2> QED
    BY <1>1, <2>1, <2>2, WorkerMovesOn
<1> QED
  BY <1>4, <1>5 DEF Notify, NotifierFault

-----------------------------------------------------------------------------
(* The process                                                             *)

(* An abandoned thread ends, or the process goes on with its shutdown.     *)
LEMMA ShutdownKeepsInvariant ==
  ASSUME IInv,
         \/ \E j \in Calls : ThreadStep(j)
         \/ StopPolling \/ StopWorker \/ Close
  PROVE  IInv'
<1>1. TypeOK /\ ServiceInv /\ WorkerTypeOK /\ WorkerHolds /\ QueuedOnce
  BY DEF IInv, ServiceInv, TypeOK
<1>2. ASSUME NEW j \in Calls, ThreadStep(j)
      PROVE  IInv'
  <2>1. WorkerTypeOK' /\ WorkerHolds'
    BY <1>1, <1>2 DEF ThreadStep, ThreadEnds, EndThread, WorkerTypeOK, WorkerHolds, serviceVars, recordVars
  <2> QED
    BY <1>2, <2>1, WorkerMovesOn DEF ThreadStep, ThreadEnds
<1>3. ASSUME StopWorker
      PROVE  IInv'
  <2>1. inbox' \in [Calls -> Seq({"file", "failure"})]
    <3>1. CASE inbox' = inbox
      BY <1>1, <3>1 DEF WorkerTypeOK
    <3>2. CASE wpc \in {"notifying", "apologizing"} /\ Deliver(wjob)
      <4>1. wjob \in Calls /\ inbox' = [inbox EXCEPT ![wjob] = Append(@, Verdict(wjob))]
        BY <1>1, <3>2 DEF WorkerHolds, Deliver
      <4>2. Verdict(wjob) \in {"file", "failure"} /\ inbox[wjob] \in Seq({"file", "failure"})
        BY <1>1, <4>1 DEF Verdict, WorkerTypeOK
      <4>3. Append(inbox[wjob], Verdict(wjob)) \in Seq({"file", "failure"})
        BY <4>2
      <4> QED
        BY <1>1, <4>1, <4>3 DEF WorkerTypeOK
    <3> QED
      BY <1>3, <3>1, <3>2 DEF StopWorker, WorkerCancelled
  <2>2. WorkerTypeOK' /\ WorkerHolds'
    BY <1>1, <1>3, <2>1 DEF StopWorker, WorkerCancelled, WorkerTypeOK, WorkerPC, WorkerHolds
  <2> QED
    BY <1>3, <2>2, WorkerMovesOn DEF StopWorker, WorkerCancelled
<1>4. ASSUME StopPolling \/ Close
      PROVE  IInv'
  <2>1. /\ UNCHANGED serviceVars /\ UNCHANGED workerVars /\ UNCHANGED routerVars
        /\ queue' = queue /\ producerClosed' \in {producerClosed, TRUE}
        /\ phase' \in {"stopping", "closed"}
    BY <1>4 DEF StopPolling, Close, CloseProducer, queueVars
  <2>2. ServiceInv'
    BY <1>1, <2>1, OtherKeepsService DEF serviceVars
  <2>3. WorkerTypeOK' /\ WorkerHolds' /\ QueuedOnce'
    BY <1>1, <2>1 DEF WorkerTypeOK, WorkerHolds, QueuedOnce, InQueue,
       serviceVars, recordVars, workerVars, routerVars
  <2>4. ServiceTypeOK' /\ RouterTypeOK' /\ QueueTypeOK(Calls)'
    BY <1>1, <2>1 DEF TypeOK, ServiceTypeOK, WaiterTypeOK, RouterTypeOK, QueueTypeOK,
       serviceVars, recordVars, waiterVars, routerVars
  <2> QED
    BY <2>1, <2>2, <2>3, <2>4 DEF IInv, ServiceInv, TypeOK
<1> QED
  BY <1>2, <1>3, <1>4

(* The process starts in a state of the invariant.                         *)
THEOREM InitEstablishesInvariant == Init => IInv
<1> SUFFICES ASSUME Init
             PROVE  IInv
  OBVIOUS
<1> USE DEF Init, ServiceInit, WaiterInit, QueueInit, WorkerInit, RouterInit
<1>1. ServiceTypeOK /\ QueueTypeOK(Calls) /\ WorkerTypeOK /\ RouterTypeOK
  <2>. /\ <<>> \in Seq(Calls)
       /\ <<>> \in Seq({"file", "failure"})
    OBVIOUS
  <2>1. ServiceTypeOK
    BY DEF ServiceTypeOK, WaiterTypeOK, Status, FutureState
  <2>2. QueueTypeOK(Calls)
    BY DEF QueueTypeOK
  <2>3. WorkerTypeOK
    BY DEF WorkerTypeOK, WorkerPC
  <2>4. RouterTypeOK
    BY DEF RouterTypeOK, CallPC
  <2> QED
    BY <2>1, <2>2, <2>3, <2>4
<1>2. FreshCalls /\ CallsHaveJobs /\ KeyedRecords
  BY WaiterAssumption DEF FreshCalls, CallsHaveJobs, KeyedRecords, OpenPC
<1>3. RegisteredFutures /\ RememberedSettled /\ WorkerHolds /\ NeverCanceled
  BY DEF RegisteredFutures, RememberedSettled, Remembered, WorkerHolds, NeverCanceled
<1>4. AtMostOneActivePerKey /\ NoLostWakeup /\ HeardIsSettled
  BY DEF AtMostOneActivePerKey, ActiveStatus, NoLostWakeup, HeardIsSettled, OpenPC
<1>5. QueuedOnce
  BY DEF QueuedOnce, InQueue
<1> QED
  BY <1>1, <1>2, <1>3, <1>4, <1>5 DEF IInv, TypeOK

(* Every step of the process, of Telegram's faults and of the shutdown     *)
(* keeps it.                                                               *)
THEOREM NextKeepsInvariant == IInv /\ [Next]_vars => IInv'
<1> SUFFICES ASSUME IInv, [Next]_vars
             PROVE  IInv'
  OBVIOUS
<1>1. ASSUME NEW c \in Calls, RouterStep(c) \/ RouterFault(c)
      PROVE  IInv'
  BY <1>1, CallKeepsInvariant
<1>2. ASSUME NEW j \in Calls, WorkerStep(j) \/ WorkerFault(j)
      PROVE  IInv'
  BY <1>2, HandleKeepsInvariant, FetchKeepsInvariant, NotifyKeepsInvariant
     DEF WorkerStep, WorkerFault, routerVars
<1>3. ASSUME (\E j \in Calls : ThreadStep(j)) \/ StopPolling \/ StopWorker \/ Close
      PROVE  IInv'
  BY <1>3, ShutdownKeepsInvariant
<1>4. CASE UNCHANGED vars
  BY <1>4, WorkerMovesOn DEF vars, IInv, TypeOK, WorkerTypeOK, WorkerHolds,
     serviceVars, recordVars, workerVars, routerVars
<1> QED
  BY <1>1, <1>2, <1>3, <1>4 DEF Next, SystemNext

(* What the invariant says holds of every reachable state.                 *)
THEOREM InvariantHolds == Spec => []IInv
BY InitEstablishesInvariant, NextKeepsInvariant, PTL DEF Spec

(* Every variable of the process keeps its type.                           *)
THEOREM TypeCorrect == Spec => []TypeOK
<1>1. IInv => TypeOK
  BY DEF IInv
<1> QED
  BY <1>1, InvariantHolds, PTL

(* submit never lets a chat have two active jobs for one key.              *)
THEOREM OneActiveJobPerKey == Spec => []AtMostOneActivePerKey
<1>1. IInv => AtMostOneActivePerKey
  BY DEF IInv
<1> QED
  BY <1>1, InvariantHolds, PTL

(* Between submit and the worker no message is lost or duplicated, unless   *)
(* the call that submitted the job failed.                                 *)
THEOREM QueueHandOver == Spec => []QueuedOnce
<1>1. IInv => QueuedOnce
  BY DEF IInv
<1> QED
  BY <1>1, InvariantHolds, PTL

(* A call whose future is pending will be told the verdict of its job by   *)
(* the very future it holds (subscribe, publish_terminal).                 *)
THEOREM WaiterBridge == Spec => []NoLostWakeup
<1>1. IInv => NoLostWakeup
  BY DEF IInv
<1> QED
  BY <1>1, InvariantHolds, PTL

(* A call that is told a verdict is told of a settled job                  *)
(* (enqueue_download_job, publish_terminal).                               *)
THEOREM AnswersAreVerdicts == Spec => []HeardIsSettled
<1>1. IInv => HeardIsSettled
  BY DEF IInv
<1> QED
  BY <1>1, InvariantHolds, PTL

-----------------------------------------------------------------------------
(* The worker's records, threads and messages                              *)

Told(j, m) == m \in {inbox[j][i] : i \in DOMAIN inbox[j]}

GivenUp(j) == status[j] = "failed" /\ code[j] \in {"TIMEOUT", "INTERNAL"}

Backed(j) ==
  /\ Told(j, "file") =>
       /\ Blob(j) \in blobs
       /\ status[j] = "succeeded" \/ (status[j] = "failed" /\ code[j] = "INTERNAL")
  /\ Told(j, "failure") => status[j] = "failed"

(* The file of a success that is being sent is in the cache.               *)
SentIsCached == wpc = "notifying" /\ status[wjob] = "succeeded" => Blob(wjob) \in blobs

Hands == RunningIsHeld /\ AbandonedThread /\ VerdictBacked /\ SentIsCached

LEMMA BackedAll == VerdictBacked <=> \A j \in Calls : Backed(j)
BY DEF VerdictBacked, Backed, Told

(* A message that may have arrived is the only one that is new.            *)
LEMMA TellEffect ==
  ASSUME IInv, NEW j \in Calls, MaybeDeliver(j)
  PROVE  /\ \A i \in Calls : i # j => inbox'[i] = inbox[i]
         /\ \A m : Told(j, m)' => Told(j, m) \/ m = Verdict(j)
<1>1. inbox \in [Calls -> Seq({"file", "failure"})]
  BY DEF IInv, TypeOK, WorkerTypeOK
<1>2. CASE inbox' = inbox
  BY <1>2 DEF Told
<1>3. CASE Deliver(j)
  <2>1. inbox' = [inbox EXCEPT ![j] = Append(inbox[j], Verdict(j))] /\ inbox[j] \in Seq({"file", "failure"})
    BY <1>1, <1>3 DEF Deliver
  <2>2. inbox'[j] = Append(inbox[j], Verdict(j)) /\ Verdict(j) \in {"file", "failure"}
    BY <1>1, <2>1 DEF Verdict
  <2> DEFINE s == inbox[j]  v == Verdict(j)
  <2>3. /\ Len(s) \in Nat /\ DOMAIN s = 1 .. Len(s) /\ DOMAIN Append(s, v) = 1 .. Len(s) + 1
        /\ \A i \in 1 .. Len(s) : Append(s, v)[i] = s[i]
        /\ Append(s, v)[Len(s) + 1] = v
    BY <2>1, <2>2
  <2>4. \A i \in DOMAIN Append(s, v) : Append(s, v)[i] = v \/ \E n \in DOMAIN s : Append(s, v)[i] = s[n]
    BY <2>3
  <2>5. \A m : Told(j, m)' => Told(j, m) \/ m = v
    BY <2>2, <2>4 DEF Told
  <2> QED
    BY <1>1, <2>1, <2>5
<1> QED
  BY <1>2, <1>3 DEF MaybeDeliver

(* Calls, the shutdown and the threads, which leave what is recorded.      *)
LEMMA OthersKeepHands ==
  ASSUME IInv, Hands, UNCHANGED <<wpc, wjob, blobs, inbox>>, threads' \subseteq threads,
         \A i \in Calls : status[i] # "absent" =>
           status'[i] = status[i] /\ dedupe'[i] = dedupe[i] /\ code'[i] = code[i],
         \A i \in Calls : status[i] = "absent" => status'[i] \in {"absent", "queued"}
  PROVE  Hands'
<1>1. threads \subseteq Calls
  BY DEF IInv, TypeOK, WorkerTypeOK
<1>2. RunningIsHeld' /\ AbandonedThread'
  BY <1>1 DEF Hands, RunningIsHeld, AbandonedThread
<1>3. \A i \in Calls : Backed(i)'
  <2> SUFFICES ASSUME NEW i \in Calls PROVE Backed(i)'
    OBVIOUS
  <2>1. Backed(i)
    BY BackedAll DEF Hands
  <2>2. \A m : Told(i, m)' <=> Told(i, m)
    BY DEF Told
  <2> QED
    BY <2>1, <2>2 DEF Backed, Blob
<1>4. SentIsCached'
  BY DEF Hands, SentIsCached, Blob, IInv, WorkerHolds, TerminalStatus
<1>5. VerdictBacked'
  BY <1>3 DEF VerdictBacked, Backed, Told
<1> QED
  BY <1>2, <1>4, <1>5 DEF Hands

(* The worker's step with the job in its hands, or the one it takes.       *)
LEMMA OwnKeepsHands ==
  ASSUME IInv, Hands, NEW j \in Calls, wjob = j \/ wpc = "idle",
         UNCHANGED dedupe, blobs \subseteq blobs', threads' \subseteq threads \union {j},
         \A i \in Calls : i # j => status'[i] = status[i] /\ code'[i] = code[i] /\ inbox'[i] = inbox[i],
         status'[j] = "running" => wjob' = j /\ wpc' \in {"fetching", "backoff", "stopped"},
         j \in threads' => GivenUp(j)' \/ (wjob' = j /\ wpc' \in {"fetching", "stopped"}),
         wpc' = "notifying" => wjob' = j /\ (status'[j] = "succeeded" => Blob(j) \in blobs'),
         Backed(j)'
  PROVE  Hands'
<1>1. threads \subseteq Calls
  BY DEF IInv, TypeOK, WorkerTypeOK
<1>2. \A i \in Calls : Blob(i)' = Blob(i)
  BY DEF Blob
<1>3. RunningIsHeld'
  BY DEF Hands, RunningIsHeld
<1>4. AbandonedThread'
  BY <1>1 DEF Hands, AbandonedThread, GivenUp
<1>5. \A i \in Calls : Backed(i)'
  <2> SUFFICES ASSUME NEW i \in Calls, i # j PROVE Backed(i)'
    OBVIOUS
  <2>1. Backed(i)
    BY BackedAll DEF Hands
  <2>2. \A m : Told(i, m)' <=> Told(i, m)
    BY DEF Told
  <2> QED
    BY <1>2, <2>1, <2>2 DEF Backed
<1>6. SentIsCached'
  BY <1>2 DEF SentIsCached
<1>7. VerdictBacked'
  BY <1>5 DEF VerdictBacked, Backed, Told
<1> QED
  BY <1>3, <1>4, <1>6, <1>7 DEF Hands

(* A verdict for a job whose chat has heard nothing.                       *)
LEMMA SettleKeepsHands ==
  ASSUME IInv, Hands, NEW j \in Calls, wjob = j \/ wpc = "idle",
         status[j] \in ActiveStatus, UNCHANGED inbox, blobs \subseteq blobs',
         wjob' = j, wpc' \in {"notifying", "apologizing"},
         \/ MarkSucceeded(j) /\ Blob(j) \in blobs' /\ threads' = threads \ {j}
         \/ \E err \in ErrorCode : /\ MarkFailed(j, err)
                                   /\ threads' = threads \ {j} \/ (err = "TIMEOUT" /\ threads' = threads)
  PROVE  Hands'
<1>1. status \in [Calls -> Status] /\ code \in [Calls -> ErrorCode \union {None}]
  BY DEF IInv, TypeOK, ServiceTypeOK
<1>2. Known(j)
  BY DEF Known, ActiveStatus
<1>3. /\ dedupe' = dedupe /\ status'[j] \in {"succeeded", "failed"}
      /\ \A i \in Calls : i # j => status'[i] = status[i] /\ code'[i] = code[i]
      /\ status'[j] = "succeeded" => Blob(j) \in blobs'
      /\ j \in threads' => GivenUp(j)'
  BY <1>1, <1>2 DEF MarkSucceeded, MarkFailed, GivenUp
<1>4. Backed(j)'
  <2>1. Backed(j)
    BY BackedAll DEF Hands
  <2>2. \A m : Told(j, m)' <=> Told(j, m)
    BY DEF Told
  <2> QED
    BY <2>1, <2>2 DEF Backed, ActiveStatus
<1>5. threads' \subseteq threads \union {j}
  OBVIOUS
<1> QED
  BY <1>3, <1>4, <1>5, OwnKeepsHands

LEMMA HandleKeepsHands ==
  ASSUME IInv, Hands, NEW j \in Calls, Handle(j)
  PROVE  Hands'
<1>1. status[j] = "queued" /\ wpc = "idle"
  BY ReceivedJob
  DEF Handle, HandleSkip, HandleUnsupported, HandleCacheHit, HandleMiss, HandleError
<1>2. j \notin threads
  BY <1>1 DEF Hands, AbandonedThread
<1>3. CASE HandleUnsupported(j) \/ HandleCacheHit(j) \/ HandleError(j)
  BY <1>1, <1>2, <1>3, SettleKeepsHands
  DEF HandleUnsupported, HandleCacheHit, HandleError, GoTo, ActiveStatus, ErrorCode
<1>4. CASE HandleMiss(j)
  <2>1. /\ dedupe' = dedupe /\ code' = code /\ UNCHANGED <<blobs, inbox>>
        /\ \A i \in Calls : i # j => status'[i] = status[i]
        /\ wjob' = j /\ wpc' = "fetching" /\ threads' = threads \union {j}
    BY <1>4 DEF HandleMiss, MarkRunning, GoTo, StartThread, IInv, TypeOK, ServiceTypeOK
  <2>2. Backed(j)'
    <3>1. Backed(j)
      BY BackedAll DEF Hands
    <3>2. \A m : Told(j, m)' <=> Told(j, m)
      BY <2>1 DEF Told
    <3> QED
      BY <1>1, <3>1, <3>2 DEF Backed
  <2> QED
    BY <1>1, <2>1, <2>2, OwnKeepsHands
<1>5. ~HandleSkip(j)
  BY <1>1 DEF HandleSkip, TerminalStatus
<1> QED
  BY <1>3, <1>4, <1>5 DEF Handle

LEMMA FetchKeepsHands ==
  ASSUME IInv, Hands, NEW j \in Calls, Fetch(j)
  PROVE  Hands'
<1>1. wjob = j /\ wpc \in {"fetching", "backoff"}
  BY DEF Fetch, DownloadOk, DownloadFatal, DownloadTransient, DownloadTransientAgain,
         DownloadTimeout, DownloadError, BackoffEnds
<1>2. status[j] = "running"
  BY <1>1 DEF IInv, WorkerHolds
<1>3. CASE DownloadOk(j)
  BY <1>1, <1>2, <1>3, SettleKeepsHands DEF DownloadOk, EndThread, GoTo, ActiveStatus
<1>4. CASE DownloadFatal(j) \/ DownloadTransientAgain(j) \/ DownloadTimeout(j) \/ DownloadError(j)
  <2>1. /\ UNCHANGED <<inbox, blobs>> /\ wjob' = j /\ wpc' \in {"notifying", "apologizing"}
        /\ \E err \in ErrorCode : /\ MarkFailed(j, err)
                                  /\ threads' = threads \ {j} \/ (err = "TIMEOUT" /\ threads' = threads)
    BY <1>4 DEF DownloadFatal, DownloadTransientAgain, DownloadTimeout, DownloadError, EndThread,
                GoTo, ErrorCode
  <2> QED
    BY <1>1, <1>2, <2>1, SettleKeepsHands DEF ActiveStatus
<1>5. CASE DownloadTransient(j) \/ BackoffEnds(j)
  <2>1. /\ UNCHANGED <<status, dedupe, code, blobs, inbox>> /\ wjob' = j
        /\ \/ wpc' = "backoff" /\ threads' = threads \ {j}
           \/ wpc' = "fetching" /\ threads' = threads \union {j}
    BY <1>5 DEF DownloadTransient, BackoffEnds, GoTo, StartThread, EndThread, serviceVars,
                recordVars
  <2>2. Backed(j)'
    <3>1. Backed(j)
      BY BackedAll DEF Hands
    <3> QED
      BY <2>1, <3>1 DEF Backed, Told, Blob
  <2> QED
    BY <1>1, <2>1, <2>2, OwnKeepsHands
<1> QED
  BY <1>3, <1>4, <1>5 DEF Fetch

LEMMA NotifyKeepsHands ==
  ASSUME IInv, Hands, NEW j \in Calls, Notify(j) \/ NotifierFault(j)
  PROVE  Hands'
<1>1. /\ wjob = j /\ wpc \in {"notifying", "apologizing"} /\ UNCHANGED <<threads, blobs>>
      /\ MaybeDeliver(j)
  BY DEF Notify, NotifierFault, NotifyOk, ApologyOk, NotifyFail, ApologyFail, MaybeDeliver
<1>2. /\ status[j] \in TerminalStatus /\ status[j] # "canceled"
      /\ wpc = "apologizing" => status[j] = "failed"
  BY <1>1 DEF IInv, WorkerHolds, NeverCanceled, TerminalStatus
<1>3. /\ \A i \in Calls : i # j => inbox'[i] = inbox[i]
      /\ \A m : Told(j, m)' => Told(j, m) \/ m = Verdict(j)
  BY <1>1, TellEffect
<1>4. Backed(j) /\ (status[j] = "succeeded" => Blob(j) \in blobs)
  BY <1>1, <1>2, BackedAll DEF Hands, SentIsCached
<1>5. j \in threads => GivenUp(j)
  BY <1>1 DEF Hands, AbandonedThread, GivenUp
<1>6. CASE NotifyOk(j) \/ ApologyOk(j) \/ ApologyFail(j)
  <2>1. UNCHANGED <<status, dedupe, code>> /\ wjob' = None /\ wpc' \in {"idle", "dead"}
    BY <1>6 DEF NotifyOk, ApologyOk, ApologyFail, BecomeIdle, GoTo, serviceVars, recordVars
  <2>2. Backed(j)'
    BY <1>1, <1>2, <1>3, <1>4, <2>1 DEF Backed, Blob, Verdict, TerminalStatus
  <2>3. status'[j] # "running" /\ (j \in threads' => GivenUp(j)')
    BY <1>1, <1>2, <1>5, <2>1 DEF TerminalStatus, GivenUp
  <2> QED
    BY <1>1, <1>3, <2>1, <2>2, <2>3, OwnKeepsHands
<1>7. CASE NotifyFail(j)
  <2>1. /\ dedupe' = dedupe /\ status'[j] = "failed" /\ code'[j] = "INTERNAL"
        /\ \A i \in Calls : i # j => status'[i] = status[i] /\ code'[i] = code[i]
        /\ wjob' = j /\ wpc' = "apologizing"
    BY <1>2, <1>7 DEF NotifyFail, MarkFailed, Known, TerminalStatus, GoTo, IInv, TypeOK,
                      ServiceTypeOK
  <2>2. Backed(j)'
    BY <1>1, <1>2, <1>3, <1>4, <2>1 DEF Backed, Blob, Verdict, TerminalStatus
  <2>3. GivenUp(j)'
    BY <2>1 DEF GivenUp
  <2> QED
    BY <1>1, <1>3, <2>1, <2>2, <2>3, OwnKeepsHands
<1> QED
  BY <1>6, <1>7 DEF Notify, NotifierFault

LEMMA StopKeepsHands ==
  ASSUME IInv, Hands, StopWorker
  PROVE  Hands'
<1>1. /\ wpc' = "stopped" /\ UNCHANGED <<wjob, threads, blobs, status, dedupe, code>>
      /\ \/ wpc \in {"notifying", "apologizing"} /\ MaybeDeliver(wjob)
         \/ inbox' = inbox
  BY DEF StopWorker, WorkerCancelled, MaybeDeliver, serviceVars, recordVars
<1>2. /\ RunningIsHeld' /\ AbandonedThread' /\ SentIsCached'
  BY <1>1 DEF Hands, RunningIsHeld, AbandonedThread, SentIsCached
<1>3. CASE inbox' = inbox
  BY <1>1, <1>2, <1>3 DEF Hands, VerdictBacked, Blob
<1>4. CASE wpc \in {"notifying", "apologizing"} /\ MaybeDeliver(wjob)
  <2>1. /\ wjob \in Calls /\ status[wjob] \in {"succeeded", "failed"}
        /\ wpc = "apologizing" => status[wjob] = "failed"
    BY <1>4 DEF IInv, WorkerHolds, NeverCanceled, TerminalStatus
  <2>2. /\ \A i \in Calls : i # wjob => inbox'[i] = inbox[i]
        /\ \A m : Told(wjob, m)' => Told(wjob, m) \/ m = Verdict(wjob)
    <3>1. PICK j \in Calls : j = wjob
      BY <2>1
    <3>2. \A m : Told(j, m)' => Told(j, m) \/ m = Verdict(j)
      BY <1>4, <3>1, TellEffect
    <3>3. \A i \in Calls : i # j => inbox'[i] = inbox[i]
      BY <1>4, <3>1, TellEffect
    <3> QED
      BY <1>1, <3>1, <3>2, <3>3 DEF Told
  <2>3. \A i \in Calls : Backed(i)'
    <3> SUFFICES ASSUME NEW i \in Calls PROVE Backed(i)'
      OBVIOUS
    <3>1. Backed(i) /\ (i = wjob /\ status[i] = "succeeded" => Blob(i) \in blobs)
      BY <1>4, <2>1, BackedAll DEF Hands, SentIsCached
    <3>2. \A m : Told(i, m)' => Told(i, m) \/ (i = wjob /\ m = Verdict(i))
      BY <1>1, <2>2 DEF Told
    <3> QED
      BY <1>1, <2>1, <3>1, <3>2 DEF Backed, Blob, Verdict
  <2>4. VerdictBacked'
    BY <2>3 DEF VerdictBacked, Backed, Told
  <2> QED
    BY <1>2, <2>4 DEF Hands
<1> QED
  BY <1>1, <1>3, <1>4

LEMMA NextKeepsHands == Hands /\ IInv /\ [Next]_vars => Hands'
<1> SUFFICES ASSUME Hands, IInv, [Next]_vars PROVE Hands'
  OBVIOUS
<1>1. ASSUME UNCHANGED recordVars, UNCHANGED <<wpc, wjob, blobs, inbox>>, threads' \subseteq threads
      PROVE  Hands'
  BY <1>1, OthersKeepHands DEF recordVars
<1>2. ASSUME NEW c \in Calls, RouterStep(c) \/ RouterFault(c) PROVE Hands'
  <2>1. UNCHANGED workerVars
    BY <1>2 DEF RouterStep, RouterFault
  <2>2. CASE UNCHANGED recordVars
    BY <1>1, <2>1, <2>2 DEF workerVars
  <2>3. CASE \E k \in Keys : RequestNew(c, k)
    <3>1. PICK k \in Keys : /\ status' = [status EXCEPT ![c] = "queued"]
                            /\ dedupe' = [dedupe EXCEPT ![c] = k] /\ code' = code
                            /\ cpc[c] = "new"
      BY <2>3 DEF RequestNew, SubmitNew, At
    <3>2. /\ status[c] = "absent" /\ status \in [Calls -> Status]
          /\ dedupe \in [Calls -> Keys \union {None}]
      BY <3>1 DEF IInv, FreshCalls, TypeOK, ServiceTypeOK
    <3>3. /\ \A i \in Calls : status[i] # "absent" =>
               status'[i] = status[i] /\ dedupe'[i] = dedupe[i] /\ code'[i] = code[i]
          /\ \A i \in Calls : status[i] = "absent" => status'[i] \in {"absent", "queued"}
      BY <3>1, <3>2
    <3> QED
      BY <2>1, <3>3, OthersKeepHands DEF workerVars
  <2> QED
    BY <1>2, <2>2, <2>3
    DEF RouterStep, RouterFault, Announce, AnnounceJoined, AnnounceClosed, AnnounceFull,
        AnnouncePut, AnnounceFail, PutUnblocked, Await, Finish, Interrupted, Timeout, Request,
        RequestBusy, RequestRejected, RequestJoin, SubmitJoin, serviceVars
<1>3. ASSUME NEW j \in Calls, WorkerStep(j) \/ WorkerFault(j) PROVE Hands'
  BY <1>3, HandleKeepsHands, FetchKeepsHands, NotifyKeepsHands DEF WorkerStep, WorkerFault
<1>4. CASE (\E j \in Calls : ThreadStep(j)) \/ StopPolling \/ Close
  BY <1>1, <1>4 DEF ThreadStep, ThreadEnds, EndThread, StopPolling, Close, CloseProducer,
                    serviceVars, workerVars
<1>5. CASE UNCHANGED vars
  BY <1>1, <1>5 DEF vars, serviceVars, workerVars
<1> QED
  BY <1>2, <1>3, <1>4, <1>5, StopKeepsHands DEF Next, SystemNext

LEMMA HandsHold == Spec => []Hands
<1>1. Init => Hands
  BY DEF Init, ServiceInit, WorkerInit, Hands, RunningIsHeld, AbandonedThread, VerdictBacked,
         SentIsCached
<1> QED
  BY <1>1, NextKeepsHands, InvariantHolds, PTL DEF Spec

(* A running record is that of the job the consumer is busy with           *)
(* (mark_running, handle, wrapped).                                        *)
THEOREM RunningJobsAreHeld == Spec => []RunningIsHeld
<1>1. Hands => RunningIsHeld
  BY DEF Hands
<1> QED
  BY <1>1, HandsHold, PTL

(* A thread that outlives its wait belongs to a job that failed, so its    *)
(* file never is a verdict (wait_for around download).                     *)
THEOREM ThreadsAreAbandoned == Spec => []AbandonedThread
<1>1. Hands => AbandonedThread
  BY DEF Hands
<1> QED
  BY <1>1, HandsHold, PTL

(* What a chat was told agrees with record and cache (put_from_path,       *)
(* mark_succeeded, notify_job_update, wrapped).                            *)
THEOREM VerdictsAreBacked == Spec => []VerdictBacked
<1>1. Hands => VerdictBacked
  BY DEF Hands
<1> QED
  BY <1>1, HandsHold, PTL

-----------------------------------------------------------------------------
(* BotCore implements JobLedger: under the mapping of BotCore's `Ledger'   *)
(* every step of the process, of Telegram's faults and of the shutdown is  *)
(* a step of the ledger or changes nothing that the ledger shows.          *)

LedgerView == Ledger!ledgerVars

(* The step changes nothing that the ledger shows.                         *)
LEMMA Unseen ==
  ASSUME UNCHANGED <<status, dedupe, routerVars>>
  PROVE  UNCHANGED LedgerView
<1>1. /\ \A k \in Keys : ActiveFor(k)' = ActiveFor(k)
      /\ \A j \in Calls : VerdictOf(j)' = VerdictOf(j)
      /\ target' = target
      /\ {c \in Calls : cpc[c] = "done"}' = {c \in Calls : cpc[c] = "done"}
  BY DEF ActiveFor, VerdictOf, routerVars
<1> QED
  BY <1>1 DEF LedgerView, Ledger!ledgerVars

(* Submitting a job of one's own opens it.                                 *)
LEMMA NewOpens ==
  ASSUME IInv, NEW c \in Calls, NEW k \in Keys, RequestNew(c, k)
  PROVE  Ledger!Open(c, k)
<1>1. /\ status \in [Calls -> Status] /\ dedupe \in [Calls -> Keys \union {None}]
      /\ cpc \in [Calls -> CallPC] /\ target \in [Calls -> Calls \union {None}]
  BY DEF IInv, TypeOK, ServiceTypeOK, RouterTypeOK
<1>2. cpc[c] = "new" /\ status[c] = "absent" /\ target[c] = None
  BY DEF RequestNew, At, IInv, FreshCalls
<1>3. /\ status' = [status EXCEPT ![c] = "queued"] /\ dedupe' = [dedupe EXCEPT ![c] = k]
      /\ cpc' = [cpc EXCEPT ![c] = "announcing"] /\ target' = [target EXCEPT ![c] = c]
      /\ ActiveFor(k) = {}
  BY DEF RequestNew, SubmitNew, Become
<1>4. ActiveFor(k)' = {c}
  BY <1>1, <1>3 DEF ActiveFor, ActiveStatus
<1>5. \A l \in Keys : l # k => ActiveFor(l)' = ActiveFor(l)
  BY <1>1, <1>2, <1>3 DEF ActiveFor, ActiveStatus
<1>6. VerdictOf(c) = "none" /\ VerdictOf(c)' = "open"
  BY <1>1, <1>2, <1>3 DEF VerdictOf, ActiveStatus
<1>7. \A j \in Calls : j # c => VerdictOf(j)' = VerdictOf(j)
  BY <1>1, <1>3 DEF VerdictOf
<1>8. {d \in Calls : cpc[d] = "done"}' = {d \in Calls : cpc[d] = "done"}
  BY <1>1, <1>2, <1>3
<1>9. [l \in Keys |-> ActiveFor(l)]' = [[l \in Keys |-> ActiveFor(l)] EXCEPT ![k] = {c}]
  BY <1>4, <1>5
<1>10. [j \in Calls |-> VerdictOf(j)]' = [[j \in Calls |-> VerdictOf(j)] EXCEPT ![c] = "open"]
  BY <1>6, <1>7
<1> QED
  BY <1>2, <1>3, <1>6, <1>8, <1>9, <1>10 DEF Ledger!Open

(* A call that finds an active job for its key joins it.                   *)
LEMMA JoinJoins ==
  ASSUME IInv, NEW c \in Calls, NEW k \in Keys, RequestJoin(c, k)
  PROVE  Ledger!Join(c, k)
<1>1. cpc \in [Calls -> CallPC] /\ cpc[c] = "new" /\ target[c] = None
  BY DEF RequestJoin, At, IInv, FreshCalls, TypeOK, RouterTypeOK
<1>2. PICK j \in Calls : j \in ActiveFor(k) /\ target' = [target EXCEPT ![c] = j]
  BY DEF RequestJoin, SubmitJoin
<1>3. status' = status /\ dedupe' = dedupe /\ cpc' = [cpc EXCEPT ![c] = "announcing"]
  BY DEF RequestJoin, SubmitJoin, recordVars, Become
<1>4. /\ [l \in Keys |-> ActiveFor(l)]' = [l \in Keys |-> ActiveFor(l)]
      /\ [i \in Calls |-> VerdictOf(i)]' = [i \in Calls |-> VerdictOf(i)]
  BY <1>3 DEF ActiveFor, VerdictOf
<1>5. {d \in Calls : cpc[d] = "done"}' = {d \in Calls : cpc[d] = "done"}
  BY <1>1, <1>3
<1> QED
  BY <1>1, <1>2, <1>4, <1>5 DEF Ledger!Join

(* A verdict on an active job settles it; on a delivered success that      *)
(* could not be sent, it retracts it; on a failure it changes nothing.     *)
LEMMA VerdictSettles ==
  ASSUME IInv, NEW j \in Calls, NEW s, SettleStep(j, s), status[j] # "absent",
         status[j] \in TerminalStatus => s = "failed"
  PROVE  \/ Ledger!Settle(j, s) /\ s \in Ledger!Settled
         \/ Ledger!Retract(j)
         \/ UNCHANGED LedgerView
<1>1. /\ status \in [Calls -> Status] /\ status[j] # "canceled"
      /\ status' = [status EXCEPT ![j] = s] /\ s \in {"succeeded", "failed"}
      /\ dedupe' = dedupe /\ cpc' = cpc /\ target' = target
  BY DEF IInv, TypeOK, ServiceTypeOK, NeverCanceled, SettleStep, routerVars
<1>2. {d \in Calls : cpc[d] = "done"}' = {d \in Calls : cpc[d] = "done"}
  BY <1>1
<1>3. VerdictOf(j)' = s /\ \A i \in Calls : i # j => VerdictOf(i)' = VerdictOf(i)
  BY <1>1 DEF VerdictOf, ActiveStatus
<1>4. [i \in Calls |-> VerdictOf(i)]' = [[i \in Calls |-> VerdictOf(i)] EXCEPT ![j] = s]
  BY <1>3
<1>5. \A k \in Keys : ActiveFor(k)' = ActiveFor(k) \ {j}
  BY <1>1 DEF ActiveFor, ActiveStatus
<1>6. CASE status[j] \in ActiveStatus
  <2>1. VerdictOf(j) = "open"
    BY <1>6 DEF VerdictOf, ActiveStatus
  <2>2. [k \in Keys |-> ActiveFor(k)]' = [k \in Keys |-> [l \in Keys |-> ActiveFor(l)][k] \ {j}]
    BY <1>5
  <2> QED
    BY <1>1, <1>2, <1>4, <2>1, <2>2 DEF Ledger!Settle, Ledger!Settled
<1>7. CASE status[j] = "succeeded"
  <2>1. VerdictOf(j) = "succeeded" /\ s = "failed"
    BY <1>7 DEF VerdictOf, ActiveStatus, TerminalStatus
  <2>2. [k \in Keys |-> ActiveFor(k)]' = [k \in Keys |-> ActiveFor(k)]
    BY <1>1, <1>5, <1>7 DEF ActiveFor, ActiveStatus
  <2> QED
    BY <1>1, <1>2, <1>4, <2>1, <2>2 DEF Ledger!Retract
<1>8. CASE status[j] = "failed"
  <2>1. status' = status
    BY <1>1, <1>8 DEF TerminalStatus
  <2> QED
    BY <1>1, <2>1, Unseen DEF SettleStep
<1> QED
  BY <1>1, <1>6, <1>7, <1>8 DEF Status, ActiveStatus, TerminalStatus

(* mark_running of an active job changes nothing that the ledger shows.    *)
LEMMA RunUnseen ==
  ASSUME IInv, NEW j \in Calls, RunStep(j)
  PROVE  UNCHANGED LedgerView
<1>1. /\ status \in [Calls -> Status] /\ status[j] \in ActiveStatus
      /\ status' = [status EXCEPT ![j] = "running"]
      /\ dedupe' = dedupe /\ cpc' = cpc /\ target' = target
  BY DEF IInv, TypeOK, ServiceTypeOK, RunStep, routerVars
<1>2. /\ \A k \in Keys : ActiveFor(k)' = ActiveFor(k)
      /\ \A i \in Calls : VerdictOf(i)' = VerdictOf(i)
  BY <1>1 DEF ActiveFor, VerdictOf, ActiveStatus
<1>3. {c \in Calls : cpc[c] = "done"}' = {c \in Calls : cpc[c] = "done"}
  BY <1>1
<1> QED
  BY <1>1, <1>2, <1>3 DEF LedgerView, Ledger!ledgerVars

(* A call that returns from its wait with a record is answered about a     *)
(* settled job; the other moves of a call are not seen.                    *)
LEMMA CallAnswers ==
  ASSUME IInv, NEW c \in Calls, NEW pc, cpc[c] \in {"new"} \union OpenPC, Become(c, pc),
         UNCHANGED <<recordVars, target>>,
         pc = "done" => cpc[c] \in OpenPC /\ futState[holds[c]] = "result"
  PROVE  Ledger!Answer(c) \/ UNCHANGED LedgerView
<1>1. /\ status' = status /\ dedupe' = dedupe /\ target' = target
      /\ cpc \in [Calls -> CallPC] /\ cpc[c] \in {"new"} \union OpenPC
      /\ cpc' = [cpc EXCEPT ![c] = pc]
  BY DEF Become, recordVars, IInv, TypeOK, RouterTypeOK
<1>2. /\ [k \in Keys |-> ActiveFor(k)]' = [k \in Keys |-> ActiveFor(k)]
      /\ [j \in Calls |-> VerdictOf(j)]' = [j \in Calls |-> VerdictOf(j)]
  BY <1>1 DEF ActiveFor, VerdictOf
<1>3. CASE pc = "done"
  <2>1. target[c] \in Calls /\ status[target[c]] \in {"succeeded", "failed"} /\ cpc[c] \in OpenPC
    BY <1>1, <1>3 DEF IInv, HeardIsSettled, CallsHaveJobs, NeverCanceled, TerminalStatus
  <2>2. VerdictOf(target[c]) \in {"succeeded", "failed"} /\ target[c] # None
    BY <2>1, WaiterAssumption DEF VerdictOf, ActiveStatus
  <2>3. {d \in Calls : cpc[d] = "done"}' = {d \in Calls : cpc[d] = "done"} \union {c}
    BY <1>1, <1>3
  <2> QED
    BY <1>1, <1>2, <2>1, <2>2, <2>3 DEF Ledger!Answer, Ledger!Settled
<1>4. CASE pc # "done"
  <2>1. {d \in Calls : cpc[d] = "done"}' = {d \in Calls : cpc[d] = "done"}
    BY <1>1, <1>4 DEF OpenPC
  <2> QED
    BY <1>1, <1>2, <2>1 DEF LedgerView, Ledger!ledgerVars
<1> QED
  BY <1>3, <1>4

-----------------------------------------------------------------------------
(* The steps of the process                                                *)

LEMMA CallImplementsLedger ==
  ASSUME IInv, NEW c \in Calls, RouterStep(c) \/ RouterFault(c)
  PROVE  [Ledger!Next]_LedgerView
<1>1. ASSUME NEW k \in Keys, RequestNew(c, k)
      PROVE  Ledger!Next
  BY <1>1, NewOpens DEF Ledger!Next
<1>2. ASSUME NEW k \in Keys, RequestJoin(c, k)
      PROVE  Ledger!Next
  BY <1>2, JoinJoins DEF Ledger!Next
<1>3. ASSUME NEW pc, cpc[c] \in {"new"} \union OpenPC, Become(c, pc),
             UNCHANGED <<recordVars, target>>,
             pc = "done" => cpc[c] \in OpenPC /\ futState[holds[c]] = "result"
      PROVE  [Ledger!Next]_LedgerView
  BY <1>3, CallAnswers DEF Ledger!Next
<1>4. ASSUME NEW k \in Keys, RequestBusy(c) \/ RequestRejected(c, k)
      PROVE  [Ledger!Next]_LedgerView
  BY <1>3, <1>4 DEF RequestBusy, RequestRejected, At, serviceVars
<1>5. CASE AnnounceFail(c) \/ AnnounceJoined(c) \/ AnnounceClosed(c) \/ AnnounceFull(c)
           \/ AnnouncePut(c) \/ PutUnblocked(c)
  BY <1>3, <1>5, AwaitOutcomes DEF AnnounceFail, AnnounceJoined, AnnounceClosed, AnnounceFull,
     AnnouncePut, PutUnblocked, At, serviceVars, OpenPC
<1>6. CASE Finish(c) \/ Interrupted(c) \/ Timeout(c)
  BY <1>3, <1>6 DEF Finish, Interrupted, Timeout, At, serviceVars, OpenPC
<1>7. CASE RequestBusy(c)
  BY <1>3, <1>7 DEF RequestBusy, At, serviceVars
<1> QED
  BY <1>1, <1>2, <1>4, <1>5, <1>6, <1>7 DEF RouterStep, RouterFault, Request, Announce, Await

LEMMA WorkerImplementsLedger ==
  ASSUME IInv, NEW j \in Calls, WorkerStep(j) \/ WorkerFault(j)
  PROVE  [Ledger!Next]_LedgerView
<1> USE DEF WorkerStep, WorkerFault
<1>1. UNCHANGED routerVars
  OBVIOUS
<1>2. ASSUME NEW s, SettleStep(j, s), status[j] # "absent",
             status[j] \in TerminalStatus => s = "failed"
      PROVE  [Ledger!Next]_LedgerView
  <2>1. s \in Ledger!Settled => (Ledger!Settle(j, s) => Ledger!Next)
    BY DEF Ledger!Next
  <2>2. Ledger!Retract(j) => Ledger!Next
    BY DEF Ledger!Next
  <2> QED
    BY <1>2, <2>1, <2>2, VerdictSettles
<1>3. ASSUME NEW err \in ErrorCode, MarkFailed(j, err), status[j] # "absent"
      PROVE  [Ledger!Next]_LedgerView
  BY <1>1, <1>2, <1>3, MarkSettles
<1>4. ASSUME Handle(j)
      PROVE  [Ledger!Next]_LedgerView
  <2>1. Receive(j) /\ status[j] = "queued"
    BY <1>4, ReceivedJob DEF Handle, HandleSkip, HandleUnsupported, HandleCacheHit, HandleMiss,
       HandleError
  <2>2. CASE HandleSkip(j)
    BY <2>1, <2>2 DEF HandleSkip, TerminalStatus
  <2>3. CASE HandleUnsupported(j) \/ HandleError(j)
    BY <1>3, <2>1, <2>3 DEF HandleUnsupported, HandleError, ErrorCode
  <2>4. CASE HandleCacheHit(j)
    BY <1>1, <1>2, <2>1, <2>4, MarkSettles DEF HandleCacheHit, TerminalStatus
  <2>5. CASE HandleMiss(j)
    <3>1. RunStep(j)
      BY <1>1, <2>1, <2>5 DEF HandleMiss, MarkRunning, Known, RunStep, ActiveStatus
    <3> QED
      BY <3>1, RunUnseen
  <2> QED
    BY <1>4, <2>2, <2>3, <2>4, <2>5 DEF Handle
<1>5. ASSUME Fetch(j)
      PROVE  [Ledger!Next]_LedgerView
  <2>1. status[j] = "running"
    BY <1>5 DEF Fetch, DownloadOk, DownloadFatal, DownloadTransient, DownloadTransientAgain,
       DownloadTimeout, DownloadError, BackoffEnds, IInv, WorkerHolds
  <2>2. CASE DownloadOk(j)
    BY <1>1, <1>2, <2>1, <2>2, MarkSettles DEF DownloadOk, TerminalStatus
  <2>3. CASE \/ DownloadFatal(j) \/ DownloadTransientAgain(j)
             \/ DownloadTimeout(j) \/ DownloadError(j)
    BY <1>3, <2>1, <2>3 DEF DownloadFatal, DownloadTransientAgain, DownloadTimeout, DownloadError,
       ErrorCode
  <2>4. CASE DownloadTransient(j) \/ BackoffEnds(j)
    BY <1>1, <2>4, Unseen DEF DownloadTransient, BackoffEnds, serviceVars, recordVars
  <2> QED
    BY <1>5, <2>2, <2>3, <2>4 DEF Fetch
<1>6. CASE NotifyFail(j)
  BY <1>3, <1>6, HeldJob DEF NotifyFail, ErrorCode
<1>7. CASE NotifyOk(j) \/ ApologyOk(j) \/ ApologyFail(j)
  BY <1>1, <1>7, Unseen DEF NotifyOk, ApologyOk, ApologyFail, serviceVars, recordVars
<1> QED
  BY <1>4, <1>5, <1>6, <1>7 DEF Notify, NotifierFault

(* Initially nothing is open, settled, asked for or answered.              *)
THEOREM LedgerInit == Init => Ledger!Init
BY DEF Init, ServiceInit, WaiterInit, RouterInit, Ledger!Init, ActiveFor, ActiveStatus, VerdictOf

(* A step of the process is a step of the ledger or is not seen in it.     *)
THEOREM LedgerStep == IInv /\ [Next]_vars => [Ledger!Next]_LedgerView
<1> SUFFICES ASSUME IInv, [Next]_vars
             PROVE  [Ledger!Next]_LedgerView
  OBVIOUS
<1>1. CASE (\E j \in Calls : ThreadStep(j)) \/ StopPolling \/ StopWorker \/ Close \/ UNCHANGED vars
  BY <1>1, Unseen DEF ThreadStep, ThreadEnds, StopPolling, StopWorker, WorkerCancelled, Close, vars,
     serviceVars, recordVars, routerVars
<1> QED
  BY <1>1, CallImplementsLedger, WorkerImplementsLedger DEF Next, SystemNext

(* The bot implements the ledger: one open job per key, shared by the      *)
(* calls that ask for it, settled once, and no answer before its verdict.  *)
THEOREM BotKeepsLedger == Spec => LedgerKept
BY LedgerInit, LedgerStep, InvariantHolds, PTL DEF Spec, LedgerKept, Ledger!Spec, LedgerView
=============================================================================
