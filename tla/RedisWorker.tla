---------------------------- MODULE RedisWorker ----------------------------
(***************************************************************************)
(* RedisQueueProducer and RedisQueueConsumer (services/queue/              *)
(* redis_queue.py) in the place of the memory queue: the worker loop of    *)
(* one process, with its own repository and waiter, on a stream that       *)
(* outlives it.  `queue' is the part of the stream that the consumer group *)
(* has not delivered yet; an entry is the id of the job it names.  The     *)
(* group is read with ">", so an entry is delivered once.                  *)
(*                                                                         *)
(* The service is used by callers that submit, subscribe with any snapshot *)
(* they may have seen, enqueue, cancel their wait and cancel jobs in any   *)
(* order.  The process ends at any moment and is started again.            *)
(*                                                                         *)
(* redis>=5 admits versions of the client that repeat a command whose      *)
(* reply was lost, and versions that raise.                                *)
(***************************************************************************)
EXTENDS WorkDirs

VARIABLES
  entry,  \* the entry the subscribe loop has in hand, None between two
  acked,  \* jobs with an acknowledged entry
  lost,   \* jobs with an entry that was delivered in a reply that was lost
  stage,  \* where each caller is
  asked   \* the job each caller submitted or joined, None before

streamVars == <<entry, acked, lost>>
callerVars == <<stage, asked>>
vars == <<serviceVars, queueVars, workerVars, dirs, streamVars, callerVars>>

Stages == {"new", "asked", "sent", "failed", "gone"}

Init ==
  /\ ServiceInit /\ QueueInit /\ WorkerInit /\ DirsInit
  /\ entry = None /\ acked = {} /\ lost = {}
  /\ stage = [c \in Calls |-> "new"]
  /\ asked = [c \in Calls |-> None]

-----------------------------------------------------------------------------
(* Callers                                                                 *)

Reach(c, s) == stage' = [stage EXCEPT ![c] = s]

Learn(c, j) == asked' = [asked EXCEPT ![c] = j]

CallSubmit(c) ==
  /\ stage[c] = "new"
  /\ \E k \in Keys :
       \/ SubmitNew(c, k) /\ Learn(c, c)
       \/ \E j \in Calls : SubmitJoin(k, j) /\ Learn(c, j)
  /\ Reach(c, "asked")
  /\ UNCHANGED <<waiterVars, queueVars, workerVars, dirs, streamVars>>

(* The snapshot is fresh, or as old as the submission, or missing, which    *)
(* subscribe treats alike.                                                 *)
CallSubscribe(c) ==
  /\ stage[c] \in {"asked", "sent"}
  /\ holds[c] = None
  /\ \E snapshot \in {status[asked[c]], "queued"} : Subscribe(c, asked[c], snapshot)
  /\ UNCHANGED <<recordVars, queueVars, workerVars, dirs, streamVars, callerVars>>

CallCancel(f) ==
  /\ stage[f] # "gone"
  /\ CancelFuture(f)
  /\ UNCHANGED <<recordVars, queueVars, workerVars, dirs, streamVars, callerVars>>

(* mark_canceled asks for no status.  Nothing here calls it: a caller is   *)
(* assumed to cancel what get has just shown it to be active.              *)
CallCancelJob(j) ==
  /\ status[j] \in ActiveStatus
  /\ MarkCanceled(j)
  /\ UNCHANGED <<queueVars, workerVars, dirs, streamVars, callerVars>>

(* XADD: the stream has no limit.                                          *)
Add(j) == queue' = Append(queue, j) /\ UNCHANGED producerClosed

AddTwice(j) == queue' = queue \o <<j, j>> /\ UNCHANGED producerClosed

(* enqueue by the caller that made the job.  The reply may be lost after   *)
(* the entry was added; the command is repeated, or raises.                *)
CallEnqueue(c) ==
  /\ stage[c] = "asked" /\ asked[c] = c
  /\ \/ (Add(c) \/ AddTwice(c)) /\ Reach(c, "sent")
     \/ (Add(c) \/ UNCHANGED queueVars) /\ Reach(c, "failed")
  /\ UNCHANGED <<serviceVars, workerVars, dirs, streamVars, asked>>

-----------------------------------------------------------------------------
(* subscribe: XREADGROUP, the handler, XACK                                *)

\* Faulty: the entry is acknowledged before it is handled.
ReadEntryAcked(j) ==
  /\ entry = None
  /\ Handle(j)
  /\ WorkDir
  /\ entry' = j
  /\ acked' = acked \union {j}
  /\ UNCHANGED <<lost, callerVars>>

(* The reply arrives, and the handler runs up to its first suspension.     *)
ReadEntry(j) ==
  /\ entry = None
  /\ Handle(j)
  /\ WorkDir
  /\ entry' = j
  /\ UNCHANGED <<acked, lost, callerVars>>

(* The handler goes on.                                                    *)
Work(j) ==
  /\ Fetch(j) \/ Notify(j) \/ NotifyFail(j)
  /\ WorkDir
  /\ UNCHANGED <<streamVars, callerVars>>

LetEntryGo == entry # None /\ entry' = None

(* The apology of wrapped() raises: the exception is logged, the entry not *)
(* acknowledged, and the loop goes on.                                     *)
ApologyLogged(j) ==
  /\ wpc = "apologizing" /\ wjob = j
  /\ MaybeDeliver(j)
  /\ BecomeIdle
  /\ WorkDir
  /\ LetEntryGo
  /\ UNCHANGED <<serviceVars, queueVars, threads, blobs, acked, lost, callerVars>>

(* The handler has returned and XACK succeeds; or it raises, which is      *)
(* logged, and the entry is acknowledged or not.                           *)
Acknowledge ==
  /\ wpc = "idle"
  /\ LetEntryGo
  /\ acked' = acked \union {entry} \/ UNCHANGED acked
  /\ UNCHANGED <<serviceVars, queueVars, workerVars, dirs, lost, callerVars>>

Reading == wpc = "idle" /\ entry = None

(* The group delivers the oldest entry in a reply that never arrives; the  *)
(* client repeats XREADGROUP, or raises (ReadFails), or is cancelled (Stop). *)
ReplyLost ==
  /\ Reading
  /\ queue # <<>>
  /\ queue' = Tail(queue)
  /\ lost' = lost \union {Head(queue)}
  /\ UNCHANGED <<serviceVars, producerClosed, workerVars, dirs, entry, acked, callerVars>>

(* XREADGROUP raises, out of subscribe: the consumer task ends.            *)
ReadFails ==
  /\ Reading
  /\ wpc' = "dead"
  /\ UNCHANGED <<serviceVars, queueVars, wjob, retried, threads, blobs, inbox, dirs,
                 streamVars, callerVars>>

-----------------------------------------------------------------------------
(* The process                                                             *)

(* Shutdown cancels the consumer task where it is suspended.               *)
Stop ==
  /\ WorkerCancelled
  /\ WorkDir
  /\ UNCHANGED <<streamVars, callerVars>>

AbandonedThreadStep(j) ==
  /\ \/ ThreadEnds(j) /\ UNCHANGED dirs
     \/ ThreadRecreates(j)
  /\ UNCHANGED <<streamVars, callerVars>>

\* Faulty: the new process keeps the records of the old one, but not its
\* callers.
RestartRemembering ==
  /\ UNCHANGED <<serviceVars, queueVars, blobs, dirs, acked, lost, inbox>>
  /\ wpc' = "idle" /\ wjob' = None /\ retried' = FALSE /\ threads' = {}
  /\ entry' = None
  /\ stage' = [c \in Calls |-> IF stage[c] = "new" THEN "new" ELSE "gone"]
  /\ asked' = [c \in Calls |-> None]

(* The process ends, killed or after Stop, and a new one starts: records,  *)
(* futures, callers and threads are gone; the stream, the cache, the work  *)
(* directories and what the chats have received stay.                      *)
Restart ==
  /\ status' = [j \in Calls |-> "absent"]
  /\ dedupe' = [j \in Calls |-> None]
  /\ code' = [j \in Calls |-> None]
  /\ futures' = [j \in Calls |-> None]
  /\ terminal' = <<>>
  /\ holds' = [c \in Calls |-> None]
  /\ wpc' = "idle" /\ wjob' = None /\ retried' = FALSE /\ threads' = {}
  /\ \/ wpc \in {"notifying", "apologizing"} /\ Deliver(wjob)
     \/ UNCHANGED inbox
  /\ entry' = None
  /\ stage' = [c \in Calls |-> IF stage[c] = "new" THEN "new" ELSE "gone"]
  /\ asked' = [c \in Calls |-> None]
  /\ UNCHANGED <<futState, queueVars, blobs, dirs, acked, lost>>

(* Another process of the group reads the oldest entry.  Its repository    *)
(* does not know the job: its handler drops the message, and it            *)
(* acknowledges the entry.                                                 *)
PeerReads ==
  /\ queue # <<>>
  /\ queue' = Tail(queue)
  /\ acked' = acked \union {Head(queue)}
  /\ UNCHANGED <<serviceVars, producerClosed, workerVars, dirs, entry, lost, callerVars>>

-----------------------------------------------------------------------------
CallerNext(c) ==
  \/ CallSubmit(c) \/ CallSubscribe(c) \/ CallEnqueue(c)
  \/ CallCancel(c) \/ CallCancelJob(c)

ConsumerNext(j) ==
  ReadEntry(j) \/ Work(j) \/ ApologyLogged(j) \/ AbandonedThreadStep(j)

Next ==
  \/ \E c \in Calls : CallerNext(c) \/ ConsumerNext(c)
  \/ Acknowledge \/ ReplyLost \/ ReadFails
  \/ Stop \/ Restart

Spec == Init /\ [][Next]_vars

(* Several processes on one stream, seen by one of them: Spec, with some   *)
(* entries read by the others.                                             *)
GroupSpec == Init /\ [][Next \/ PeerReads]_vars

TypeOK ==
  /\ ServiceTypeOK
  /\ QueueTypeOK(Calls)
  /\ WorkerTypeOK
  /\ dirs \subseteq Calls
  /\ entry \in Calls \union {None}
  /\ acked \subseteq Calls /\ lost \subseteq Calls
  /\ stage \in [Calls -> Stages]
  /\ asked \in [Calls -> Calls \union {None}]

-----------------------------------------------------------------------------
(* Safety                                                                  *)

(* An entry is acknowledged only after its job was settled by the process  *)
(* that knows it: whatever the handler meets, whatever is lost on the way  *)
(* to Redis and back, no message of an open job is given up as done.       *)
AckedIsSettled == \A j \in acked : status[j] \notin ActiveStatus

Undelivered(j) == \E i \in DOMAIN queue : queue[i] = j

(* An open job is on its way: its creator has yet to enqueue it, its entry *)
(* is in the stream, or the worker has it in hand.  The exceptions are the *)
(* three the code has no answer to: XADD has raised, the reply with the    *)
(* entry was lost, or the consumer task is over.                           *)
OpenJobsMove ==
  \A j \in Calls :
    status[j] \in ActiveStatus =>
      \/ stage[j] \in {"asked", "failed"}
      \/ Undelivered(j)
      \/ wjob = j
      \/ j \in lost

(* Once the worker has left a settled job, or the process that knew it is  *)
(* over, nothing happens to it any more: no repeated entry, no entry of an *)
(* earlier process and no abandoned thread changes its record, sends to    *)
(* its chat or starts another download.                                    *)
SettledStays ==
  [][\A j \in Calls :
       (status[j] \in TerminalStatus \/ stage[j] = "gone") /\ wjob # j =>
         /\ inbox'[j] = inbox[j]
         /\ j \in threads' => j \in threads
         /\ status'[j] # "absent" => status'[j] = status[j] /\ code'[j] = code[j]]_vars

(* A work directory on the disk belongs to the job in hand, or was brought *)
(* back by a thread abandoned at the deadline or at shutdown, or was left  *)
(* by an earlier process.                                                  *)
DirsOwned ==
  \A j \in dirs :
    \/ wjob = j /\ wpc \in {"fetching", "backoff", "notifying", "stopped"}
    \/ status[j] = "failed" /\ code[j] \in {"TIMEOUT", "INTERNAL"}
    \/ stage[j] = "gone"

-----------------------------------------------------------------------------
(* The service keeps the promise of DurableLedger                          *)

Answered == {c \in Calls : holds[c] # None /\ futState[holds[c]] = "result"}

Durable == INSTANCE DurableLedger WITH
  opened   <- [k \in Keys |-> ActiveFor(k)],
  verdict  <- [j \in Calls |-> VerdictOf(j)],
  answered <- Answered,
  told     <- inbox,
  past     <- {c \in Calls : stage[c] = "gone"}

(* Every step of a caller, of the worker, of a fault or of a restart is a  *)
(* step of the ledger, or changes nothing the ledger shows: a key has one  *)
(* open job, who shares a job is woken by its verdict and by no other, a   *)
(* chat is told what the record says, and a verdict gives way to a failure *)
(* only, or, a cancellation, to the end of a download that was under way.  *)
DurablyKept == Durable!Spec
=============================================================================
