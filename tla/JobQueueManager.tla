--------------------------- MODULE JobQueueManager ---------------------------
(***************************************************************************)
(* JobQueueManager (services/queue_manager.py): a bounded asyncio.Queue    *)
(* with a table of the jobs in flight and one future per waiting caller.   *)
(*                                                                         *)
(* No method but dequeue and enqueue_and_wait suspends, so each operator   *)
(* is one method, or one way through it.  An operator constrains           *)
(* tableVars, or waitVars, as a whole.                                     *)
(***************************************************************************)
EXTENDS Naturals, SequencesExt

CONSTANTS
  Jobs,
  None,
  MaxSize,      \* maxsize of the queue
  Retry,        \* jobs with retry_on_failure
  MaxAttempts   \* max_attempts of every job

ASSUME ManagerAssumption ==
  /\ None \notin Jobs
  /\ MaxSize \in Nat \ {0}
  /\ Retry \subseteq Jobs
  /\ MaxAttempts \in Nat \ {0}

VARIABLES
  pending,     \* the queue, oldest first
  unfinished,  \* the queue's own count of put minus task_done
  inFlight,    \* jobs in _in_flight
  stale,       \* those of them that entered it more than stale_after ago
  closed,      \* _closed
  attempts,    \* job.attempts
  waiters,     \* jobs with a future in _waiters
  future       \* the future of each job's caller

tableVars == <<pending, unfinished, inFlight, stale, closed, attempts>>
waitVars == <<waiters, future>>
managerVars == <<tableVars, waitVars>>

FutureStates == {"none", "pending", "done", "cancelled"}

ManagerInit ==
  /\ pending = <<>> /\ unfinished = 0
  /\ inFlight = {} /\ stale = {}
  /\ closed = FALSE
  /\ attempts = [j \in Jobs |-> 0]
  /\ waiters = {}
  /\ future = [j \in Jobs |-> "none"]

Full == Len(pending) >= MaxSize

Queued(j) == \E i \in DOMAIN pending : pending[i] = j

-----------------------------------------------------------------------------
(* The queue and the table of jobs in flight                               *)

Enqueue(j) ==
  /\ ~closed
  /\ ~Full
  /\ pending' = Append(pending, j)
  /\ unfinished' = unfinished + 1
  /\ UNCHANGED <<inFlight, stale, closed, attempts>>

\* Faulty: the job is not tracked.
DequeueUntracked(j) ==
  /\ pending # <<>>
  /\ j = Head(pending)
  /\ pending' = Tail(pending)
  /\ UNCHANGED <<unfinished, inFlight, stale, closed, attempts>>

(* A worker gets the oldest job, with a new entry in the table.            *)
Dequeue(j) ==
  /\ pending # <<>>
  /\ j = Head(pending)
  /\ pending' = Tail(pending)
  /\ inFlight' = inFlight \union {j}
  /\ stale' = stale \ {j}
  /\ UNCHANGED <<unfinished, closed, attempts>>

(* task_done of the queue; with nothing unfinished it raises.              *)
TaskDone == unfinished > 0 /\ unfinished' = unfinished - 1

TaskDoneRaises == unfinished = 0 /\ UNCHANGED unfinished

(* _in_flight.pop(job.id, None)                                            *)
Land(j) == inFlight' = inFlight \ {j} /\ stale' = stale \ {j}

Acknowledge(j) ==
  /\ Land(j)
  /\ TaskDone
  /\ UNCHANGED <<pending, closed, attempts>>

(* acknowledge or nack raises at task_done, the table is changed already.  *)
LandUncounted(j) ==
  /\ Land(j)
  /\ TaskDoneRaises
  /\ UNCHANGED <<pending, closed, attempts>>

\* Faulty: the attempt is not counted.
CountNoAttempt(j) == j \in Jobs /\ UNCHANGED attempts

CountAttempt(j) == attempts' = [attempts EXCEPT ![j] = @ + 1]

\* Faulty: one attempt too many.
ExhaustedLate(j) == attempts[j] >= MaxAttempts \/ closed

Exhausted(j) == attempts[j] + 1 >= MaxAttempts \/ closed

\* Faulty: the place in the queue's count is not given back.
NackRequeueUncounted(j) ==
  /\ Land(j)
  /\ unfinished > 0
  /\ unfinished' = unfinished + 1
  /\ CountAttempt(j)
  /\ ~Exhausted(j)
  /\ ~Full
  /\ pending' = Append(pending, j)
  /\ UNCHANGED closed

(* nack: one task_done for this attempt, one put for the next.             *)
NackRequeue(j) ==
  /\ Land(j)
  /\ unfinished > 0 /\ UNCHANGED unfinished
  /\ CountAttempt(j)
  /\ ~Exhausted(j)
  /\ ~Full
  /\ pending' = Append(pending, j)
  /\ UNCHANGED closed

(* nack returns FALSE.                                                     *)
NackGiveUp(j) ==
  /\ Land(j)
  /\ TaskDone
  /\ CountAttempt(j)
  /\ Exhausted(j)
  /\ UNCHANGED <<pending, closed>>

(* nack raises QueueOverflowError: the job is nowhere any more.            *)
NackOverflow(j) ==
  /\ Land(j)
  /\ TaskDone
  /\ CountAttempt(j)
  /\ ~Exhausted(j)
  /\ Full
  /\ UNCHANGED <<pending, closed>>

(* stale_after_seconds have passed since j was dequeued.                   *)
Age(j) ==
  /\ j \in inFlight \ stale
  /\ stale' = stale \union {j}
  /\ UNCHANGED <<pending, unfinished, inFlight, closed, attempts>>

(* recover_stale_tasks, of an open queue, takes the stale jobs out of the  *)
(* table and gives each one back to the queue in turn, with one task_done. *)
Room == MaxSize - Len(pending)

\* Faulty: the requeued jobs stay in the table.
RecoverTwice ==
  /\ stale # {} /\ ~closed
  /\ unfinished > 0
  /\ Cardinality(stale) <= Room
  /\ \E order \in SetToSeqs(stale) : pending' = pending \o order
  /\ stale' = {}
  /\ UNCHANGED <<unfinished, inFlight, closed, attempts>>

\* Faulty: the requeued jobs are still taken for stale.
RecoverStillStale ==
  /\ stale # {} /\ ~closed
  /\ unfinished > 0
  /\ Cardinality(stale) <= Room
  /\ \E order \in SetToSeqs(stale) : pending' = pending \o order
  /\ inFlight' = inFlight \ stale
  /\ UNCHANGED <<unfinished, stale, closed, attempts>>

Recover ==
  /\ stale # {} /\ ~closed
  /\ unfinished > 0
  /\ Cardinality(stale) <= Room
  /\ \E order \in SetToSeqs(stale) : pending' = pending \o order
  /\ inFlight' = inFlight \ stale
  /\ stale' = {}
  /\ UNCHANGED <<unfinished, closed, attempts>>

\* Faulty: the requeued jobs stay in the table.
RecoverOverflowTwice ==
  /\ stale # {} /\ ~closed
  /\ unfinished > 0
  /\ Cardinality(stale) > Room
  /\ \E order \in SetToSeqs(stale) : pending' = pending \o SubSeq(order, 1, Room)
  /\ unfinished' = unfinished - 1
  /\ stale' = {}
  /\ UNCHANGED <<inFlight, closed, attempts>>

(* The queue overflows on the way.  The job at hand goes back into the     *)
(* table, those behind it are in neither place any more.                   *)
RecoverOverflow ==
  /\ stale # {} /\ ~closed
  /\ unfinished > 0
  /\ Cardinality(stale) > Room
  /\ \E order \in SetToSeqs(stale) :
       /\ pending' = pending \o SubSeq(order, 1, Room)
       /\ inFlight' = (inFlight \ stale) \union {order[Room + 1]}
  /\ unfinished' = unfinished - 1
  /\ stale' = {}
  /\ UNCHANGED <<closed, attempts>>

(* task_done raises for the first of them; none is left in the table.      *)
RecoverUncounted ==
  /\ stale # {} /\ ~closed
  /\ TaskDoneRaises
  /\ inFlight' = inFlight \ stale
  /\ stale' = {}
  /\ UNCHANGED <<pending, closed, attempts>>

CloseQueue ==
  /\ closed' = TRUE
  /\ UNCHANGED <<pending, unfinished, inFlight, stale, attempts>>

-----------------------------------------------------------------------------
(* Callers that wait                                                       *)

(* enqueue_and_wait registers the future before the job is enqueued.       *)
RegisterWaiter(j) ==
  /\ waiters' = waiters \union {j}
  /\ future' = [future EXCEPT ![j] = "pending"]

Resolve(j, state) == future' = [future EXCEPT ![j] = IF @ = "pending" THEN state ELSE @]

(* publish_result takes the future out; a done one stays as it is.         *)
\* Faulty: the future is not asked whether it is done.
PublishResultUnchecked(j) ==
  /\ waiters' = waiters \ {j}
  /\ future' = [future EXCEPT ![j] = IF j \in waiters THEN "done" ELSE @]

PublishResult(j) ==
  /\ waiters' = waiters \ {j}
  /\ IF j \in waiters THEN Resolve(j, "done") ELSE UNCHANGED future

(* The timeout of wait_for cancels the future; the caller runs later.      *)
ExpireWait(j) ==
  /\ future[j] = "pending"
  /\ Resolve(j, "cancelled")
  /\ UNCHANGED waiters

(* abandon_wait_if_pending                                                 *)
AbandonWait(j) ==
  /\ j \in waiters
  /\ waiters' = waiters \ {j}
  /\ Resolve(j, "cancelled")

(* The finally clause of enqueue_and_wait.                                 *)
UnregisterWaiter(j) == waiters' = waiters \ {j} /\ UNCHANGED future

ManagerTypeOK ==
  /\ pending \in Seq(Jobs)
  /\ unfinished \in Nat
  /\ inFlight \subseteq Jobs
  /\ stale \subseteq inFlight
  /\ closed \in BOOLEAN
  /\ attempts \in [Jobs -> Nat]
  /\ waiters \subseteq Jobs
  /\ future \in [Jobs -> FutureStates]
=============================================================================
