----------------------------- MODULE TaskPipeline -----------------------------
(***************************************************************************)
(* submit_download (services/pipeline.py) in front of the pool, and the    *)
(* processor of services/remote_backend.py behind it, composed as in       *)
(* services/__main__.py.  A job stands for the one call that submits it.   *)
(* Jobs in Retry are put into the queue by other callers, by               *)
(* enqueue_and_wait alone; they have no key.                               *)
(*                                                                         *)
(* Next is all the code can do.  OnTimeNext leaves out a processor that is *)
(* still busy with its job when the job becomes stale, and SoundNext a     *)
(* queue that overflows while stale jobs are put back, as well.            *)
(***************************************************************************)
EXTENDS WorkerPool, DownloadCache

CONSTANT Patient   \* jobs whose callers wait without a timeout

ASSUME PipelineAssumption ==
  NoJob \notin Jobs /\ None \notin Keys /\ Patient \subseteq Jobs

VARIABLES
  key,     \* the dedupe key of each job, None without one
  caller,  \* what became of the call that submits the job
  leaked   \* jobs that were given up without a word to the cache

pipelineVars == <<key, caller, leaked>>
vars == <<managerVars, poolVars, cacheVars, pipelineVars>>

Returned == {"duplicate", "refused", "answered", "unanswered"}

Init ==
  /\ ManagerInit /\ PoolInit /\ CacheInit
  /\ key = [j \in Jobs |-> None]
  /\ caller = [j \in Jobs |-> "new"]
  /\ leaked = {}

CallerGets(j, outcome) == caller' = [caller EXCEPT ![j] = outcome]

-----------------------------------------------------------------------------
(* submit_download and enqueue_and_wait up to the wait                     *)

Submitting(j, k) ==
  /\ caller[j] = "new"
  /\ j \notin Retry
  /\ key' = [key EXCEPT ![j] = k]

SubmitDuplicate(j, k) ==
  /\ Submitting(j, k)
  /\ Duplicate(k)
  /\ CallerGets(j, "duplicate")
  /\ UNCHANGED <<managerVars, poolVars, leaked>>

Submit(j, k) ==
  /\ Submitting(j, k)
  /\ TryReserve(k, j)
  /\ RegisterWaiter(j)
  /\ Enqueue(j)
  /\ CallerGets(j, "waiting")
  /\ UNCHANGED <<poolVars, leaked>>

\* Faulty: the reservation of a job that found no place is kept.
SubmitOverflowKept(j, k) ==
  /\ Submitting(j, k)
  /\ TryReserve(k, j)
  /\ ~closed /\ Full
  /\ CallerGets(j, "refused")
  /\ UNCHANGED <<managerVars, poolVars, leaked>>

(* QueueOverflowError: the waiter and the reservation are taken back.      *)
SubmitOverflow(j, k) ==
  /\ Submitting(j, k)
  /\ Free(k) /\ NotIndexed(k)
  /\ ~closed /\ Full
  /\ CallerGets(j, "refused")
  /\ UNCHANGED <<managerVars, poolVars, completed, holder, index, leaked>>

(* QueueClosedError: the waiter is taken back, the reservation is not.     *)
SubmitClosed(j, k) ==
  /\ Submitting(j, k)
  /\ TryReserve(k, j)
  /\ closed
  /\ CallerGets(j, "refused")
  /\ leaked' = leaked \union {j}
  /\ UNCHANGED <<managerVars, poolVars>>

SubmitPlain(j) ==
  /\ caller[j] = "new"
  /\ j \in Retry
  /\ \/ Enqueue(j) /\ RegisterWaiter(j) /\ CallerGets(j, "waiting")
     \/ (closed \/ Full) /\ UNCHANGED managerVars /\ CallerGets(j, "refused")
  /\ UNCHANGED <<poolVars, cacheVars, key, leaked>>

-----------------------------------------------------------------------------
(* The wait ends                                                           *)

(* The timeout, or somebody who abandons the wait, cancels the future.     *)
Interrupt(j) ==
  /\ caller[j] = "waiting"
  /\ j \notin Patient
  /\ ExpireWait(j) \/ AbandonWait(j)
  /\ UNCHANGED <<tableVars, poolVars, cacheVars, pipelineVars>>

(* wait_for returns or raises, and the waiter is unregistered.  A result   *)
(* and a timeout in one pass of the loop: either may be what the caller    *)
(* gets.                                                                   *)
Return(j) ==
  /\ caller[j] = "waiting"
  /\ \/ future[j] = "done" /\ \E outcome \in {"answered", "unanswered"} : CallerGets(j, outcome)
     \/ future[j] = "cancelled" /\ CallerGets(j, "unanswered")
  /\ UnregisterWaiter(j)
  /\ UNCHANGED <<tableVars, poolVars, cacheVars, key, leaked>>

-----------------------------------------------------------------------------
(* The processor ends: execute_remote_download has submitted, polled and   *)
(* fetched, and _run tells the cache before it returns the result.         *)

Keyed(j) == key[j] # None

Takes(w) == \E j \in Jobs : Take(w, j) /\ UNCHANGED <<cacheVars, pipelineVars>>

CacheCompleted(j) ==
  \/ Keyed(j) /\ Commit(key[j])
  \/ ~Keyed(j) /\ UNCHANGED cacheVars

(* A failed result aborts the reservation; an exception (of aiohttp's      *)
(* total timeout, say, which is no ClientError) leaves it.                 *)
CacheFailed(j) ==
  \/ Keyed(j) /\ Abort(key[j]) /\ UNCHANGED leaked
  \/ Keyed(j) /\ leaked' = leaked \union {j} /\ UNCHANGED cacheVars
  \/ ~Keyed(j) /\ UNCHANGED <<cacheVars, leaked>>

Completes(w) ==
  \E j \in Jobs :
    /\ Complete(w, j)
    /\ CacheCompleted(j)
    /\ UNCHANGED pipelineVars

Fails(w) ==
  \E j \in Jobs :
    /\ Fail(w, j) \/ FailOverflow(w, j)
    /\ CacheFailed(j)
    /\ UNCHANGED <<key, caller>>

CompletesUncounted(w) ==
  \E j \in Jobs :
    /\ Miscount(w, j, "completed")
    /\ CacheCompleted(j)
    /\ UNCHANGED pipelineVars

FailsUncounted(w) ==
  \E j \in Jobs :
    /\ Miscount(w, j, "failed")
    /\ CacheFailed(j)
    /\ UNCHANGED <<key, caller>>

Miscounts(w) == CompletesUncounted(w) \/ FailsUncounted(w)

Crashes(w) ==
  \E j \in Jobs : Crash(w, j) /\ UNCHANGED <<cacheVars, pipelineVars>>

-----------------------------------------------------------------------------
CallerNext(j) ==
  \/ \E k \in Keys :
       \/ SubmitDuplicate(j, k) \/ Submit(j, k)
       \/ SubmitOverflow(j, k) \/ SubmitClosed(j, k)
  \/ SubmitPlain(j)
  \/ Interrupt(j)
  \/ Return(j)

WorkerNext(w) == Takes(w) \/ Completes(w) \/ Fails(w)

Aged(j) == Age(j) /\ UNCHANGED <<waitVars, poolVars, cacheVars, pipelineVars>>

(* The jobs of a processor that is quick enough do not become stale.       *)
AgedOrphan(j) == ~InHand(j) /\ Aged(j)

Recovers == RecoverRuns /\ UNCHANGED <<cacheVars, pipelineVars>>

Stops == (StopBegins \/ StopBreaks \/ StopEnds) /\ UNCHANGED <<cacheVars, pipelineVars>>

RunningNext ==
  \/ \E j \in Jobs : CallerNext(j) \/ AgedOrphan(j)
  \/ \E w \in Workers : WorkerNext(w) \/ Crashes(w)
  \/ Recovers

SoundNext ==
  \/ RunningNext
  \/ (StopBegins \/ StopEnds) /\ UNCHANGED <<cacheVars, pipelineVars>>

OnTimeNext ==
  \/ RunningNext
  \/ \E w \in Workers : Miscounts(w)
  \/ (RecoverOverflows \/ RecoverDies) /\ UNCHANGED <<cacheVars, pipelineVars>>
  \/ Stops

Next ==
  \/ \E j \in Jobs : CallerNext(j) \/ Aged(j)
  \/ \E w \in Workers : WorkerNext(w) \/ Miscounts(w) \/ Crashes(w)
  \/ Recovers
  \/ (RecoverOverflows \/ RecoverDies) /\ UNCHANGED <<cacheVars, pipelineVars>>
  \/ Stops

Spec == Init /\ [][Next]_vars
OnTimeSpec == Init /\ [][OnTimeNext]_vars
SoundSpec == Init /\ [][SoundNext]_vars

TypeOK ==
  /\ ManagerTypeOK
  /\ PoolTypeOK
  /\ CacheTypeOK(Jobs)
  /\ key \in [Jobs -> Keys \union {None}]
  /\ caller \in [Jobs -> {"new", "waiting"} \union Returned]
  /\ leaked \subseteq Jobs

-----------------------------------------------------------------------------
(* Safety                                                                  *)

(* The jobs the queue manager has: queued, or in flight.                   *)
Load == {j \in Jobs : Queued(j)} \union inFlight

(* The queue's count, on which idle_join relies and at whose zero          *)
(* task_done raises, is what is queued and in flight: every way out of     *)
(* dequeue pays it once, through retries, overflows and recoveries.        *)
Balanced == unfinished = Len(pending) + Cardinality(inFlight)

(* A job is in one place: once in the queue, or with one worker, or left   *)
(* by a worker that ended; all but the queued ones are in flight.          *)
OnePlace ==
  /\ \A i, n \in DOMAIN pending : pending[i] = pending[n] => i = n
  /\ \A v, w \in Workers : hand[v] = hand[w] /\ hand[v] # None => v = w
  /\ \A w \in Workers : hand[w] # None => hand[w] \in inFlight
  /\ \A j \in inFlight : ~Queued(j)

(* As long as a call's future is pending the call is registered under it,  *)
(* and its job is on its way to a worker, with one, or in flight for the   *)
(* recovery to find: no result is lost on its way to the caller.           *)
NoLostWaiter ==
  \A j \in Jobs :
    future[j] = "pending" =>
      /\ j \in waiters /\ caller[j] = "waiting"
      /\ j \in Load

(* No two downloads of one key are on their way or have succeeded: a job   *)
(* that is queued or in flight holds the reservation of its key, which is  *)
(* not completed, and the download of a key succeeds once.                 *)
OneDownloadPerKey ==
  /\ \A j \in Jobs :
       j \in Load /\ Keyed(j) =>
         holder[key[j]] = j /\ key[j] \notin completed
  /\ \A i, j \in Jobs :
       result[i] = "completed" /\ result[j] = "completed" /\ Keyed(i) /\ key[i] = key[j]
       => i = j

(* A reservation outlives its job only where the code forgets it: after an *)
(* exception of the processor, or a submission to a closed queue.          *)
ReservationsReleased ==
  \A k \in Keys : holder[k] # NoJob =>
    LET j == holder[k] IN j \in Load \union leaked /\ key[j] = k

(* A job fails MaxAttempts times at most: it is not put back after its     *)
(* last failed result, nor after a completed one.  A processor that ends   *)
(* without a result is not counted: its job may begin more often.          *)
FailuresBounded ==
  \A j \in Jobs :
    /\ attempts[j] <= MaxAttempts
    /\ j \in Load =>
         attempts[j] < MaxAttempts /\ result[j] # "completed"

(* A future that is done or cancelled stays what it is: set_result is      *)
(* never called on one whose wait has just timed out.                      *)
AnswerIsFinal ==
  [][\A j \in Jobs : future[j] \in {"done", "cancelled"} => future'[j] = future[j]]_vars

(* A key that has been completed is not reserved again.                    *)
CompletedIsClosed == \A k \in completed : holder[k] = NoJob

-----------------------------------------------------------------------------
(* Refinement                                                              *)

Ledger == INSTANCE DownloadLedger
  WITH open <- Load, claim <- holder, done <- completed, verdict <- result, reply <- caller

(* Through queue, workers, retries and recoveries the pipeline keeps the   *)
(* ledger of downloads: a claim is released by the end of its own download *)
(* alone, a success closes the key it claimed, and no caller is answered   *)
(* about a download that nobody tried.                                     *)
DownloadsKept == Ledger!Spec

-----------------------------------------------------------------------------
(* Liveness, under the fairness of RemotePipeline                          *)

PoolLives == []<>(\E w \in Workers : Alive(w))

(* The recovery loop has not died of an exception.                         *)
RecoveryLives == recovery # "dead"

(* The queue has room for the jobs that are stale.                         *)
Roomy == Cardinality(stale) <= Room

(* As long as one worker is left and recoveries find room, every caller's  *)
(* wait ends without a timeout: the result of its job, or of its first     *)
(* attempt, arrives even when the worker that had taken the job has ended. *)
(* Without room a recovery may drop the job, or spoil the count and die of *)
(* it, and the caller waits for ever.                                      *)
CallersReturn ==
  PoolLives /\ []Roomy =>
    \A j \in Jobs : caller[j] = "waiting" ~> caller[j] \in Returned

(* As long as one worker is left and the recovery loop has not died, every *)
(* job leaves queue and table for good: retries and recoveries come to an  *)
(* end, and so do recoveries that overflow.  A loop that has died of a     *)
(* wrong count leaves the jobs of ended workers in the table.              *)
JobsLeave ==
  PoolLives /\ []RecoveryLives => \A j \in Jobs : <>[](j \notin Load)

-----------------------------------------------------------------------------
(* What the repository says and the code does not keep                     *)

(* "... so parallel workers cannot double-download the same key"           *)
(* (dedupe_cache.py).                                                      *)
NoParallelDownload ==
  \A v, w \in Workers :
    v # w /\ hand[v] # None /\ hand[w] # None /\ Keyed(hand[v]) =>
      key[hand[v]] # key[hand[w]]
=============================================================================
