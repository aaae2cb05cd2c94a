----------------------------- MODULE WorkerLoop -----------------------------
(***************************************************************************)
(* run_worker_loop (services/worker_runner.py) with the memory consumer:   *)
(* one task takes a message, runs handle() inside wrapped(), and only then *)
(* takes the next.  The semaphore of handle() is therefore never contended *)
(* and is left out.                                                        *)
(*                                                                         *)
(* A step runs from one point where the coroutine really suspends to the   *)
(* next.  Those points are: the get on an empty queue ("idle"), wait_for   *)
(* around the executor thread ("fetching"), sleep(1.0) ("backoff"), and    *)
(* the Telegram call of the notifier, made by handle() ("notifying") or by *)
(* wrapped() after an exception ("apologizing").  Everything between two   *)
(* of them is one action.                                                  *)
(***************************************************************************)
EXTENDS JobService, MemoryQueue

CONSTANT BlobOf   \* canonical_cache_key of a key: chats may share a blob

ASSUME WorkerAssumption == BlobOf \in [Keys -> Keys]

VARIABLES
  wpc,      \* where the consumer task is suspended
  wjob,     \* the job it handles, None when idle
  retried,  \* transient_attempted
  threads,  \* jobs for which an executor thread runs yt-dlp
  blobs,    \* cache keys with a file under the cache root
  inbox     \* what the chat of each job has received about it, in order

workerVars == <<wpc, wjob, retried, threads, blobs, inbox>>

WorkerPC == {"idle", "fetching", "backoff", "notifying", "apologizing",
             "stopped", "dead"}

Blob(j) == BlobOf[dedupe[j]]

WorkerInit ==
  /\ wpc = "idle" /\ wjob = None /\ retried = FALSE
  /\ threads = {} /\ blobs = {}
  /\ inbox = [j \in Calls |-> <<>>]

-----------------------------------------------------------------------------
(* Suspending and resuming.                                                *)

GoTo(pc, j) == wpc' = pc /\ wjob' = j

BecomeIdle == GoTo("idle", None) /\ retried' = FALSE

(* downloader.download hands yt-dlp to an executor thread.                 *)
StartThread(j) == threads' = threads \union {j}

(* The thread has returned or raised.                                      *)
EndThread(j) == threads' = threads \ {j}

(* Taking a message: only the task that waits in get() does.               *)
Receive(j) == wpc = "idle" /\ Take(j)

-----------------------------------------------------------------------------
(* handle(), from the get that returned the message to the next suspension *)

(* Unknown job id, or a job that is already settled: the message is dropped. *)
HandleSkip(j) ==
  /\ Receive(j)
  /\ status[j] \in TerminalStatus \union {"absent"}
  /\ UNCHANGED <<serviceVars, workerVars>>

(* validate_for_download refuses the URL.                                  *)
HandleUnsupported(j) ==
  /\ Receive(j)
  /\ status[j] \in ActiveStatus
  /\ dedupe[j] \notin Allowed
  /\ MarkFailed(j, "UNSUPPORTED")
  /\ GoTo("notifying", j)
  /\ UNCHANGED <<retried, threads, blobs, inbox>>

\* Faulty: a settled job whose file is cached is answered again.
HandleCacheHitAgain(j) ==
  /\ Receive(j)
  /\ status[j] # "absent"
  /\ dedupe[j] \in Allowed
  /\ Blob(j) \in blobs
  /\ MarkSucceeded(j)
  /\ GoTo("notifying", j)
  /\ UNCHANGED <<retried, threads, blobs, inbox>>

(* The cache has the file: mark_running and mark_succeeded in one step.    *)
HandleCacheHit(j) ==
  /\ Receive(j)
  /\ status[j] \in ActiveStatus
  /\ dedupe[j] \in Allowed
  /\ Blob(j) \in blobs
  /\ MarkSucceeded(j)
  /\ GoTo("notifying", j)
  /\ UNCHANGED <<retried, threads, blobs, inbox>>

\* Faulty: settled jobs are not recognised and are fetched again.
HandleMissAgain(j) ==
  /\ Receive(j)
  /\ status[j] # "absent"
  /\ MarkRunning(j)
  /\ StartThread(j)
  /\ GoTo("fetching", j)
  /\ UNCHANGED <<waiterVars, retried, blobs, inbox>>

HandleMiss(j) ==
  /\ Receive(j)
  /\ status[j] \in ActiveStatus
  /\ dedupe[j] \in Allowed
  /\ Blob(j) \notin blobs
  /\ MarkRunning(j)
  /\ StartThread(j)
  /\ GoTo("fetching", j)
  /\ UNCHANGED <<waiterVars, retried, blobs, inbox>>

(* handle() raises before it suspends (the cache root or the temporary     *)
(* directory cannot be used): wrapped() reports an internal error.         *)
HandleError(j) ==
  /\ Receive(j)
  /\ status[j] \in ActiveStatus
  /\ dedupe[j] \in Allowed
  /\ MarkFailed(j, "INTERNAL")
  /\ GoTo("apologizing", j)
  /\ UNCHANGED <<retried, threads, blobs, inbox>>

-----------------------------------------------------------------------------
(* wait_for(downloader.download(...)) ends, in one of six ways             *)

\* Faulty: the verdict is published before the file is in the cache.
DownloadOkUncached(j) ==
  /\ wpc = "fetching" /\ wjob = j
  /\ EndThread(j)
  /\ MarkSucceeded(j)
  /\ GoTo("notifying", j)
  /\ UNCHANGED <<queueVars, retried, blobs, inbox>>

(* The file is linked into the cache and the job succeeds.                 *)
DownloadOk(j) ==
  /\ wpc = "fetching" /\ wjob = j
  /\ EndThread(j)
  /\ blobs' = blobs \union {Blob(j)}
  /\ MarkSucceeded(j)
  /\ GoTo("notifying", j)
  /\ UNCHANGED <<queueVars, retried, inbox>>

\* Faulty: the verdict is recorded but not sent.
DownloadFatalUnsent(j) ==
  /\ wpc = "fetching" /\ wjob = j
  /\ EndThread(j)
  /\ MarkFailed(j, "UNSUPPORTED")
  /\ BecomeIdle
  /\ UNCHANGED <<queueVars, blobs, inbox>>

\* Faulty: the exception is swallowed and the job left as it is.
DownloadFatalSwallowed(j) ==
  /\ wpc = "fetching" /\ wjob = j
  /\ EndThread(j)
  /\ BecomeIdle
  /\ UNCHANGED <<serviceVars, queueVars, blobs, inbox>>

(* yt-dlp or the size limit refuses the media.                             *)
DownloadFatal(j) ==
  /\ wpc = "fetching" /\ wjob = j
  /\ EndThread(j)
  /\ MarkFailed(j, "UNSUPPORTED")
  /\ GoTo("notifying", j)
  /\ UNCHANGED <<queueVars, retried, blobs, inbox>>

\* Faulty: the attempt is not remembered, so every transient error is retried.
DownloadTransientForever(j) ==
  /\ wpc = "fetching" /\ wjob = j /\ ~retried
  /\ EndThread(j)
  /\ GoTo("backoff", j)
  /\ UNCHANGED <<serviceVars, queueVars, retried, blobs, inbox>>

(* The first transient error is retried after a pause.                     *)
DownloadTransient(j) ==
  /\ wpc = "fetching" /\ wjob = j /\ ~retried
  /\ EndThread(j)
  /\ retried' = TRUE
  /\ GoTo("backoff", j)
  /\ UNCHANGED <<serviceVars, queueVars, blobs, inbox>>

\* Faulty: an error code the contract does not know.
DownloadTransientAgainCode(j) ==
  /\ wpc = "fetching" /\ wjob = j /\ retried
  /\ EndThread(j)
  /\ MarkFailed(j, "TRANSIENT")
  /\ GoTo("notifying", j)
  /\ UNCHANGED <<queueVars, retried, blobs, inbox>>

(* The second one fails the job.                                           *)
DownloadTransientAgain(j) ==
  /\ wpc = "fetching" /\ wjob = j /\ retried
  /\ EndThread(j)
  /\ MarkFailed(j, "DOWNLOADER_ERROR")
  /\ GoTo("notifying", j)
  /\ UNCHANGED <<queueVars, retried, blobs, inbox>>

\* Faulty: the deadline ends the handler but not the job.
DownloadTimeoutSilent(j) ==
  /\ wpc = "fetching" /\ wjob = j
  /\ BecomeIdle
  /\ UNCHANGED <<serviceVars, queueVars, threads, blobs, inbox>>

(* The deadline passes.  The awaiting future is cancelled, the executor    *)
(* thread is not: it goes on in the removed work directory.                *)
DownloadTimeout(j) ==
  /\ wpc = "fetching" /\ wjob = j
  /\ MarkFailed(j, "TIMEOUT")
  /\ GoTo("notifying", j)
  /\ UNCHANGED <<queueVars, retried, threads, blobs, inbox>>

(* Any other exception of download() or of put_from_path reaches wrapped(). *)
DownloadError(j) ==
  /\ wpc = "fetching" /\ wjob = j
  /\ EndThread(j)
  /\ MarkFailed(j, "INTERNAL")
  /\ GoTo("apologizing", j)
  /\ UNCHANGED <<queueVars, retried, blobs, inbox>>

BackoffEnds(j) ==
  /\ wpc = "backoff" /\ wjob = j
  /\ StartThread(j)
  /\ GoTo("fetching", j)
  /\ UNCHANGED <<serviceVars, queueVars, retried, blobs, inbox>>

-----------------------------------------------------------------------------
(* The notifier's Telegram call ends                                       *)

(* notify_job_update: what it sends for the record as it is.               *)
Verdict(j) == IF status[j] = "succeeded" THEN "file" ELSE "failure"

Deliver(j) == inbox' = [inbox EXCEPT ![j] = Append(@, Verdict(j))]

(* A call that raises, or is cancelled, may have reached the chat.         *)
MaybeDeliver(j) == Deliver(j) \/ UNCHANGED inbox

NotifyOk(j) ==
  /\ wpc = "notifying" /\ wjob = j
  /\ Deliver(j)
  /\ BecomeIdle
  /\ UNCHANGED <<serviceVars, queueVars, threads, blobs>>

\* Faulty: the job is queued once more instead of being failed.
NotifyFailRequeued(j) ==
  /\ wpc = "notifying" /\ wjob = j
  /\ MaybeDeliver(j)
  /\ status' = [status EXCEPT ![j] = "queued"]
  /\ Put(j)
  /\ BecomeIdle
  /\ UNCHANGED <<dedupe, code, waiterVars, threads, blobs>>

(* handle() raises out of the notifier: wrapped() overwrites the verdict.  *)
NotifyFail(j) ==
  /\ wpc = "notifying" /\ wjob = j
  /\ MaybeDeliver(j)
  /\ MarkFailed(j, "INTERNAL")
  /\ GoTo("apologizing", j)
  /\ UNCHANGED <<queueVars, retried, threads, blobs>>

ApologyOk(j) ==
  /\ wpc = "apologizing" /\ wjob = j
  /\ Deliver(j)
  /\ BecomeIdle
  /\ UNCHANGED <<serviceVars, queueVars, threads, blobs>>

(* The exception leaves wrapped() and subscribe(): the consumer task ends. *)
ApologyFail(j) ==
  /\ wpc = "apologizing" /\ wjob = j
  /\ MaybeDeliver(j)
  /\ wpc' = "dead" /\ wjob' = None /\ retried' = FALSE
  /\ UNCHANGED <<serviceVars, queueVars, threads, blobs>>

(* stop_event: the consumer task is cancelled where it is suspended, and   *)
(* neither the record nor the message of its job is touched.               *)
WorkerCancelled ==
  /\ wpc \notin {"dead", "stopped"}
  /\ wpc' = "stopped"
  /\ \/ wpc \in {"notifying", "apologizing"} /\ Deliver(wjob)
     \/ UNCHANGED inbox
  /\ UNCHANGED <<serviceVars, queueVars, wjob, retried, threads, blobs>>

(* A thread nobody waits for any more comes to its end.                    *)
ThreadEnds(j) ==
  /\ j \in threads
  /\ ~(wpc = "fetching" /\ wjob = j)
  /\ EndThread(j)
  /\ UNCHANGED <<serviceVars, queueVars, wpc, wjob, retried, blobs, inbox>>

-----------------------------------------------------------------------------
Handle(j) ==
  \/ HandleSkip(j) \/ HandleUnsupported(j) \/ HandleCacheHit(j)
  \/ HandleMiss(j) \/ HandleError(j)

Fetch(j) ==
  \/ DownloadOk(j) \/ DownloadFatal(j)
  \/ DownloadTransient(j) \/ DownloadTransientAgain(j)
  \/ DownloadTimeout(j) \/ DownloadError(j)
  \/ BackoffEnds(j)

Notify(j) == NotifyOk(j) \/ ApologyOk(j)

(* Telegram refuses a call of the notifier.                                *)
NotifierFault(j) == NotifyFail(j) \/ ApologyFail(j)

WorkerTypeOK ==
  /\ wpc \in WorkerPC
  /\ wjob \in Calls \union {None}
  /\ retried \in BOOLEAN
  /\ threads \subseteq Calls
  /\ blobs \subseteq Keys
  /\ inbox \in [Calls -> Seq({"file", "failure"})]

-----------------------------------------------------------------------------
(* Safety                                                                  *)

(* Whatever is delivered to the worker, and in whatever order Telegram     *)
(* fails, a chat receives the file of a job at most once, never after a    *)
(* failure, and at most one further message, which is a failure: the       *)
(* second message comes from wrapped() alone.                              *)
InboxShape ==
  \A j \in Calls :
    inbox[j] \in {<<>>, <<"file">>, <<"failure">>,
                  <<"file", "failure">>, <<"failure", "failure">>}

(* What a chat has been told agrees with the record and with the disk: a   *)
(* delivered file is in the cache, and its job has succeeded or was        *)
(* overwritten by wrapped() alone; a failure is only sent for a failed job. *)
VerdictBacked ==
  \A j \in Calls :
    /\ "file" \in {inbox[j][i] : i \in DOMAIN inbox[j]} =>
         /\ Blob(j) \in blobs
         /\ status[j] = "succeeded" \/ (status[j] = "failed" /\ code[j] = "INTERNAL")
    /\ "failure" \in {inbox[j][i] : i \in DOMAIN inbox[j]} => status[j] = "failed"

(* A thread that runs for a job the worker is not fetching was abandoned   *)
(* at the deadline or at shutdown, and no blob was taken from it: its job  *)
(* has not succeeded.                                                      *)
AbandonedThread ==
  \A j \in threads :
    \/ wjob = j /\ wpc \in {"fetching", "stopped"}
    \/ status[j] = "failed" /\ code[j] \in {"TIMEOUT", "INTERNAL"}

(* "running" is said of the one job the consumer task is busy with.        *)
RunningIsHeld ==
  \A j \in Calls :
    status[j] = "running" =>
      wjob = j /\ wpc \in {"fetching", "backoff", "stopped"}
=============================================================================
