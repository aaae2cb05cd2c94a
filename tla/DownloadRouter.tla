--------------------------- MODULE DownloadRouter ---------------------------
(***************************************************************************)
(* enqueue_download_job (bot/routers/download.py): the coroutine behind    *)
(* /audio, /video and the inline keyboard, one run of it per call.         *)
(*                                                                         *)
(* It suspends in the Telegram call that announces the job ("announcing"), *)
(* in put() on a full queue ("putting") and in wait_for on the future      *)
(* ("waiting").  submit and subscribe happen in one step: the locks they   *)
(* take are never contended.                                               *)
(***************************************************************************)
EXTENDS JobService, MemoryQueue

VARIABLES
  cpc,    \* where each call is
  target  \* the job id each call was given, None before submit

routerVars == <<cpc, target>>

OpenPC  == {"announcing", "putting", "waiting"}
FinalPC == {"busy", "rejected", "done", "expired", "cancelled", "error"}
CallPC  == {"new"} \union OpenPC \union FinalPC

RouterInit ==
  /\ cpc = [c \in Calls |-> "new"]
  /\ target = [c \in Calls |-> None]

At(c, pc) == cpc[c] = pc

Become(c, pc) == cpc' = [cpc EXCEPT ![c] = pc]

(* should_enqueue: the job is the call's own.                              *)
ShouldEnqueue(c) == target[c] = c

-----------------------------------------------------------------------------
(* From the update to the announcement                                     *)

RequestBusy(c) ==
  /\ At(c, "new")
  /\ Busy
  /\ Become(c, "busy")
  /\ UNCHANGED <<serviceVars, queueVars, target>>

RequestRejected(c, k) ==
  /\ At(c, "new")
  /\ ~Busy
  /\ k \notin Allowed
  /\ Become(c, "rejected")
  /\ UNCHANGED <<serviceVars, queueVars, target>>

\* Faulty: a second job is made for a key that has an active one.
RequestNewUnchecked(c, k) ==
  /\ At(c, "new")
  /\ ~Busy
  /\ k \in Allowed
  /\ status' = [status EXCEPT ![c] = "queued"]
  /\ dedupe' = [dedupe EXCEPT ![c] = k]
  /\ UNCHANGED code
  /\ Subscribe(c, c, "queued")
  /\ target' = [target EXCEPT ![c] = c]
  /\ Become(c, "announcing")
  /\ UNCHANGED queueVars

(* No active job has the key: a record is made and the call subscribes.    *)
RequestNew(c, k) ==
  /\ At(c, "new")
  /\ ~Busy
  /\ k \in Allowed
  /\ SubmitNew(c, k)
  /\ Subscribe(c, c, "queued")
  /\ target' = [target EXCEPT ![c] = c]
  /\ Become(c, "announcing")
  /\ UNCHANGED queueVars

(* An active job has the key: the call subscribes to it.                   *)
RequestJoin(c, k) ==
  /\ At(c, "new")
  /\ ~Busy
  /\ k \in Allowed
  /\ \E j \in Calls :
       /\ SubmitJoin(k, j)
       /\ Subscribe(c, j, status[j])
       /\ target' = [target EXCEPT ![c] = j]
  /\ Become(c, "announcing")
  /\ UNCHANGED queueVars

-----------------------------------------------------------------------------
(* From the announcement to the wait                                       *)

(* wait_for on a future: at once over when the future is done.             *)
AwaitOutcome(c) ==
  CASE futState[holds[c]] = "result"    -> "done"
    [] futState[holds[c]] = "cancelled" -> "cancelled"
    [] OTHER                            -> "waiting"

(* The announcement raises: the coroutine ends, the record stays.          *)
AnnounceFail(c) ==
  /\ At(c, "announcing")
  /\ Become(c, "error")
  /\ UNCHANGED <<serviceVars, queueVars, target>>

AnnounceJoined(c) ==
  /\ At(c, "announcing")
  /\ ~ShouldEnqueue(c)
  /\ Become(c, AwaitOutcome(c))
  /\ UNCHANGED <<serviceVars, queueVars, target>>

(* enqueue on a closed producer raises: the coroutine ends.                *)
AnnounceClosed(c) ==
  /\ At(c, "announcing")
  /\ ShouldEnqueue(c)
  /\ producerClosed
  /\ Become(c, "error")
  /\ UNCHANGED <<serviceVars, queueVars, target>>

AnnounceFull(c) ==
  /\ At(c, "announcing")
  /\ ShouldEnqueue(c)
  /\ ~producerClosed
  /\ QueueFull
  /\ Become(c, "putting")
  /\ UNCHANGED <<serviceVars, queueVars, target>>

AnnouncePut(c) ==
  /\ At(c, "announcing")
  /\ ShouldEnqueue(c)
  /\ ~producerClosed
  /\ Put(c)
  /\ Become(c, AwaitOutcome(c))
  /\ UNCHANGED <<serviceVars, target>>

(* A blocked put finds room.                                               *)
PutUnblocked(c) ==
  /\ At(c, "putting")
  /\ Put(c)
  /\ Become(c, AwaitOutcome(c))
  /\ UNCHANGED <<serviceVars, target>>

-----------------------------------------------------------------------------
(* The wait ends                                                           *)

(* The future has its result.                                              *)
Finish(c) ==
  /\ At(c, "waiting")
  /\ futState[holds[c]] = "result"
  /\ Become(c, "done")
  /\ UNCHANGED <<serviceVars, queueVars, target>>

(* The future was cancelled by another call that waited on it: the         *)
(* CancelledError ends this one too, with no word to the user.             *)
Interrupted(c) ==
  /\ At(c, "waiting")
  /\ futState[holds[c]] = "cancelled"
  /\ Become(c, "cancelled")
  /\ UNCHANGED <<serviceVars, queueVars, target>>

(* The timeout cancels the task, and with it the future it waits on unless *)
(* that is done; a result that arrives in the same pass of the loop loses. *)
Timeout(c) ==
  /\ At(c, "waiting")
  /\ \/ CancelFuture(holds[c])
     \/ futState[holds[c]] # "pending" /\ UNCHANGED waiterVars
  /\ Become(c, "expired")
  /\ UNCHANGED <<recordVars, queueVars, target>>

-----------------------------------------------------------------------------
Request(c) ==
  \/ RequestBusy(c)
  \/ \E k \in Keys : RequestRejected(c, k) \/ RequestNew(c, k) \/ RequestJoin(c, k)

Announce(c) ==
  AnnounceJoined(c) \/ AnnounceClosed(c) \/ AnnounceFull(c) \/ AnnouncePut(c)

Await(c) == Finish(c) \/ Interrupted(c) \/ Timeout(c)

RouterTypeOK ==
  /\ cpc \in [Calls -> CallPC]
  /\ target \in [Calls -> Calls \union {None}]
=============================================================================
