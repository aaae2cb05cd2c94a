---------------------------- MODULE BotInvariant ----------------------------
(***************************************************************************)
(* The inductive invariant of BotCore: what has to be known about the      *)
(* calls, the futures and the worker task so that each step keeps the      *)
(* properties of BotCore.                                                  *)
(***************************************************************************)
EXTENDS BotCore

(* A call that has not begun left no trace under its name.                 *)
FreshCalls ==
  \A c \in Calls : cpc[c] = "new" =>
    /\ status[c] = "absent"
    /\ target[c] = None
    /\ \A j \in Calls : futures[j] # c /\ holds[j] # c

(* A call past submit has a job and a future; it alone could have made the *)
(* job that bears its name, and until it has put it in the queue that job   *)
(* is queued.                                                              *)
CallsHaveJobs ==
  \A c \in Calls :
    /\ cpc[c] \in OpenPC \union {"done", "expired", "cancelled", "error"} =>
         target[c] \in Calls /\ holds[c] \in Calls /\ status[target[c]] # "absent"
    /\ status[c] # "absent" => target[c] = c
    /\ cpc[c] = "putting" => target[c] = c
    /\ cpc[c] \in {"announcing", "putting"} /\ target[c] = c => status[c] = "queued"

(* A future is registered for one job only, an active one, and has no      *)
(* result yet.                                                             *)
RegisteredFutures ==
  /\ \A j \in Calls : futures[j] # None =>
       status[j] \in ActiveStatus /\ futState[futures[j]] \in {"pending", "cancelled"}
  /\ \A i, j \in Calls : futures[i] = futures[j] /\ futures[i] # None => i = j

(* Every record was made for a key.                                        *)
KeyedRecords == \A j \in Calls : status[j] # "absent" => dedupe[j] \in Keys

RememberedSettled == \A j \in Remembered : status[j] \in TerminalStatus

(* The job in the worker's hands is running until its verdict is recorded. *)
WorkerHolds ==
  /\ wpc \in {"fetching", "backoff"} => wjob \in Calls /\ status[wjob] = "running"
  /\ wpc = "notifying" => wjob \in Calls /\ status[wjob] \in TerminalStatus
  /\ wpc = "apologizing" => wjob \in Calls /\ status[wjob] = "failed"

(* Nothing in the process calls mark_canceled.                             *)
NeverCanceled == \A j \in Calls : status[j] # "canceled"

IInv ==
  /\ TypeOK
  /\ FreshCalls
  /\ CallsHaveJobs
  /\ KeyedRecords
  /\ RegisteredFutures
  /\ RememberedSettled
  /\ WorkerHolds
  /\ NeverCanceled
  /\ AtMostOneActivePerKey
  /\ NoLostWakeup
  /\ HeardIsSettled
  /\ QueuedOnce
=============================================================================
