----------------------------- MODULE JobService -----------------------------
(***************************************************************************)
(* JobServiceImpl over InMemoryJobRepository (services/jobs/service.py,    *)
(* repository.py, model.py): the job records, deduplicated submission and  *)
(* the status changes, each of which tells the terminal waiter.            *)
(*                                                                         *)
(* The repository's lock, like the waiter's, is never contended, so submit *)
(* (search, then save) and every mark_* (read, then save, then publish)    *)
(* are atomic.                                                             *)
(***************************************************************************)
EXTENDS TerminalWaiter

CONSTANTS
  Keys,    \* dedupe keys: chat id and canonical cache key
  Allowed  \* the keys whose URL validate_for_download accepts

ASSUME ServiceAssumption == None \notin Keys /\ Allowed \subseteq Keys

VARIABLES
  status,  \* status of each job's record, "absent" when there is none
  dedupe,  \* dedupe_key of each record
  code     \* error_code of each record, None when it has none

recordVars  == <<status, dedupe, code>>
serviceVars == <<recordVars, waiterVars>>

Status    == ActiveStatus \union TerminalStatus \union {"absent"}
ErrorCode == {"UNSUPPORTED", "TIMEOUT", "DOWNLOADER_ERROR", "INTERNAL"}

ServiceInit ==
  /\ status = [j \in Calls |-> "absent"]
  /\ dedupe = [j \in Calls |-> None]
  /\ code = [j \in Calls |-> None]
  /\ WaiterInit

(* find_active_by_dedupe: the records it may return.                       *)
\* Faulty: only jobs not yet picked up count as active.
ActiveForQueuedOnly(k) == {j \in Calls : dedupe[j] = k /\ status[j] = "queued"}

ActiveFor(k) == {j \in Calls : dedupe[j] = k /\ status[j] \in ActiveStatus}

-----------------------------------------------------------------------------
(* submit, no active job for the key: a new record in status "queued".     *)
SubmitNew(c, k) ==
  /\ ActiveFor(k) = {}
  /\ status' = [status EXCEPT ![c] = "queued"]
  /\ dedupe' = [dedupe EXCEPT ![c] = k]
  /\ UNCHANGED code

(* submit, some active job for the key: that record is returned.           *)
SubmitJoin(k, j) ==
  /\ j \in ActiveFor(k)
  /\ UNCHANGED recordVars

(* mark_*: nothing happens when get finds no record.                       *)
Known(j) == status[j] # "absent"

MarkRunning(j) ==
  /\ status' = [status EXCEPT ![j] = IF Known(j) THEN "running" ELSE @]
  /\ UNCHANGED <<dedupe, code>>

\* Faulty: the verdict is written but the waiter is not told.
MarkSucceededUnpublished(j) ==
  /\ status' = [status EXCEPT ![j] = IF Known(j) THEN "succeeded" ELSE @]
  /\ UNCHANGED <<dedupe, code, waiterVars>>

MarkSucceeded(j) ==
  IF Known(j)
  THEN /\ status' = [status EXCEPT ![j] = "succeeded"]
       /\ UNCHANGED <<dedupe, code>>
       /\ PublishTerminal(j)
  ELSE UNCHANGED serviceVars

MarkFailed(j, err) ==
  IF Known(j)
  THEN /\ status' = [status EXCEPT ![j] = "failed"]
       /\ code' = [code EXCEPT ![j] = err]
       /\ UNCHANGED dedupe
       /\ PublishTerminal(j)
  ELSE UNCHANGED serviceVars

MarkCanceled(j) ==
  IF Known(j)
  THEN /\ status' = [status EXCEPT ![j] = "canceled"]
       /\ UNCHANGED <<dedupe, code>>
       /\ PublishTerminal(j)
  ELSE UNCHANGED serviceVars

(* What a record says of its job to who does not care how far it is.       *)
VerdictOf(j) ==
  CASE status[j] = "absent"        -> "none"
    [] status[j] \in ActiveStatus  -> "open"
    [] OTHER                       -> status[j]

ServiceTypeOK ==
  /\ status \in [Calls -> Status]
  /\ dedupe \in [Calls -> Keys \union {None}]
  /\ code \in [Calls -> ErrorCode \union {None}]
  /\ WaiterTypeOK

-----------------------------------------------------------------------------
(* Properties of the service and its waiter, for callers that use them in  *)
(* any order                                                               *)

(* As long as the verdict of a job is remembered nobody is registered to   *)
(* wait for it: subscribe and publish_terminal cannot miss each other.     *)
RememberedHasNoWaiter == \A j \in Remembered : futures[j] = None

(* _terminal stays within max_terminal_remembered, one entry per job, also *)
(* when a job is published again.                                          *)
MemoryBounded ==
  /\ Len(terminal) <= MaxTerminal
  /\ \A i, n \in DOMAIN terminal : terminal[i] = terminal[n] => i = n

(* A future is settled once: a verdict that comes after the cancellation   *)
(* of the future, or a second verdict, does not touch it: set_result on a  *)
(* done future would raise, out of the method that marks the job.          *)
FuturesSettleOnce ==
  [][\A f \in Calls : futState[f] \in {"result", "cancelled"} => futState'[f] = futState[f]]_serviceVars

(* The step that makes a job terminal leaves no waiter behind: the future  *)
(* registered for it is done and no longer registered.                     *)
TerminalStepWakes ==
  [][\A j \in Calls :
       status[j] \in ActiveStatus /\ status'[j] \in TerminalStatus /\ futures[j] # None =>
         futures'[j] = None /\ futState'[futures[j]] # "pending"]_serviceVars
=============================================================================
