------------------------------ MODULE WorkerPool ------------------------------
(***************************************************************************)
(* Worker and WorkerPool (services/worker.py) over a JobQueueManager.  A   *)
(* worker suspends in dequeue ("getting") and in the processor ("busy");   *)
(* what it does with a result, publish_result and acknowledge or nack, is  *)
(* one step.  A worker that gets on finds the next job in the same pass if *)
(* there is one; the model lets others step in between, as a worker whose  *)
(* turn comes first may.                                                   *)
(*                                                                         *)
(* The processor is any coroutine: it returns a result, raises, which      *)
(* _dispatch and run turn into a failed result, or ends by a CancelledError *)
(* of its own, which run lets through.                                     *)
(***************************************************************************)
EXTENDS JobQueueManager

CONSTANT Workers

VARIABLES
  wpc,       \* where each Worker.run is
  hand,      \* the job its processor works on, None otherwise
  recovery,  \* _recover_loop: "sleeping", "dead" of an exception, "stopped"
  pool,      \* "running", "stopping", "stopped", or "broken" by stop() itself
  result     \* the last result published for each job

poolVars == <<wpc, hand, recovery, pool, result>>

PoolInit ==
  /\ wpc = [w \in Workers |-> "getting"]
  /\ hand = [w \in Workers |-> None]
  /\ recovery = "sleeping"
  /\ pool = "running"
  /\ result = [j \in Jobs |-> "none"]

Alive(w) == wpc[w] \in {"getting", "busy"}

InHand(j) == \E w \in Workers : hand[w] = j

Busy(w, j) == wpc[w] = "busy" /\ hand[w] = j

(* Where a worker goes once it has let its job go.                         *)
LetGo(w, pc) ==
  /\ wpc' = [wpc EXCEPT ![w] = pc]
  /\ hand' = [hand EXCEPT ![w] = None]
  /\ UNCHANGED <<recovery, pool>>

Publish(j, verdict) ==
  /\ PublishResult(j)
  /\ result' = [result EXCEPT ![j] = verdict]

-----------------------------------------------------------------------------
(* Worker.run                                                              *)

Take(w, j) ==
  /\ wpc[w] = "getting"
  /\ Dequeue(j)
  /\ wpc' = [wpc EXCEPT ![w] = "busy"]
  /\ hand' = [hand EXCEPT ![w] = j]
  /\ UNCHANGED <<waitVars, recovery, pool, result>>

(* A completed job is acknowledged.                                        *)
Complete(w, j) ==
  /\ Busy(w, j)
  /\ Publish(j, "completed")
  /\ Acknowledge(j)
  /\ LetGo(w, "getting")

\* Faulty: the failure is kept to the worker.
FailUnpublished(w, j) ==
  /\ Busy(w, j)
  /\ result' = [result EXCEPT ![j] = "failed"]
  /\ Acknowledge(j)
  /\ LetGo(w, "getting")
  /\ UNCHANGED waitVars

(* A failed job is acknowledged, or put back for another attempt.          *)
Fail(w, j) ==
  /\ Busy(w, j)
  /\ Publish(j, "failed")
  /\ \/ j \notin Retry /\ Acknowledge(j)
     \/ j \in Retry /\ (NackRequeue(j) \/ NackGiveUp(j))
  /\ LetGo(w, "getting")

(* nack raises QueueOverflowError out of run: the worker task ends.        *)
FailOverflow(w, j) ==
  /\ Busy(w, j)
  /\ j \in Retry
  /\ Publish(j, "failed")
  /\ NackOverflow(j)
  /\ LetGo(w, "dead")

(* task_done raises ValueError out of run: the worker task ends.           *)
Miscount(w, j, verdict) ==
  /\ Busy(w, j)
  /\ Publish(j, verdict)
  /\ LandUncounted(j)
  /\ LetGo(w, "dead")

(* The processor ends by a CancelledError: the worker task ends, and its   *)
(* job stays in flight.                                                    *)
Crash(w, j) ==
  /\ Busy(w, j)
  /\ LetGo(w, "dead")
  /\ UNCHANGED <<managerVars, result>>

-----------------------------------------------------------------------------
(* _recover_loop                                                           *)

RecoverRuns ==
  /\ recovery = "sleeping"
  /\ Recover
  /\ UNCHANGED <<waitVars, poolVars>>

(* The overflow is caught and logged, the loop goes on.                    *)
RecoverOverflows ==
  /\ recovery = "sleeping"
  /\ RecoverOverflow
  /\ UNCHANGED <<waitVars, poolVars>>

(* A ValueError is not: the recovery task ends.                            *)
RecoverDies ==
  /\ recovery = "sleeping"
  /\ RecoverUncounted
  /\ recovery' = "dead"
  /\ UNCHANGED <<waitVars, wpc, hand, pool, result>>

-----------------------------------------------------------------------------
(* WorkerPool.stop                                                         *)

(* The queue is closed and the recovery task cancelled; stop waits for it. *)
StopBegins ==
  /\ pool = "running"
  /\ recovery = "sleeping"
  /\ CloseQueue
  /\ recovery' = "stopped"
  /\ pool' = "stopping"
  /\ UNCHANGED <<waitVars, wpc, hand, result>>

(* A recovery task that is dead of an exception raises it again in stop,   *)
(* which ends before it cancels a worker.                                  *)
StopBreaks ==
  /\ pool = "running"
  /\ recovery = "dead"
  /\ CloseQueue
  /\ pool' = "broken"
  /\ UNCHANGED <<waitVars, wpc, hand, recovery, result>>

(* The workers are cancelled where they are; their jobs stay in flight.    *)
StopEnds ==
  /\ pool = "stopping"
  /\ pool' = "stopped"
  /\ wpc' = [w \in Workers |-> IF Alive(w) THEN "cancelled" ELSE wpc[w]]
  /\ hand' = [w \in Workers |-> None]
  /\ UNCHANGED <<managerVars, recovery, result>>

PoolTypeOK ==
  /\ wpc \in [Workers -> {"getting", "busy", "dead", "cancelled"}]
  /\ hand \in [Workers -> Jobs \union {None}]
  /\ recovery \in {"sleeping", "dead", "stopped"}
  /\ pool \in {"running", "stopping", "stopped", "broken"}
  /\ result \in [Jobs -> {"none", "completed", "failed"}]
=============================================================================
