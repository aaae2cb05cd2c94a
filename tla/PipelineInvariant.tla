-------------------------- MODULE PipelineInvariant --------------------------
(***************************************************************************)
(* Three inductive invariants: PInv of SoundSpec, OnTimeInv of OnTimeSpec, *)
(* in which recoveries may overflow, and StandInv of Spec, in which a busy *)
(* job may be put back as well.                                            *)
(***************************************************************************)
EXTENDS TaskPipeline

(* A job whose call has not begun has left no trace.                       *)
Fresh ==
  \A j \in Jobs : caller[j] = "new" =>
    /\ j \notin Load
    /\ future[j] = "none" /\ result[j] = "none"
    /\ attempts[j] = 0 /\ key[j] = None
    /\ \A k \in Keys : holder[k] # j

(* Nobody works on a stale job: what makes SoundSpec sound.                *)
StaleIsOrphan == \A w \in Workers : hand[w] \notin stale

(* The jobs with a key are not put back after a failure.                   *)
KeyedOnce == \A j \in Jobs : Keyed(j) => j \notin Retry

(* A completed job has completed its key.                                  *)
CompletedKeys ==
  \A j \in Jobs : result[j] = "completed" /\ Keyed(j) => key[j] \in completed

(* What the queue manager and the pool have to say about it.               *)
BooksInv ==
  /\ IsFiniteSet(inFlight)
  /\ OnePlace /\ StaleIsOrphan

(* What callers and cache have to say about it.                            *)
CallersInv ==
  /\ OneDownloadPerKey /\ FailuresBounded /\ CompletedIsClosed
  /\ Fresh /\ KeyedOnce /\ CompletedKeys

(* What holds as long as no busy job becomes stale.                        *)
OnTimeInv == TypeOK /\ BooksInv /\ CallersInv

(* Every job that was accepted and has not ended is accounted for: in the  *)
(* queue's count, to the caller that waits, to the holder of a key.  A     *)
(* recovery that overflows drops jobs from queue and table unaccounted.    *)
Accounts == Balanced /\ NoLostWaiter /\ ReservationsReleased

(* The books of the queue manager agree, and so do callers and cache.      *)
PInv == OnTimeInv /\ Accounts

-----------------------------------------------------------------------------
(* All the code can do                                                     *)

(* A job whose call has not begun is nowhere, whatever became of others.   *)
Untouched ==
  \A j \in Jobs : caller[j] = "new" =>
    j \notin Load /\ ~InHand(j) /\ future[j] = "none" /\ result[j] = "none"

(* The table of waiters holds the calls that wait and no other, a pending  *)
(* future is in it, and whoever is answered is answered about a result.    *)
WaitersStand ==
  \A j \in Jobs :
    /\ j \in waiters => caller[j] = "waiting"
    /\ future[j] = "pending" => j \in waiters
    /\ future[j] = "done" \/ caller[j] = "answered" => result[j] # "none"

(* A completed key is not reserved, and the index has what the memory has  *)
(* as long as it works.                                                    *)
CacheStands ==
  /\ CompletedIsClosed
  /\ indexOn => completed \subseteq index
  /\ index \subseteq completed \union EarlierKeys

(* The queue keeps its size, through recoveries that overflow it.          *)
QueueStands == Len(pending) <= MaxSize

StandInv ==
  /\ TypeOK /\ IsFiniteSet(inFlight)
  /\ Untouched /\ WaitersStand /\ QueueStands
  /\ CacheStands /\ CompletedKeys
=============================================================================
