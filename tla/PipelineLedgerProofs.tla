------------------------ MODULE PipelineLedgerProofs ------------------------
(***************************************************************************)
(* The sound pipeline implements the ledger of downloads: by PInv every    *)
(* step is a step of the ledger, or does not change what it shows of it.   *)
(* One thing is needed beside PInv: a future that is done was set by a     *)
(* result.                                                                 *)
(***************************************************************************)
EXTENDS PipelineProofs

LedgerView == <<Load, holder, completed, result, caller>>

LedgerStep == Ledger!Next \/ UNCHANGED LedgerView

(* A done future has a verdict behind it.                                  *)
Tried == \A j \in Jobs : future[j] = "done" => result[j] # "none"

LEMMA LedgerInit == Init => Ledger!Init /\ Tried
<1> SUFFICES ASSUME Init PROVE Ledger!Init /\ Tried
  OBVIOUS
<1>1. Load = {}
  BY DEF Init, ManagerInit, Load, Queued
<1> QED
  BY <1>1 DEF Init, ManagerInit, PoolInit, CacheInit, Ledger!Init, Tried

(* The views of the ledger that a step of the books, of a wait or of a     *)
(* stop leaves alone.                                                      *)
LEMMA QuietLedger ==
  ASSUME Tried, Load' = Load, UNCHANGED <<holder, completed, result, caller, future>>
  PROVE  LedgerStep /\ Tried'
BY DEF LedgerStep, LedgerView, Tried

-----------------------------------------------------------------------------
(* Callers                                                                 *)

LEMMA SubmitLedger ==
  ASSUME PInv, Tried, NEW j \in Jobs, NEW k \in Keys,
         \/ SubmitDuplicate(j, k) \/ Submit(j, k)
         \/ SubmitOverflow(j, k) \/ SubmitClosed(j, k)
  PROVE  LedgerStep /\ Tried'
<1> USE DEF LedgerStep
<1>1. caller[j] = "new" /\ result' = result
  BY DEF SubmitDuplicate, Submit, SubmitOverflow, SubmitClosed, Submitting, poolVars
<1>2. /\ TableTyped /\ BooksInv
      /\ future \in [Jobs -> FutureStates]
      /\ caller \in [Jobs -> {"new", "waiting"} \union Returned]
      /\ j \notin Load
  BY <1>1, TypedTable DEF PInv, OnTimeInv, TypeOK, ManagerTypeOK, CallersInv, Fresh
<1>3. ASSUME UNCHANGED managerVars PROVE Load' = Load /\ Tried'
  BY <1>1, <1>3 DEF managerVars, tableVars, waitVars, Load, Queued, Tried
<1>4. CASE SubmitDuplicate(j, k)
  <2>1. /\ caller' = [caller EXCEPT ![j] = "duplicate"]
        /\ holder' = holder /\ Load' = Load /\ Tried'
        /\ \/ completed' = completed
           \/ /\ k \notin completed /\ holder[k] = NoJob
              /\ completed' = completed \union {k}
    BY <1>3, <1>4 DEF SubmitDuplicate, CallerGets, Duplicate, Free, cacheVars
  <2>2. Ledger!Decline(j) \/ Ledger!DeclineKnown(j, k)
    BY <1>1, <2>1
    DEF Ledger!Decline, Ledger!DeclineKnown, Ledger!Declined, Ledger!Unclaimed, Ledger!Replied
  <2> QED
    BY <2>1, <2>2 DEF Ledger!Next
<1>5. CASE Submit(j, k)
  <2>1. /\ caller' = [caller EXCEPT ![j] = "waiting"]
        /\ k \notin completed /\ holder[k] = NoJob
        /\ holder' = [holder EXCEPT ![k] = j] /\ completed' = completed
        /\ future' = [future EXCEPT ![j] = "pending"]
    BY <1>5 DEF Submit, CallerGets, TryReserve, Free, RegisterWaiter
  <2>2. Load' = Load \union {j}
    BY <1>2, <1>5, PutBooks DEF Submit, Enqueue, poolVars
  <2>3. Tried'
    BY <1>1, <1>2, <2>1 DEF Tried
  <2>4. Ledger!AcceptKeyed(j, k)
    BY <1>1, <2>1, <2>2 DEF Ledger!AcceptKeyed, Ledger!Unclaimed, Ledger!Replied
  <2> QED
    BY <2>3, <2>4 DEF Ledger!Next
<1>6. CASE SubmitOverflow(j, k)
  <2>1. /\ caller' = [caller EXCEPT ![j] = "refused"]
        /\ holder' = holder /\ completed' = completed
        /\ Load' = Load /\ Tried'
    BY <1>3, <1>6 DEF SubmitOverflow, CallerGets
  <2>2. Ledger!Decline(j)
    BY <1>1, <2>1 DEF Ledger!Decline, Ledger!Declined, Ledger!Replied
  <2> QED
    BY <2>1, <2>2 DEF Ledger!Next
<1>7. CASE SubmitClosed(j, k)
  <2>1. /\ caller' = [caller EXCEPT ![j] = "refused"]
        /\ k \notin completed /\ holder[k] = NoJob
        /\ holder' = [holder EXCEPT ![k] = j] /\ completed' = completed
        /\ Load' = Load /\ Tried'
    BY <1>3, <1>7 DEF SubmitClosed, CallerGets, TryReserve, Free
  <2>2. Ledger!DeclineAndForget(j, k)
    BY <1>1, <2>1 DEF Ledger!DeclineAndForget, Ledger!Unclaimed, Ledger!Replied
  <2> QED
    BY <2>1, <2>2 DEF Ledger!Next
<1> QED
  BY <1>4, <1>5, <1>6, <1>7

LEMMA PlainLedger ==
  ASSUME PInv, Tried, NEW j \in Jobs, SubmitPlain(j)
  PROVE  LedgerStep /\ Tried'
<1> USE DEF LedgerStep
<1>1. /\ caller[j] = "new" /\ result' = result
      /\ holder' = holder /\ completed' = completed
  BY DEF SubmitPlain, poolVars, cacheVars
<1>2. /\ TableTyped /\ BooksInv
      /\ future \in [Jobs -> FutureStates]
      /\ j \notin Load
  BY <1>1, TypedTable DEF PInv, OnTimeInv, TypeOK, ManagerTypeOK, CallersInv, Fresh
<1>3. CASE Enqueue(j) /\ RegisterWaiter(j) /\ CallerGets(j, "waiting")
  <2>1. Load' = Load \union {j}
    BY <1>2, <1>3, PutBooks DEF SubmitPlain, Enqueue, poolVars
  <2>2. Tried'
    BY <1>1, <1>2, <1>3 DEF Tried, RegisterWaiter
  <2>3. Ledger!AcceptPlain(j)
    BY <1>1, <1>3, <2>1 DEF Ledger!AcceptPlain, Ledger!Replied, CallerGets
  <2> QED
    BY <2>2, <2>3 DEF Ledger!Next
<1>4. CASE UNCHANGED managerVars /\ CallerGets(j, "refused")
  <2>1. Load' = Load /\ Tried'
    BY <1>1, <1>4 DEF managerVars, tableVars, waitVars, Load, Queued, Tried
  <2>2. Ledger!Decline(j)
    BY <1>1, <1>4, <2>1 DEF Ledger!Decline, Ledger!Declined, Ledger!Replied, CallerGets
  <2> QED
    BY <2>1, <2>2 DEF Ledger!Next
<1> QED
  BY <1>3, <1>4 DEF SubmitPlain

LEMMA WaitLedger ==
  ASSUME PInv, Tried, NEW j \in Jobs, Interrupt(j) \/ Return(j)
  PROVE  LedgerStep /\ Tried'
<1> USE DEF LedgerStep
<1>1. /\ caller[j] = "waiting"
      /\ UNCHANGED <<holder, completed, result>> /\ Load' = Load
  BY DEF Interrupt, Return, tableVars, poolVars, cacheVars, Load, Queued
<1>2. future \in [Jobs -> FutureStates]
  BY DEF PInv, OnTimeInv, TypeOK, ManagerTypeOK
<1>3. CASE Interrupt(j)
  <2>1. caller' = caller /\ Resolve(j, "cancelled")
    BY <1>3 DEF Interrupt, ExpireWait, AbandonWait, pipelineVars
  <2>2. Tried'
    BY <1>1, <1>2, <2>1 DEF Resolve, Tried
  <2> QED
    BY <1>1, <2>1, <2>2 DEF LedgerView
<1>4. CASE Return(j)
  <2>1. future' = future
    BY <1>4 DEF Return, UnregisterWaiter
  <2>2. Tried'
    BY <1>1, <2>1 DEF Tried
  <2>3. Ledger!Answer(j)
    BY <1>1, <1>4 DEF Return, Ledger!Answer, Ledger!Replied, CallerGets, Tried
  <2> QED
    BY <2>2, <2>3 DEF Ledger!Next
<1> QED
  BY <1>3, <1>4

-----------------------------------------------------------------------------
(* Workers                                                                 *)

(* A published verdict is behind the future it may have set.               *)
LEMMA PublishTried ==
  ASSUME PInv, Tried, NEW j \in Jobs, NEW verdict \in {"completed", "failed"},
         Publish(j, verdict)
  PROVE  Tried' /\ result' = [result EXCEPT ![j] = verdict]
<1>1. /\ \A i \in Jobs : i # j => future'[i] = future[i] /\ result'[i] = result[i]
      /\ result'[j] = verdict
  BY PublishEffect DEF PInv, OnTimeInv
<1> QED
  BY <1>1 DEF Tried, Publish

LEMMA CompleteLedger ==
  ASSUME PInv, Tried, NEW w \in Workers, Completes(w)
  PROVE  LedgerStep /\ Tried'
<1>1. PICK j \in Jobs : Complete(w, j) /\ CacheCompleted(j) /\ UNCHANGED pipelineVars
  BY DEF Completes
<1>2. Tried' /\ result' = [result EXCEPT ![j] = "completed"]
  BY <1>1, PublishTried DEF Complete
<1>3. /\ hand[w] = j /\ Land(j) /\ TaskDone /\ pending' = pending
      /\ hand' = [hand EXCEPT ![w] = None] /\ caller' = caller
  BY <1>1 DEF Complete, Busy, Acknowledge, LetGo, pipelineVars
<1>4. j \in Load /\ Load' = Load \ {j}
  BY <1>3, ResultBooks, ManagerAssumption DEF PInv, OnTimeInv, BooksInv, OnePlace, Load
<1>5. holder \in [Keys -> Jobs \union {NoJob}] /\ key \in [Jobs -> Keys \union {None}]
  BY DEF PInv, OnTimeInv, TypeOK, CacheTypeOK
<1>6. \A k \in Keys : holder[k] = j <=> Keyed(j) /\ k = key[j]
  BY <1>4, <1>5, PipelineAssumption
  DEF PInv, OnTimeInv, CallersInv, OneDownloadPerKey, Accounts, ReservationsReleased, Keyed
<1>7. /\ completed' = completed \union Ledger!ClaimsOf(j)
      /\ Ledger!Release(j)
  <2>1. CASE Keyed(j)
    <3>1. key[j] \in Keys /\ Commit(key[j])
      BY <1>1, <1>5, <2>1 DEF CacheCompleted, Keyed
    <3> QED
      BY <1>5, <1>6, <2>1, <3>1 DEF Commit, Ledger!ClaimsOf, Ledger!Release
  <2>2. CASE ~Keyed(j)
    BY <1>1, <1>5, <1>6, <2>2 DEF CacheCompleted, cacheVars, Ledger!ClaimsOf, Ledger!Release
  <2> QED
    BY <2>1, <2>2
<1>8. Ledger!Succeed(j)
  BY <1>2, <1>3, <1>4, <1>7 DEF Ledger!Succeed
<1> QED
  BY <1>2, <1>8 DEF LedgerStep, Ledger!Next

LEMMA FailLedger ==
  ASSUME PInv, Tried, NEW w \in Workers, Fails(w)
  PROVE  LedgerStep /\ Tried'
<1>1. PICK j \in Jobs :
        /\ Fail(w, j) \/ FailOverflow(w, j)
        /\ CacheFailed(j)
        /\ UNCHANGED <<key, caller>>
  BY DEF Fails
<1>2. /\ hand[w] = j /\ Land(j) /\ Publish(j, "failed")
      /\ hand' = [hand EXCEPT ![w] = None]
  BY <1>1 DEF Fail, FailOverflow, Busy, Acknowledge, NackRequeue, NackGiveUp, NackOverflow, LetGo
<1>3. Tried' /\ result' = [result EXCEPT ![j] = "failed"]
  BY <1>2, PublishTried
<1>4. j \in Load
  BY <1>2, ManagerAssumption DEF PInv, OnTimeInv, BooksInv, OnePlace, Load
<1>5. \/ Load' = Load \ {j}
      \/ j \in Retry /\ Load' = Load
  <2>1. CASE TaskDone /\ pending' = pending
    BY <1>2, <2>1, ResultBooks DEF PInv, OnTimeInv
  <2>2. CASE j \in Retry /\ pending' = Append(pending, j) /\ unfinished' = unfinished
    BY <1>2, <2>2, TypedTable, RequeueBooks DEF PInv, OnTimeInv
  <2> QED
    BY <1>1, <2>1, <2>2
    DEF Fail, FailOverflow, Acknowledge, NackRequeue, NackGiveUp, NackOverflow
<1>6. holder \in [Keys -> Jobs \union {NoJob}] /\ key \in [Jobs -> Keys \union {None}]
  BY DEF PInv, OnTimeInv, TypeOK, CacheTypeOK
<1>7. \A k \in Keys : holder[k] = j <=> Keyed(j) /\ k = key[j]
  BY <1>4, <1>6, PipelineAssumption
  DEF PInv, OnTimeInv, CallersInv, OneDownloadPerKey, Accounts, ReservationsReleased, Keyed
<1>8. /\ completed' = completed
      /\ holder' = holder \/ Ledger!Release(j)
      /\ j \in Retry => holder' = holder
  BY <1>1, <1>6, <1>7
  DEF CacheFailed, Abort, cacheVars, Ledger!Release, PInv, OnTimeInv, CallersInv, KeyedOnce, Keyed
<1>9. Ledger!FailsOnce(j) \/ Ledger!GiveUp(j)
  BY <1>1, <1>3, <1>4, <1>5, <1>8 DEF Ledger!FailsOnce, Ledger!GiveUp
<1> QED
  BY <1>3, <1>9 DEF LedgerStep, Ledger!Next

(* Taking, recovering, ageing, crashing and stopping do not show.          *)
LEMMA HiddenSteps ==
  ASSUME PInv, Tried,
         \/ \E w \in Workers : Takes(w) \/ Crashes(w)
         \/ \E j \in Jobs : AgedOrphan(j)
         \/ Recovers
         \/ (StopBegins \/ StopEnds) /\ UNCHANGED <<cacheVars, pipelineVars>>
  PROVE  LedgerStep /\ Tried'
<1>1. UNCHANGED <<holder, completed, result, caller, future>>
  BY DEF Takes, Take, Crashes, Crash, AgedOrphan, Aged, Age, Recovers, RecoverRuns, StopBegins,
         StopEnds, LetGo, CloseQueue, managerVars, waitVars, poolVars, cacheVars, pipelineVars
<1>2. TableTyped /\ BooksInv
  BY TypedTable DEF PInv, OnTimeInv
<1>3. Load' = Load
  <2>1. ASSUME NEW w \in Workers, Takes(w) PROVE Load' = Load
    BY <1>2, <2>1, TakeBooks DEF Takes, Take
  <2>2. CASE Recovers
    BY <1>2, <2>2, RecoverBooks DEF Recovers, RecoverRuns, poolVars
  <2>3. CASE ~Recovers /\ ~\E w \in Workers : Takes(w)
    <3>1. UNCHANGED <<pending, inFlight>>
      BY <2>3 DEF Crashes, Crash, AgedOrphan, Aged, Age, StopBegins, StopEnds, CloseQueue,
                  managerVars, tableVars
    <3> QED
      BY <3>1 DEF Load, Queued
  <2> QED
    BY <2>1, <2>2, <2>3
<1> QED
  BY <1>1, <1>3, QuietLedger

-----------------------------------------------------------------------------
LEMMA StepLedger == PInv /\ Tried /\ [SoundNext]_vars => LedgerStep /\ Tried'
<1> SUFFICES ASSUME PInv, Tried, [SoundNext]_vars PROVE LedgerStep /\ Tried'
  OBVIOUS
<1>1. ASSUME NEW j \in Jobs, CallerNext(j) PROVE LedgerStep /\ Tried'
  BY <1>1, SubmitLedger, PlainLedger, WaitLedger DEF CallerNext
<1>2. ASSUME NEW w \in Workers, WorkerNext(w) \/ Crashes(w) PROVE LedgerStep /\ Tried'
  BY <1>2, CompleteLedger, FailLedger, HiddenSteps DEF WorkerNext
<1>3. CASE UNCHANGED vars
  <2>1. UNCHANGED <<pending, inFlight, holder, completed, result, caller, future>>
    BY <1>3 DEF vars, managerVars, tableVars, waitVars, poolVars, cacheVars, pipelineVars
  <2> QED
    BY <2>1, QuietLedger DEF Load, Queued
<1> QED
  BY <1>1, <1>2, <1>3, HiddenSteps DEF SoundNext, RunningNext

(* Through queue, workers, retries, crashes and recoveries the pipeline    *)
(* keeps the ledger of downloads (pipeline.py, dedupe_cache.py,            *)
(* queue_manager.py, worker.py).                                           *)
THEOREM PipelineKeepsLedger == SoundSpec => DownloadsKept
<1>1. Init => PInv /\ Tried /\ Ledger!Init
  BY InitPInv, LedgerInit
<1>2. PInv /\ Tried /\ [SoundNext]_vars
        => PInv' /\ Tried' /\ [Ledger!Next]_(Ledger!ledgerVars)
  BY StepPInv, StepLedger DEF LedgerStep, LedgerView, Ledger!ledgerVars
<1> QED
  BY <1>1, <1>2, PTL DEF SoundSpec, DownloadsKept, Ledger!Spec
=============================================================================
