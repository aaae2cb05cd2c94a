----------------------------- MODULE RedisProofs -----------------------------
(***************************************************************************)
(* The worker on a Redis stream, for any number of callers and keys, with  *)
(* restarts: what is acknowledged is settled, an open job is on its way,   *)
(* what is settled stays, a future is settled once, and the step that      *)
(* settles a job wakes who waits for it.  All of it rests on where the one *)
(* entry in hand and the one job in hand stand to each other.  What is     *)
(* acknowledged and what is on its way is proved of Spec, a process that   *)
(* has the stream to itself; everything else also of GroupSpec, in which   *)
(* other processes take entries out of the stream (AloneInGroup).          *)
(***************************************************************************)
EXTENDS RedisWorker, SequenceTheorems, TLAPS

RTyped ==
  /\ status \in [Calls -> Status]
  /\ code \in [Calls -> ErrorCode \union {None}]
  /\ inbox \in [Calls -> Seq({"file", "failure"})]
  /\ futures \in [Calls -> Calls \union {None}]
  /\ futState \in [Calls -> FutureState]
  /\ holds \in [Calls -> Calls \union {None}]
  /\ queue \in Seq(Calls)
  /\ wjob \in Calls \union {None}
  /\ entry \in Calls \union {None}
  /\ stage \in [Calls -> Stages]
  /\ asked \in [Calls -> Calls \union {None}]
  /\ acked \subseteq Calls

Open(j) == status[j] \in ActiveStatus

(* A caller that has not begun left no trace; one that has knows its job;  *)
(* one of an earlier process left no record.                               *)
Unborn ==
  \A c \in Calls :
    /\ stage[c] = "new" =>
         /\ status[c] = "absent" /\ wjob # c /\ entry # c
         /\ c \notin acked /\ ~Undelivered(c)
    /\ stage[c] \in {"asked", "sent"} => asked[c] \in Calls
    /\ stage[c] = "gone" => status[c] = "absent"

(* A job is open in the worker's hands until its verdict is recorded.      *)
JobHeld ==
  /\ wpc = "idle" => wjob = None
  /\ wpc \in {"notifying", "apologizing"} /\ wjob # None => ~Open(wjob)

(* The entry in hand names the job in hand as long as that job is open.    *)
EntryHeld ==
  entry # None /\ Open(entry) => wjob = entry /\ wpc \in {"fetching", "backoff", "stopped"}

(* A caller's own future is untouched until it subscribes.                 *)
OwnFuture ==
  \A c \in Calls :
    stage[c] = "new" \/ (stage[c] # "gone" /\ holds[c] = None) => futState[c] = "unused"

RInv ==
  /\ RTyped /\ Unborn /\ JobHeld /\ EntryHeld /\ OwnFuture

(* The three action properties, as what a step does.                       *)
Stays ==
  \A j \in Calls :
    (status[j] \in TerminalStatus \/ stage[j] = "gone") /\ wjob # j =>
      /\ inbox'[j] = inbox[j]
      /\ j \in threads' => j \in threads
      /\ status'[j] # "absent" => status'[j] = status[j] /\ code'[j] = code[j]

Once ==
  \A f \in Calls : futState[f] \in {"result", "cancelled"} => futState'[f] = futState[f]

Wakes ==
  \A j \in Calls :
    status[j] \in ActiveStatus /\ status'[j] \in TerminalStatus /\ futures[j] # None =>
      futures'[j] = None /\ futState'[futures[j]] # "pending"

(* What every step of the process, and of those it shares the stream with, *)
(* does; and what a step of the process alone does besides.                *)
Kept == RInv' /\ Stays /\ Once /\ Wakes

Alone ==
  /\ Kept
  /\ AckedIsSettled => AckedIsSettled'
  /\ OpenJobsMove => OpenJobsMove'

LEMMA InitRInv == Init => RInv
<1> SUFFICES ASSUME Init PROVE RInv
  OBVIOUS
<1> USE DEF Init, ServiceInit, WaiterInit, QueueInit, WorkerInit
<1>1. RTyped
  <2>1. <<>> \in Seq({"file", "failure"}) /\ <<>> \in Seq(Calls)
    OBVIOUS
  <2> QED
    BY <2>1 DEF RTyped, Status, FutureState, Stages
<1>2. Unborn /\ JobHeld /\ EntryHeld /\ OwnFuture
  <2>1. queue = <<>> /\ DOMAIN queue = {}
    OBVIOUS
  <2>2. \A c : ~Undelivered(c)
    BY <2>1 DEF Undelivered
  <2> QED
    BY <2>2, WaiterAssumption DEF Unborn, JobHeld, EntryHeld, OwnFuture
<1> QED
  BY <1>1, <1>2 DEF RInv

-----------------------------------------------------------------------------
(* Parts of steps                                                          *)

(* The stream loses nothing but its oldest entry.                          *)
LEMMA TailKeeps ==
  ASSUME queue \in Seq(Calls), queue # <<>>, queue' = Tail(queue)
  PROVE  /\ queue' \in Seq(Calls)
         /\ Head(queue) \in Calls /\ Undelivered(Head(queue))
         /\ \A i : Undelivered(i)' => Undelivered(i)
         /\ \A i : Undelivered(i) => i = Head(queue) \/ Undelivered(i)'
<1>1. /\ Len(queue) \in Nat \ {0} /\ Head(queue) = queue[1]
      /\ queue' \in Seq(Calls) /\ Len(queue') = Len(queue) - 1
  OBVIOUS
<1>2. \A n \in DOMAIN queue' : n + 1 \in DOMAIN queue /\ queue'[n] = queue[n + 1]
  BY <1>1
<1>3. \A n \in DOMAIN queue : n # 1 => n - 1 \in DOMAIN queue' /\ queue'[n - 1] = queue[n]
  BY <1>1
<1>4. 1 \in DOMAIN queue /\ queue[1] \in Calls
  BY <1>1
<1>5. ASSUME NEW i, Undelivered(i)' PROVE Undelivered(i)
  BY <1>2, <1>5 DEF Undelivered
<1>6. ASSUME NEW i, Undelivered(i) PROVE i = Head(queue) \/ Undelivered(i)'
  BY <1>1, <1>3, <1>6 DEF Undelivered
<1> QED
  BY <1>1, <1>4, <1>5, <1>6 DEF Undelivered

LEMMA AddKeeps ==
  ASSUME queue \in Seq(Calls), NEW c \in Calls, Add(c) \/ AddTwice(c)
  PROVE  /\ queue' \in Seq(Calls)
         /\ \A i : Undelivered(i)' <=> Undelivered(i) \/ i = c
<1>1. CASE Add(c)
  <2>1. queue' = Append(queue, c)
    BY <1>1 DEF Add
  <2>2. queue' \in Seq(Calls) /\ Len(queue') = Len(queue) + 1
    BY <2>1
  <2>3. \A n \in DOMAIN queue : n \in DOMAIN queue' /\ queue'[n] = queue[n]
    BY <2>1
  <2>4. \A n \in DOMAIN queue' : n \in DOMAIN queue \/ queue'[n] = c
    BY <2>1
  <2>5. Len(queue) + 1 \in DOMAIN queue' /\ queue'[Len(queue) + 1] = c
    BY <2>1
  <2> QED
    BY <2>2, <2>3, <2>4, <2>5 DEF Undelivered
<1>2. CASE AddTwice(c)
  <2>1. queue' = queue \o <<c, c>>
    BY <1>2 DEF AddTwice
  <2>2. queue' \in Seq(Calls) /\ Len(queue') = Len(queue) + 2
    BY <2>1
  <2>3. \A n \in DOMAIN queue : n \in DOMAIN queue' /\ queue'[n] = queue[n]
    BY <2>1
  <2>4. \A n \in DOMAIN queue' : n \in DOMAIN queue \/ queue'[n] = c
    <3> SUFFICES ASSUME NEW n \in DOMAIN queue', n \notin DOMAIN queue PROVE queue'[n] = c
      OBVIOUS
    <3>1. n \in Nat /\ n - Len(queue) \in 1 .. 2
      BY <2>2
    <3>2. queue'[n] = <<c, c>>[n - Len(queue)]
      BY <2>1, <2>2, <3>1
    <3> QED
      BY <3>1, <3>2
  <2>5. Len(queue) + 1 \in DOMAIN queue' /\ queue'[Len(queue) + 1] = c
    BY <2>1
  <2> QED
    BY <2>2, <2>3, <2>4, <2>5 DEF Undelivered
<1> QED
  BY <1>1, <1>2

Marks(j) == MarkSucceeded(j) \/ MarkCanceled(j) \/ \E err \in ErrorCode : MarkFailed(j, err)

(* A job is settled: its record, its future, and nothing of the others.    *)
LEMMA MarkEffect ==
  ASSUME RTyped, NEW j \in Calls, Marks(j)
  PROVE  /\ status' \in [Calls -> Status]
         /\ code' \in [Calls -> ErrorCode \union {None}]
         /\ futures' \in [Calls -> Calls \union {None}]
         /\ futState' \in [Calls -> FutureState]
         /\ holds' = holds
         /\ \A i \in Calls : i # j => status'[i] = status[i] /\ code'[i] = code[i]
         /\ ~Open(j)' /\ (status[j] = "absent" => status'[j] = "absent")
         /\ \A f \in Calls : futState[f] # "pending" => futState'[f] = futState[f]
         /\ Wakes
<1> USE DEF RTyped
<1>1. CASE status[j] = "absent"
  <2>1. UNCHANGED <<status, code, futures, futState, holds>>
    BY <1>1
    DEF Marks, MarkSucceeded, MarkCanceled, MarkFailed, Known, serviceVars, recordVars, waiterVars
  <2> QED
    BY <1>1, <2>1 DEF Open, ActiveStatus, TerminalStatus, Wakes
<1>2. CASE status[j] # "absent"
  <2>1. PublishTerminal(j)
    BY <1>2 DEF Marks, MarkSucceeded, MarkCanceled, MarkFailed, Known
  <2>2. \E v \in TerminalStatus : status' = [status EXCEPT ![j] = v]
    BY <1>2 DEF Marks, MarkSucceeded, MarkCanceled, MarkFailed, Known, TerminalStatus
  <2>3. \/ code' = code
        \/ \E err \in ErrorCode : code' = [code EXCEPT ![j] = err]
    BY <1>2 DEF Marks, MarkSucceeded, MarkCanceled, MarkFailed, Known
  <2>4. /\ futures' = [futures EXCEPT ![j] = None] /\ holds' = holds
        /\ \/ /\ futures[j] # None /\ futState[futures[j]] = "pending"
              /\ futState' = [futState EXCEPT ![futures[j]] = "result"]
           \/ /\ ~(futures[j] # None /\ futState[futures[j]] = "pending")
              /\ futState' = futState
    BY <2>1 DEF PublishTerminal
  <2>5. futState' \in [Calls -> FutureState]
    BY <2>4 DEF FutureState
  <2>6. \A f \in Calls : futState[f] # "pending" => futState'[f] = futState[f]
    BY <2>4
  <2>7. Wakes
    <3>1. \A i \in Calls : i # j => status'[i] = status[i]
      BY <2>2
    <3>2. futures[j] # None => futures'[j] = None /\ futState'[futures[j]] # "pending"
      BY <2>4
    <3> QED
      BY <3>1, <3>2 DEF Wakes, ActiveStatus, TerminalStatus
  <2>8. /\ status' \in [Calls -> Status] /\ ~Open(j)'
        /\ \A i \in Calls : i # j => status'[i] = status[i] /\ code'[i] = code[i]
    BY <2>2, <2>3 DEF Status, Open, ActiveStatus, TerminalStatus
  <2>9. code' \in [Calls -> ErrorCode \union {None}] /\ futures' \in [Calls -> Calls \union {None}]
    <3>1. code' \in [Calls -> ErrorCode \union {None}]
      BY <2>3
    <3>2. futures' \in [Calls -> Calls \union {None}]
      BY <2>4
    <3> QED
      BY <3>1, <3>2
  <2> QED
    BY <1>2, <2>4, <2>5, <2>6, <2>7, <2>8, <2>9
<1> QED
  BY <1>1, <1>2

-----------------------------------------------------------------------------
(* Steps that touch neither record nor stream nor hands                    *)

LEMMA QuietStep ==
  ASSUME RInv,
         UNCHANGED <<status, code, inbox, futures, futState, holds, queue, wpc, wjob, entry,
                     stage, asked, acked, lost>>,
         threads' \subseteq threads
  PROVE  Alone
<1>1. \A c : Undelivered(c)' <=> Undelivered(c)
  BY DEF Undelivered
<1>2. RInv' /\ (AckedIsSettled => AckedIsSettled') /\ (OpenJobsMove => OpenJobsMove')
  BY <1>1
  DEF RInv, RTyped, Unborn, JobHeld, EntryHeld, OwnFuture, AckedIsSettled, OpenJobsMove, Open
<1> QED
  BY <1>2 DEF Alone, Kept, Stays, Once, Wakes, ActiveStatus, TerminalStatus

(* Callers whose step leaves records and stream alone: subscribe, and a    *)
(* wait that is cancelled.                                                 *)
LEMMA FutureStep ==
  ASSUME RInv, NEW c \in Calls, CallSubscribe(c) \/ CallCancel(c)
  PROVE  Alone
<1> USE DEF RInv, RTyped
<1>1. /\ UNCHANGED <<status, code, inbox, queue, wpc, wjob, entry, stage, asked, acked, lost,
                  threads>>
      /\ stage[c] # "gone"
  BY DEF CallSubscribe, CallCancel, recordVars, queueVars, workerVars, streamVars, callerVars
<1>2. \A i : Undelivered(i)' <=> Undelivered(i)
  BY <1>1 DEF Undelivered
<1>3. /\ futures' \in [Calls -> Calls \union {None}]
      /\ futState' \in [Calls -> FutureState]
      /\ holds' \in [Calls -> Calls \union {None}]
      /\ OwnFuture' /\ Once
  <2>1. CASE CallCancel(c)
    <3>1. /\ futState[c] = "pending" /\ futState' = [futState EXCEPT ![c] = "cancelled"]
          /\ UNCHANGED <<futures, holds>>
      BY <2>1 DEF CallCancel, CancelFuture
    <3> QED
      BY <1>1, <3>1 DEF FutureState, OwnFuture, Once
  <2>2. CASE CallSubscribe(c)
    <3>1. /\ stage[c] \in {"asked", "sent"} /\ holds[c] = None
          /\ \E j \in Calls :
               \/ /\ futState' = [futState EXCEPT ![c] = "result"]
                  /\ holds' = [holds EXCEPT ![c] = c] /\ futures' = futures
               \/ /\ futState' = [futState EXCEPT ![c] = "pending"]
                  /\ holds' = [holds EXCEPT ![c] = c] /\ futures' = [futures EXCEPT ![j] = c]
               \/ /\ futures[j] # None /\ holds' = [holds EXCEPT ![c] = futures[j]]
                  /\ UNCHANGED <<futures, futState>>
      BY <2>2 DEF CallSubscribe, Subscribe, Unborn
    <3>2. futState[c] = "unused"
      BY <3>1 DEF OwnFuture
    <3>3. CASE /\ \E v \in {"result", "pending"} : futState' = [futState EXCEPT ![c] = v]
               /\ holds' = [holds EXCEPT ![c] = c]
               /\ \E j \in Calls : futures' \in {futures, [futures EXCEPT ![j] = c]}
      <4>0. futState' \in [Calls -> FutureState]
        BY <3>3 DEF FutureState
      <4>1. holds' \in [Calls -> Calls \union {None}] /\ futures' \in [Calls -> Calls \union {None}]
        <5>1. PICK j \in Calls : futures' \in {futures, [futures EXCEPT ![j] = c]}
          BY <3>3
        <5>2. futures' \in [Calls -> Calls \union {None}]
          BY <5>1
        <5> QED
          BY <3>3, <5>2
      <4>2. \A f \in Calls : f # c => futState'[f] = futState[f] /\ holds'[f] = holds[f]
        BY <3>3
      <4>3. holds'[c] = c /\ c # None
        BY <3>3, WaiterAssumption
      <4>4. OwnFuture'
        BY <1>1, <3>1, <4>2, <4>3 DEF OwnFuture
      <4> QED
        BY <3>2, <4>0, <4>1, <4>2, <4>4 DEF Once
    <3>4. CASE /\ \E j \in Calls : futures[j] # None /\ holds' = [holds EXCEPT ![c] = futures[j]]
               /\ UNCHANGED <<futures, futState>>
      BY <1>1, <3>1, <3>4 DEF FutureState, OwnFuture, Once
    <3> QED
      BY <3>1, <3>3, <3>4
  <2> QED
    BY <2>1, <2>2
<1>4. RInv' /\ (AckedIsSettled => AckedIsSettled') /\ (OpenJobsMove => OpenJobsMove')
  BY <1>1, <1>2, <1>3
  DEF Unborn, JobHeld, EntryHeld, AckedIsSettled, OpenJobsMove, Open
<1> QED
  BY <1>1, <1>3, <1>4 DEF Alone, Kept, Stays, Wakes, ActiveStatus, TerminalStatus

-----------------------------------------------------------------------------
(* Callers that submit and enqueue                                         *)

LEMMA SubmitStep ==
  ASSUME RInv, NEW c \in Calls, CallSubmit(c)
  PROVE  Alone
<1> USE DEF RInv, RTyped
<1>1. /\ UNCHANGED <<code, inbox, futures, futState, holds, queue, wpc, wjob, entry, acked, lost,
                     threads>>
      /\ stage[c] = "new" /\ stage' = [stage EXCEPT ![c] = "asked"]
      /\ \E j \in Calls : asked' = [asked EXCEPT ![c] = j]
      /\ status' \in {status, [status EXCEPT ![c] = "queued"]}
  BY DEF CallSubmit, SubmitNew, SubmitJoin, Learn, Reach, recordVars, waiterVars, queueVars,
         workerVars, streamVars
<1>2. \A i : Undelivered(i)' <=> Undelivered(i)
  BY <1>1 DEF Undelivered
<1>3. /\ status[c] = "absent" /\ wjob # c /\ entry # c /\ c \notin acked
      /\ futState[c] = "unused"
  BY <1>1 DEF Unborn, OwnFuture
<1>4. \A i \in Calls : i # c => status'[i] = status[i] /\ stage'[i] = stage[i] /\ asked'[i] = asked[i]
  BY <1>1
<1>5. RTyped'
  <2>1. status' \in [Calls -> Status] /\ stage' \in [Calls -> Stages]
    BY <1>1 DEF Status, ActiveStatus, Stages
  <2>2. asked' \in [Calls -> Calls \union {None}]
    BY <1>1
  <2> QED
    BY <1>1, <2>1, <2>2
<1>6. Unborn' /\ OwnFuture'
  BY <1>1, <1>2, <1>4, <1>3 DEF Unborn, OwnFuture
<1>7. JobHeld' /\ EntryHeld' /\ (AckedIsSettled => AckedIsSettled')
  <2>1. JobHeld'
    BY <1>1, <1>3, <1>4 DEF JobHeld, Open
  <2>2. EntryHeld'
    BY <1>1, <1>3, <1>4 DEF EntryHeld, Open
  <2>3. AckedIsSettled => AckedIsSettled'
    BY <1>1, <1>3, <1>4 DEF AckedIsSettled
  <2> QED
    BY <2>1, <2>2, <2>3
<1>8. OpenJobsMove => OpenJobsMove'
  BY <1>1, <1>2, <1>4 DEF OpenJobsMove
<1>9. Stays /\ Once /\ Wakes
  BY <1>1, <1>3, <1>4 DEF Stays, Once, Wakes, ActiveStatus, TerminalStatus
<1> QED
  BY <1>5, <1>6, <1>7, <1>8, <1>9 DEF Alone, Kept

LEMMA EnqueueStep ==
  ASSUME RInv, NEW c \in Calls, CallEnqueue(c)
  PROVE  Alone
<1> USE DEF RInv, RTyped
<1>1. /\ UNCHANGED <<status, code, inbox, futures, futState, holds, wpc, wjob, entry, asked,
                     acked, lost, threads>>
      /\ stage[c] = "asked"
      /\ \/ (Add(c) \/ AddTwice(c)) /\ stage' = [stage EXCEPT ![c] = "sent"]
         \/ (Add(c) \/ queue' = queue) /\ stage' = [stage EXCEPT ![c] = "failed"]
  BY DEF CallEnqueue, Reach, serviceVars, recordVars, waiterVars, queueVars, workerVars,
         streamVars
<1>2. /\ queue' \in Seq(Calls)
      /\ \A i : Undelivered(i) => Undelivered(i)'
      /\ \A i : Undelivered(i)' => Undelivered(i) \/ i = c
      /\ stage'[c] = "sent" => Undelivered(c)'
  <2>1. CASE Add(c) \/ AddTwice(c)
    BY <2>1, AddKeeps
  <2>2. CASE queue' = queue /\ stage' = [stage EXCEPT ![c] = "failed"]
    BY <2>2 DEF Undelivered
  <2> QED
    BY <1>1, <2>1, <2>2
<1>3. /\ stage' \in [Calls -> Stages] /\ stage'[c] \in {"sent", "failed"}
      /\ \A i \in Calls : i # c => stage'[i] = stage[i]
  BY <1>1 DEF Stages
<1>4. RTyped'
  BY <1>1, <1>2, <1>3
<1>5. Unborn' /\ OwnFuture'
  BY <1>1, <1>2, <1>3 DEF Unborn, OwnFuture
<1>6. JobHeld' /\ EntryHeld' /\ (AckedIsSettled => AckedIsSettled')
  BY <1>1 DEF JobHeld, EntryHeld, AckedIsSettled, Open
<1>7. OpenJobsMove => OpenJobsMove'
  BY <1>1, <1>2, <1>3 DEF OpenJobsMove
<1>8. Stays /\ Once /\ Wakes
  BY <1>1 DEF Stays, Once, Wakes, ActiveStatus, TerminalStatus
<1> QED
  BY <1>4, <1>5, <1>6, <1>7, <1>8 DEF Alone, Kept

LEMMA CancelJobStep ==
  ASSUME RInv, NEW j \in Calls, CallCancelJob(j)
  PROVE  Alone
<1> USE DEF RInv
<1>1. /\ UNCHANGED <<inbox, queue, wpc, wjob, entry, stage, asked, acked, lost, threads>>
      /\ Open(j) /\ Marks(j)
  BY DEF CallCancelJob, Marks, Open, queueVars, workerVars, streamVars, callerVars
<1>2. /\ RTyped' /\ Wakes /\ holds' = holds
      /\ \A i \in Calls : i # j => status'[i] = status[i] /\ code'[i] = code[i]
      /\ ~Open(j)'
      /\ \A f \in Calls : futState[f] # "pending" => futState'[f] = futState[f]
  BY <1>1, MarkEffect DEF RTyped
<1>3. \A i : Undelivered(i)' <=> Undelivered(i)
  BY <1>1 DEF Undelivered
<1>4. status[j] # "absent"
  BY <1>1 DEF Open, ActiveStatus
<1>5. Unborn' /\ OwnFuture'
  BY <1>1, <1>2, <1>3, <1>4 DEF Unborn, OwnFuture
<1>6. JobHeld' /\ EntryHeld' /\ (AckedIsSettled => AckedIsSettled') /\ (OpenJobsMove => OpenJobsMove')
  BY <1>1, <1>2, <1>3 DEF JobHeld, EntryHeld, AckedIsSettled, OpenJobsMove, Open, RTyped
<1>7. Stays /\ Once
  BY <1>1, <1>2, <1>4 DEF Stays, Once, Unborn, Open, ActiveStatus, TerminalStatus
<1> QED
  BY <1>2, <1>5, <1>6, <1>7 DEF Alone, Kept

-----------------------------------------------------------------------------
(* The worker                                                              *)

Delivers(j) ==
  /\ inbox' \in [Calls -> Seq({"file", "failure"})]
  /\ \A i \in Calls : i # j => inbox'[i] = inbox[i]

LEMMA DeliverEffect ==
  ASSUME RTyped, NEW j, MaybeDeliver(j)
  PROVE  Delivers(j)
<1>1. CASE Deliver(j)
  <2>1. Verdict(j) \in {"file", "failure"}
    BY DEF Verdict
  <2>2. j \in Calls => Append(inbox[j], Verdict(j)) \in Seq({"file", "failure"})
    BY <2>1 DEF RTyped
  <2> QED
    BY <1>1, <2>2 DEF Deliver, Delivers, RTyped
<1>2. CASE inbox' = inbox
  BY <1>2 DEF Delivers, RTyped
<1> QED
  BY <1>1, <1>2 DEF MaybeDeliver

(* What a step of the handler of j does, whichever it is: the fetch goes   *)
(* on, or the job is settled, or the handler lets it go.                   *)
LEMMA HandlerStep ==
  ASSUME RInv, NEW j \in Calls,
         wjob = j, RTyped', Delivers(j), Once, Wakes,
         UNCHANGED <<queue, stage, asked, acked, lost>>,
         \A i \in Calls : i # j => status'[i] = status[i] /\ code'[i] = code[i],
         \A i \in threads' : i \in threads \/ i = j,
         \A c \in Calls : futState[c] = "unused" => futState'[c] = "unused",
         holds' = holds,
         \/ /\ status' = status /\ wjob' = j /\ entry' = entry
            /\ wpc \in {"fetching", "backoff"} /\ wpc' \in {"fetching", "backoff"}
         \/ /\ ~Open(j)' /\ (status[j] = "absent" => status'[j] = "absent")
            /\ wjob' = j /\ entry' = entry /\ wpc' \in {"notifying", "apologizing"}
         \/ /\ status' = status /\ wjob' = None /\ entry' \in {entry, None}
            /\ wpc \in {"notifying", "apologizing"} /\ wpc' = "idle"
  PROVE  Alone
<1> USE DEF RInv, RTyped
<1>1. \A i : Undelivered(i)' <=> Undelivered(i)
  BY DEF Undelivered
<1>2. stage[j] # "new" /\ j # None
  BY WaiterAssumption DEF Unborn
<1>3. \A i \in Calls : status[i] = "absent" => status'[i] = "absent"
  BY DEF Unborn
<1>4. Unborn' /\ OwnFuture'
  BY <1>1, <1>2, <1>3, WaiterAssumption DEF Unborn, OwnFuture
<1>5. JobHeld'
  BY <1>2 DEF JobHeld, Open
<1>6. \A i \in Calls : Open(i)' => Open(i)
  BY DEF Open
<1>7. EntryHeld'
  BY <1>2, <1>6 DEF EntryHeld, JobHeld, Open
<1>8. AckedIsSettled => AckedIsSettled'
  BY <1>6 DEF AckedIsSettled, Open
<1>9. OpenJobsMove => OpenJobsMove'
  BY <1>1, <1>2, <1>6 DEF OpenJobsMove, JobHeld, Open
<1>10. Stays
  BY DEF Stays, Delivers
<1> QED
  BY <1>4, <1>5, <1>7, <1>8, <1>9, <1>10 DEF Alone, Kept

LEMMA WorkStep ==
  ASSUME RInv, NEW j \in Calls, Work(j)
  PROVE  Alone
<1> USE DEF RInv
<1>1. UNCHANGED <<queue, stage, asked, acked, lost, entry>> /\ wjob = j
  BY DEF Work, Fetch, DownloadOk, DownloadFatal, DownloadTransient, DownloadTransientAgain,
         DownloadTimeout, DownloadError, BackoffEnds, Notify, NotifyOk, ApologyOk, NotifyFail,
         queueVars, streamVars, callerVars
<1>2. \A i \in threads' : i \in threads \/ i = j
  BY DEF Work, Fetch, DownloadOk, DownloadFatal, DownloadTransient, DownloadTransientAgain,
         DownloadTimeout, DownloadError, BackoffEnds, Notify, NotifyOk, ApologyOk, NotifyFail,
         StartThread, EndThread
<1>3. CASE DownloadTransient(j) \/ BackoffEnds(j)
  <2>1. /\ UNCHANGED <<status, code, futures, futState, holds, inbox>> /\ wjob' = j
        /\ wpc \in {"fetching", "backoff"} /\ wpc' \in {"fetching", "backoff"}
    BY <1>3 DEF DownloadTransient, BackoffEnds, GoTo, serviceVars, recordVars, waiterVars
  <2>2. RTyped' /\ Delivers(j) /\ Once /\ Wakes
    BY <1>1, <2>1 DEF RTyped, Delivers, Once, Wakes, ActiveStatus, TerminalStatus
  <2> QED
    BY <1>1, <1>2, <2>1, <2>2, HandlerStep
<1>4. CASE \/ DownloadOk(j) \/ DownloadFatal(j) \/ DownloadTransientAgain(j)
           \/ DownloadTimeout(j) \/ DownloadError(j) \/ NotifyFail(j)
  <2>1. /\ Marks(j) /\ wjob' = j /\ wpc' \in {"notifying", "apologizing"}
        /\ inbox' = inbox \/ MaybeDeliver(j)
    BY <1>4 DEF DownloadOk, DownloadFatal, DownloadTransientAgain, DownloadTimeout, DownloadError,
                NotifyFail, GoTo, Marks, ErrorCode
  <2>2. Delivers(j)
    BY <2>1, DeliverEffect DEF MaybeDeliver
  <2>3. /\ status' \in [Calls -> Status]
        /\ code' \in [Calls -> ErrorCode \union {None}]
        /\ futures' \in [Calls -> Calls \union {None}]
        /\ futState' \in [Calls -> FutureState]
        /\ holds' = holds
        /\ \A i \in Calls : i # j => status'[i] = status[i] /\ code'[i] = code[i]
        /\ ~Open(j)' /\ (status[j] = "absent" => status'[j] = "absent")
        /\ \A f \in Calls : futState[f] # "pending" => futState'[f] = futState[f]
        /\ Wakes
    BY <2>1, MarkEffect
  <2>4. RTyped' /\ Once
    BY <1>1, <2>1, <2>2, <2>3 DEF RTyped, Delivers, Once
  <2> QED
    BY <1>1, <1>2, <2>1, <2>2, <2>3, <2>4, HandlerStep
<1>5. CASE NotifyOk(j) \/ ApologyOk(j)
  <2>1. /\ UNCHANGED <<status, code, futures, futState, holds>> /\ wjob' = None
        /\ wpc \in {"notifying", "apologizing"} /\ wpc' = "idle" /\ MaybeDeliver(j)
    BY <1>5 DEF NotifyOk, ApologyOk, BecomeIdle, GoTo, MaybeDeliver, serviceVars, recordVars,
                waiterVars
  <2>2. Delivers(j)
    BY <2>1, DeliverEffect
  <2>3. RTyped' /\ Once /\ Wakes
    BY <1>1, <2>1, <2>2 DEF RTyped, Delivers, Once, Wakes, ActiveStatus, TerminalStatus
  <2> QED
    BY <1>1, <1>2, <2>1, <2>2, <2>3, HandlerStep
<1> QED
  BY <1>3, <1>4, <1>5 DEF Work, Fetch, Notify

LEMMA ApologyStep ==
  ASSUME RInv, NEW j \in Calls, ApologyLogged(j)
  PROVE  Alone
<1> USE DEF RInv
<1>1. /\ wjob = j /\ wpc = "apologizing" /\ wpc' = "idle" /\ wjob' = None
      /\ UNCHANGED <<status, code, futures, futState, holds, queue, stage, asked, acked, lost,
                     threads>>
      /\ entry' = None /\ MaybeDeliver(j)
  BY DEF ApologyLogged, BecomeIdle, GoTo, LetEntryGo, serviceVars, recordVars, waiterVars,
         queueVars, callerVars
<1>2. Delivers(j)
  BY <1>1, DeliverEffect
<1>3. RTyped' /\ Once /\ Wakes
  BY <1>1, <1>2 DEF RTyped, Delivers, Once, Wakes, ActiveStatus, TerminalStatus
<1> QED
  BY <1>1, <1>2, <1>3, HandlerStep

-----------------------------------------------------------------------------
(* The stream                                                              *)

(* The oldest entry is read: its message is dropped, or its job is taken   *)
(* in hand, or settled at once.                                            *)
LEMMA ReadStep ==
  ASSUME RInv, NEW j \in Calls, ReadEntry(j)
  PROVE  Alone
<1> USE DEF RInv
<1>1. /\ entry = None /\ entry' = j /\ wpc = "idle"
      /\ queue # <<>> /\ j = Head(queue) /\ queue' = Tail(queue)
      /\ UNCHANGED <<stage, asked, acked, lost, inbox>>
  BY DEF ReadEntry, Handle, HandleSkip, HandleUnsupported, HandleCacheHit, HandleMiss,
         HandleError, Receive, Take, callerVars, workerVars
<1>2. /\ queue' \in Seq(Calls) /\ Undelivered(j)
      /\ \A i : Undelivered(i)' => Undelivered(i)
      /\ \A i : Undelivered(i) => i = j \/ Undelivered(i)'
  BY <1>1, TailKeeps DEF RTyped
<1>3. wjob = None /\ stage[j] # "new" /\ j # None
  BY <1>1, <1>2, WaiterAssumption DEF JobHeld, Unborn
<1>4. /\ RTyped' /\ Once /\ Wakes /\ holds' = holds
      /\ \A c \in Calls : futState[c] = "unused" => futState'[c] = "unused"
      /\ \A i \in Calls : i # j => status'[i] = status[i] /\ code'[i] = code[i]
      /\ ~Open(j) => UNCHANGED <<status, code, threads>>
      /\ \A i \in threads' : i \in threads \/ i = j
      /\ \/ wpc' = "idle" /\ wjob' = None /\ ~Open(j)'
         \/ wpc' = "fetching" /\ wjob' = j
         \/ wpc' \in {"notifying", "apologizing"} /\ wjob' = j /\ ~Open(j)'
  <2>1. CASE HandleSkip(j)
    <3>1. /\ UNCHANGED <<status, code, futures, futState, holds, wpc, wjob, threads>>
          /\ status[j] \in TerminalStatus \union {"absent"}
      BY <2>1 DEF HandleSkip, serviceVars, recordVars, waiterVars, workerVars
    <3>2. ~Open(j)'
      BY <3>1 DEF Open, ActiveStatus, TerminalStatus
    <3> QED
      BY <1>1, <1>2, <1>3, <3>1, <3>2
      DEF RTyped, Once, Wakes, ActiveStatus, TerminalStatus
  <2>2. CASE HandleMiss(j)
    <3>1. /\ UNCHANGED <<code, futures, futState, holds>>
          /\ Open(j) /\ status' = [status EXCEPT ![j] = "running"]
          /\ wpc' = "fetching" /\ wjob' = j /\ threads' = threads \union {j}
      BY <2>2 DEF HandleMiss, MarkRunning, Known, Open, ActiveStatus, GoTo, StartThread,
                  waiterVars
    <3>2. RTyped'
      BY <1>1, <1>2, <3>1 DEF RTyped, Status, ActiveStatus
    <3> QED
      BY <3>1, <3>2 DEF RTyped, Once, Wakes, ActiveStatus, TerminalStatus
  <2>3. CASE HandleUnsupported(j) \/ HandleCacheHit(j) \/ HandleError(j)
    <3>1. /\ Marks(j) /\ Open(j) /\ wjob' = j /\ threads' = threads
          /\ wpc' \in {"notifying", "apologizing"}
      BY <2>3 DEF HandleUnsupported, HandleCacheHit, HandleError, Marks, ErrorCode, Open, GoTo
    <3>2. /\ status' \in [Calls -> Status]
          /\ code' \in [Calls -> ErrorCode \union {None}]
          /\ futures' \in [Calls -> Calls \union {None}]
          /\ futState' \in [Calls -> FutureState]
          /\ holds' = holds
          /\ \A i \in Calls : i # j => status'[i] = status[i] /\ code'[i] = code[i]
          /\ ~Open(j)'
          /\ \A f \in Calls : futState[f] # "pending" => futState'[f] = futState[f]
          /\ Wakes
      BY <3>1, MarkEffect
    <3>3. RTyped' /\ Once
      BY <1>1, <1>2, <3>1, <3>2 DEF RTyped, Once
    <3> QED
      BY <3>1, <3>2, <3>3
  <2> QED
    BY <2>1, <2>2, <2>3 DEF ReadEntry, Handle
<1>5. \A i \in Calls : i # j /\ Open(i)' => Open(i)
  BY <1>4 DEF Open
<1>6. Unborn' /\ OwnFuture'
  <2>1. \A i \in Calls : status[i] = "absent" => status'[i] = "absent"
    BY <1>4 DEF Open, ActiveStatus
  <2> QED
    BY <1>1, <1>2, <1>3, <1>4, <2>1, WaiterAssumption DEF Unborn, OwnFuture
<1>7. JobHeld' /\ EntryHeld'
  BY <1>1, <1>3, <1>4 DEF JobHeld, EntryHeld
<1>8. AckedIsSettled => AckedIsSettled'
  <2>1. AckedIsSettled => \A i \in acked : i \in Calls /\ ~Open(i)
    BY DEF AckedIsSettled, Open, RTyped
  <2>2. ~Open(j) => ~Open(j)'
    BY <1>4 DEF Open
  <2> QED
    BY <1>1, <1>5, <2>1, <2>2 DEF AckedIsSettled, Open
<1>9. OpenJobsMove => OpenJobsMove'
  <2> SUFFICES ASSUME OpenJobsMove, NEW i \in Calls, Open(i)'
               PROVE  \/ stage'[i] \in {"asked", "failed"}
                      \/ Undelivered(i)' \/ wjob' = i \/ i \in lost'
    BY DEF OpenJobsMove, Open
  <2>1. CASE i = j
    BY <1>4, <2>1
  <2>2. CASE i # j
    <3>1. Open(i)
      BY <1>5, <2>2
    <3>2. stage[i] \in {"asked", "failed"} \/ Undelivered(i) \/ wjob = i \/ i \in lost
      BY <3>1 DEF OpenJobsMove, Open
    <3>3. wjob # i
      BY <1>3, WaiterAssumption
    <3> QED
      BY <1>1, <1>2, <2>2, <3>2, <3>3
  <2> QED
    BY <2>1, <2>2
<1>10. Stays
  BY <1>1, <1>4 DEF Stays, Open, Unborn, ActiveStatus, TerminalStatus
<1> QED
  BY <1>4, <1>6, <1>7, <1>8, <1>9, <1>10 DEF Alone, Kept

LEMMA AcknowledgeStep ==
  ASSUME RInv, Acknowledge
  PROVE  Alone
<1> USE DEF RInv
<1>1. /\ wpc = "idle" /\ entry # None /\ entry' = None
      /\ acked' \in {acked, acked \union {entry}}
      /\ UNCHANGED <<status, code, inbox, futures, futState, holds, queue, wpc, wjob, stage,
                     asked, lost, threads>>
  BY DEF Acknowledge, LetEntryGo, serviceVars, recordVars, waiterVars, queueVars, workerVars,
         callerVars
<1>2. ~Open(entry) /\ entry \in Calls /\ stage[entry] # "new"
  BY <1>1 DEF EntryHeld, Unborn, RTyped
<1>3. RTyped' /\ OwnFuture' /\ JobHeld' /\ EntryHeld'
  BY <1>1, <1>2 DEF RTyped, OwnFuture, JobHeld, EntryHeld, Open
<1>4. Unborn' /\ (AckedIsSettled => AckedIsSettled') /\ (OpenJobsMove => OpenJobsMove')
  BY <1>1, <1>2, WaiterAssumption
  DEF Unborn, AckedIsSettled, OpenJobsMove, Open, Undelivered
<1>5. Stays /\ Once /\ Wakes
  BY <1>1 DEF Stays, Once, Wakes, ActiveStatus, TerminalStatus
<1> QED
  BY <1>3, <1>4, <1>5 DEF Alone, Kept

LEMMA LostStep ==
  ASSUME RInv, ReplyLost
  PROVE  Alone
<1> USE DEF RInv
<1>1. /\ queue # <<>> /\ queue' = Tail(queue) /\ lost' = lost \union {Head(queue)}
      /\ UNCHANGED <<status, code, inbox, futures, futState, holds, wpc, wjob, entry, stage,
                     asked, acked, threads>>
  BY DEF ReplyLost, serviceVars, recordVars, waiterVars, workerVars, callerVars
<1>2. /\ queue' \in Seq(Calls)
      /\ \A i : Undelivered(i)' => Undelivered(i)
      /\ \A i : Undelivered(i) => i = Head(queue) \/ Undelivered(i)'
  BY <1>1, TailKeeps DEF RTyped
<1>3. RTyped' /\ OwnFuture' /\ JobHeld' /\ EntryHeld' /\ (AckedIsSettled => AckedIsSettled')
  BY <1>1, <1>2 DEF RTyped, OwnFuture, JobHeld, EntryHeld, AckedIsSettled, Open
<1>4. Unborn' /\ (OpenJobsMove => OpenJobsMove')
  BY <1>1, <1>2 DEF Unborn, OpenJobsMove
<1>5. Stays /\ Once /\ Wakes
  BY <1>1 DEF Stays, Once, Wakes, ActiveStatus, TerminalStatus
<1> QED
  BY <1>3, <1>4, <1>5 DEF Alone, Kept

(* The consumer task ends, by an exception or by a cancellation.           *)
LEMMA EndStep ==
  ASSUME RInv, ReadFails \/ Stop
  PROVE  Alone
<1> USE DEF RInv
<1>1. /\ UNCHANGED <<status, code, futures, futState, holds, queue, wjob, entry, stage, asked,
                     acked, lost, threads>>
      /\ \/ wpc' = "stopped" /\ MaybeDeliver(wjob)
         \/ wpc' = "dead" /\ entry = None /\ inbox' = inbox
  BY DEF ReadFails, Reading, Stop, WorkerCancelled, MaybeDeliver, serviceVars, recordVars,
         waiterVars, queueVars, streamVars, callerVars
<1>2. Delivers(wjob)
  BY <1>1, DeliverEffect DEF MaybeDeliver
<1>3. RTyped' /\ OwnFuture' /\ JobHeld' /\ EntryHeld' /\ (AckedIsSettled => AckedIsSettled')
  BY <1>1, <1>2 DEF RTyped, OwnFuture, JobHeld, EntryHeld, AckedIsSettled, Open, Delivers
<1>4. Unborn' /\ (OpenJobsMove => OpenJobsMove')
  BY <1>1 DEF Unborn, OpenJobsMove, Undelivered
<1>5. Stays /\ Once /\ Wakes
  BY <1>1, <1>2 DEF Stays, Once, Wakes, Delivers, ActiveStatus, TerminalStatus
<1> QED
  BY <1>3, <1>4, <1>5 DEF Alone, Kept

LEMMA RestartStep ==
  ASSUME RInv, Restart
  PROVE  Alone
<1> USE DEF RInv
<1>1. /\ \A i \in Calls : status'[i] = "absent" /\ stage'[i] \in {"new", "gone"}
      /\ \A i \in Calls : stage'[i] = "new" => stage[i] = "new"
      /\ wpc' = "idle" /\ wjob' = None /\ entry' = None /\ threads' = {}
      /\ UNCHANGED <<futState, queue, acked>>
      /\ MaybeDeliver(wjob)
  BY DEF Restart, queueVars, MaybeDeliver
<1>2. Delivers(wjob)
  BY <1>1, DeliverEffect
<1>3. RTyped'
  <2>1. /\ status' \in [Calls -> Status] /\ code' \in [Calls -> ErrorCode \union {None}]
        /\ futures' \in [Calls -> Calls \union {None}] /\ holds' \in [Calls -> Calls \union {None}]
        /\ asked' \in [Calls -> Calls \union {None}]
    BY DEF Restart, Status
  <2>2. stage' \in [Calls -> Stages]
    BY DEF Restart, Stages
  <2> QED
    BY <1>1, <1>2, <2>1, <2>2 DEF RTyped, Delivers
<1>4. JobHeld' /\ EntryHeld' /\ (AckedIsSettled => AckedIsSettled') /\ (OpenJobsMove => OpenJobsMove')
  BY <1>1 DEF JobHeld, EntryHeld, AckedIsSettled, OpenJobsMove, ActiveStatus, RTyped
<1>5. Unborn' /\ OwnFuture'
  BY <1>1, WaiterAssumption DEF Unborn, OwnFuture, Undelivered
<1>6. Stays /\ Once /\ Wakes
  BY <1>1, <1>2 DEF Stays, Once, Wakes, Delivers, TerminalStatus
<1> QED
  BY <1>3, <1>4, <1>5, <1>6 DEF Alone, Kept

-----------------------------------------------------------------------------
LEMMA StepAlone == RInv /\ [Next]_vars => Alone
<1> SUFFICES ASSUME RInv, [Next]_vars PROVE Alone
  OBVIOUS
<1>1. ASSUME NEW c \in Calls, CallerNext(c) PROVE Alone
  BY <1>1, SubmitStep, FutureStep, EnqueueStep, CancelJobStep DEF CallerNext
<1>2. ASSUME NEW j \in Calls, AbandonedThreadStep(j) PROVE Alone
  <2>1. /\ UNCHANGED <<status, code, inbox, futures, futState, holds, queue, wpc, wjob, entry,
                       stage, asked, acked, lost>>
        /\ threads' \subseteq threads
    BY <1>2 DEF AbandonedThreadStep, ThreadEnds, ThreadRecreates, EndThread, serviceVars,
                recordVars, waiterVars, queueVars, workerVars, streamVars, callerVars
  <2> QED
    BY <2>1, QuietStep
<1>3. ASSUME NEW j \in Calls, ConsumerNext(j) PROVE Alone
  BY <1>2, <1>3, ReadStep, WorkStep, ApologyStep DEF ConsumerNext
<1>4. CASE UNCHANGED vars
  <2>1. /\ UNCHANGED <<status, code, inbox, futures, futState, holds, queue, wpc, wjob, entry,
                       stage, asked, acked, lost>>
        /\ threads' \subseteq threads
    BY <1>4 DEF vars, serviceVars, recordVars, waiterVars, queueVars, workerVars, streamVars,
                callerVars
  <2> QED
    BY <2>1, QuietStep
<1> QED
  BY <1>1, <1>3, <1>4, AcknowledgeStep, LostStep, EndStep, RestartStep DEF Next

(* Another process takes an entry out of the stream.                       *)
LEMMA PeerStep == RInv /\ PeerReads => Kept
<1> SUFFICES ASSUME RInv, PeerReads PROVE Kept
  OBVIOUS
<1> USE DEF RInv
<1>1. /\ queue # <<>> /\ queue' = Tail(queue) /\ acked' = acked \union {Head(queue)}
      /\ UNCHANGED <<status, code, inbox, futures, futState, holds, wpc, wjob, entry, stage,
                     asked, threads>>
  BY DEF PeerReads, serviceVars, recordVars, waiterVars, workerVars, callerVars
<1>2. /\ queue' \in Seq(Calls) /\ Head(queue) \in Calls /\ Undelivered(Head(queue))
      /\ \A i : Undelivered(i)' => Undelivered(i)
  BY <1>1, TailKeeps DEF RTyped
<1>3. RTyped' /\ OwnFuture' /\ JobHeld' /\ EntryHeld'
  BY <1>1, <1>2 DEF RTyped, OwnFuture, JobHeld, EntryHeld, Open
<1>4. Unborn'
  BY <1>1, <1>2 DEF Unborn
<1>5. Stays /\ Once /\ Wakes
  BY <1>1 DEF Stays, Once, Wakes, ActiveStatus, TerminalStatus
<1> QED
  BY <1>3, <1>4, <1>5 DEF Kept

LEMMA StepKept == RInv /\ [Next \/ PeerReads]_vars => Kept
BY StepAlone, PeerStep DEF Alone

LEMMA RedisInvariance == GroupSpec => []RInv
<1>1. RInv /\ [Next \/ PeerReads]_vars => RInv'
  BY StepKept DEF Kept
<1> QED
  BY <1>1, InitRInv, PTL DEF GroupSpec

(* A process that has the stream to itself is one of a group whose others  *)
(* never read: what is proved of GroupSpec holds of Spec.                  *)
LEMMA AloneInGroup == Spec => GroupSpec
<1>1. [Next]_vars => [Next \/ PeerReads]_vars
  OBVIOUS
<1> QED
  BY <1>1, PTL DEF Spec, GroupSpec

(* No entry of an open job is acknowledged, through restarts, lost replies *)
(* and repeated commands (redis_queue.py, worker_runner.py).               *)
THEOREM NothingGivenUp == Spec => []AckedIsSettled
<1>1. Init => AckedIsSettled
  BY DEF Init, ServiceInit, AckedIsSettled, ActiveStatus
<1>2. RInv /\ AckedIsSettled /\ [Next]_vars => AckedIsSettled'
  BY StepAlone DEF Alone
<1> QED
  BY <1>1, <1>2, AloneInGroup, RedisInvariance, PTL DEF Spec

(* An open job is with its caller, in the stream, or with the worker,      *)
(* unless the code lost it in one of the ways OpenJobsMove names.          *)
THEOREM OpenJobsAreOnTheirWay == Spec => []OpenJobsMove
<1>1. Init => OpenJobsMove
  BY DEF Init, ServiceInit, OpenJobsMove, ActiveStatus
<1>2. RInv /\ OpenJobsMove /\ [Next]_vars => OpenJobsMove'
  BY StepAlone DEF Alone
<1> QED
  BY <1>1, <1>2, AloneInGroup, RedisInvariance, PTL DEF Spec

(* No second message, download or verdict for a job the worker has left    *)
(* (handle, wrapped, mark_canceled).                                       *)
THEOREM SettledJobsStay == GroupSpec => SettledStays
<1>1. RInv /\ [Next \/ PeerReads]_vars => [Stays]_vars
  BY StepKept DEF Kept
<1> QED
  BY <1>1, RedisInvariance, PTL DEF GroupSpec, SettledStays, Stays

(* set_result is never called on a future that is done                     *)
(* (publish_terminal, subscribe).                                          *)
THEOREM FuturesAreSettledOnce == GroupSpec => FuturesSettleOnce
<1>1. RInv /\ [Next \/ PeerReads]_vars => [Once]_serviceVars
  BY StepKept DEF Kept
<1> QED
  BY <1>1, RedisInvariance, PTL DEF GroupSpec, FuturesSettleOnce, Once

(* The step that settles a job, by whoever it is made, leaves nobody       *)
(* waiting for it (mark_*, publish_terminal).                              *)
THEOREM SettlingWakes == GroupSpec => TerminalStepWakes
<1>1. RInv /\ [Next \/ PeerReads]_vars => [Wakes]_serviceVars
  BY StepKept DEF Kept
<1> QED
  BY <1>1, RedisInvariance, PTL DEF GroupSpec, TerminalStepWakes, Wakes

-----------------------------------------------------------------------------
(* The remembered verdicts                                                 *)

Memory ==
  /\ terminal \in Seq(Calls)
  /\ futures \in [Calls -> Calls \union {None}]
  /\ MemoryBounded /\ RememberedHasNoWaiter

(* A verdict that is remembered pushes out the oldest ones at most.        *)
LEMMA RememberEffect ==
  ASSUME terminal \in Seq(Calls), MemoryBounded, NEW j \in Calls, Remember(j)
  PROVE  /\ terminal' \in Seq(Calls) /\ MemoryBounded'
         /\ Remembered' \subseteq Remembered \union {j}
<1> DEFINE s == IF j \in Remembered THEN terminal ELSE Append(terminal, j)
<1>1. /\ s \in Seq(Calls) /\ Len(s) \in Nat
      /\ \A i \in DOMAIN s : s[i] \in Remembered \union {j}
      /\ \A i, n \in DOMAIN s : s[i] = s[n] => i = n
  <2>1. CASE j \in Remembered
    BY <2>1 DEF MemoryBounded, Remembered
  <2>2. CASE j \notin Remembered
    <3>1. s = Append(terminal, j) /\ s \in Seq(Calls) /\ Len(s) = Len(terminal) + 1
      BY <2>2
    <3>2. \A i \in DOMAIN s : \/ i \in DOMAIN terminal /\ s[i] = terminal[i]
                              \/ i = Len(terminal) + 1 /\ s[i] = j
      BY <3>1
    <3>3. \A i \in DOMAIN terminal : terminal[i] # j
      BY <2>2 DEF Remembered
    <3> QED
      BY <3>1, <3>2, <3>3 DEF MemoryBounded, Remembered
  <2> QED
    BY <2>1, <2>2
<1>2. terminal' = Trim(s)
  BY DEF Remember
<1> HIDE DEF s
<1>3. CASE Len(s) <= MaxTerminal
  <2>1. terminal' = s
    BY <1>1, <1>2, <1>3, WaiterAssumption DEF Trim
  <2> QED
    BY <1>1, <1>3, <2>1 DEF MemoryBounded, Remembered
<1>4. CASE ~(Len(s) <= MaxTerminal)
  <2> DEFINE d == Len(s) - MaxTerminal
  <2>1. d \in Nat \ {0} /\ Len(s) = d + MaxTerminal /\ MaxTerminal \in Nat
    BY <1>1, <1>4, WaiterAssumption
  <2>2. terminal' = SubSeq(s, d + 1, Len(s))
    BY <1>1, <1>2, <1>4, WaiterAssumption DEF Trim
  <2> HIDE DEF d
  <2>3. /\ terminal' \in Seq(Calls) /\ Len(terminal') = MaxTerminal
        /\ \A i \in DOMAIN terminal' : i + d \in DOMAIN s /\ terminal'[i] = s[i + d] /\ i \in Nat
    BY <1>1, <2>1, <2>2
  <2>4. \A i, n \in DOMAIN terminal' : terminal'[i] = terminal'[n] => i = n
    BY <1>1, <2>1, <2>3
  <2>5. Remembered' \subseteq Remembered \union {j}
    BY <1>1, <2>3 DEF Remembered
  <2> QED
    BY <2>1, <2>3, <2>4, <2>5 DEF MemoryBounded
<1> QED
  BY <1>3, <1>4

LEMMA PublishMemory ==
  ASSUME Memory, NEW j \in Calls, PublishTerminal(j)
  PROVE  Memory'
<1>1. /\ terminal' \in Seq(Calls) /\ MemoryBounded'
      /\ Remembered' \subseteq Remembered \union {j}
  BY RememberEffect DEF Memory, PublishTerminal
<1>2. futures' = [futures EXCEPT ![j] = None]
  BY DEF PublishTerminal
<1>3. Remembered \subseteq Calls
  BY DEF Memory, Remembered
<1> QED
  BY <1>1, <1>2, <1>3 DEF Memory, RememberedHasNoWaiter

(* Any other step forgets nothing, and registers nobody for a job that is  *)
(* remembered.                                                             *)
LEMMA OtherMemory ==
  ASSUME Memory, terminal' = terminal, futures' \in [Calls -> Calls \union {None}],
         \A j \in Calls : futures'[j] # futures[j] => j \notin Remembered
  PROVE  Memory'
<1>1. Remembered' = Remembered /\ Remembered \subseteq Calls
  BY DEF Memory, Remembered
<1> QED
  BY <1>1 DEF Memory, MemoryBounded, RememberedHasNoWaiter

LEMMA StepMemory == Memory /\ RInv /\ [Next \/ PeerReads]_vars => Memory'
<1> SUFFICES ASSUME Memory, RInv, [Next \/ PeerReads]_vars PROVE Memory'
  OBVIOUS
<1>1. ASSUME UNCHANGED waiterVars PROVE Memory'
  BY <1>1, OtherMemory DEF waiterVars, Memory
<1>2. ASSUME NEW j \in Calls, Marks(j) PROVE Memory'
  <2>1. PublishTerminal(j) \/ UNCHANGED waiterVars
    BY <1>2 DEF Marks, MarkSucceeded, MarkCanceled, MarkFailed, serviceVars
  <2> QED
    BY <1>1, <2>1, PublishMemory
<1>3. ASSUME NEW c \in Calls, CallerNext(c) PROVE Memory'
  <2>1. CASE CallSubmit(c) \/ CallEnqueue(c)
    BY <1>1, <2>1 DEF CallSubmit, CallEnqueue, serviceVars
  <2>2. CASE CallCancelJob(c)
    BY <1>2, <2>2 DEF CallCancelJob, Marks
  <2>3. CASE CallCancel(c)
    BY <2>3, OtherMemory DEF CallCancel, CancelFuture, Memory
  <2>4. CASE CallSubscribe(c)
    <3>1. asked[c] \in Calls
      BY <2>4 DEF CallSubscribe, RInv, Unborn
    <3>2. /\ terminal' = terminal
          /\ futures' = futures \/ (asked[c] \notin Remembered /\ futures' = [futures EXCEPT ![asked[c]] = c])
      BY <2>4 DEF CallSubscribe, Subscribe
    <3>3. /\ futures' \in [Calls -> Calls \union {None}]
          /\ \A j \in Calls : futures'[j] # futures[j] => j \notin Remembered
      BY <3>1, <3>2 DEF Memory
    <3> QED
      BY <3>2, <3>3, OtherMemory
  <2> QED
    BY <1>3, <2>1, <2>2, <2>3, <2>4 DEF CallerNext
<1>4. ASSUME NEW j \in Calls, ConsumerNext(j) PROVE Memory'
  <2>1. UNCHANGED waiterVars \/ Marks(j)
    BY <1>4
    DEF ConsumerNext, ReadEntry, Handle, HandleSkip, HandleUnsupported, HandleCacheHit, HandleMiss,
        HandleError, Work, Fetch, DownloadOk, DownloadFatal, DownloadTransient,
        DownloadTransientAgain, DownloadTimeout, DownloadError, BackoffEnds, Notify, NotifyOk,
        ApologyOk, NotifyFail, ApologyLogged, AbandonedThreadStep, ThreadEnds, ThreadRecreates,
        Marks, ErrorCode, serviceVars
  <2> QED
    BY <1>1, <1>2, <2>1
<1>5. CASE Acknowledge \/ ReplyLost \/ ReadFails \/ Stop \/ PeerReads
  BY <1>1, <1>5 DEF Acknowledge, ReplyLost, ReadFails, PeerReads, Stop, WorkerCancelled, serviceVars
<1>6. CASE Restart
  <2>1. terminal' = <<>> /\ futures' = [j \in Calls |-> None]
    BY <1>6 DEF Restart
  <2>2. terminal' \in Seq(Calls) /\ Len(terminal') = 0 /\ DOMAIN terminal' = {}
    BY <2>1
  <2> QED
    BY <2>1, <2>2, WaiterAssumption DEF Memory, MemoryBounded, RememberedHasNoWaiter, Remembered
<1>7. CASE UNCHANGED vars
  BY <1>1, <1>7 DEF vars, serviceVars
<1> QED
  BY <1>3, <1>4, <1>5, <1>6, <1>7 DEF Next

LEMMA MemoryInvariance == GroupSpec => []Memory
<1>1. Init => Memory
  <2> SUFFICES ASSUME Init PROVE Memory
    OBVIOUS
  <2>1. terminal = <<>> /\ futures = [j \in Calls |-> None]
    BY DEF Init, ServiceInit, WaiterInit
  <2>2. terminal \in Seq(Calls) /\ Len(terminal) = 0 /\ DOMAIN terminal = {}
    BY <2>1
  <2> QED
    BY <2>1, <2>2, WaiterAssumption DEF Memory, MemoryBounded, RememberedHasNoWaiter, Remembered
<1> QED
  BY <1>1, StepMemory, RedisInvariance, PTL DEF GroupSpec

(* subscribe and publish_terminal do not miss each other: nobody is        *)
(* registered for a job whose verdict is remembered.                       *)
THEOREM RememberedWakesAll == GroupSpec => []RememberedHasNoWaiter
<1>1. Memory => RememberedHasNoWaiter
  BY DEF Memory
<1> QED
  BY <1>1, MemoryInvariance, PTL

(* The memory of verdicts keeps its bound and names no job twice           *)
(* (_trim_terminal).                                                       *)
THEOREM MemoryStaysBounded == GroupSpec => []MemoryBounded
<1>1. Memory => MemoryBounded
  BY DEF Memory
<1> QED
  BY <1>1, MemoryInvariance, PTL

-----------------------------------------------------------------------------
(* What the chats receive                                                  *)

AtMostOne == {<<>>, <<"file">>, <<"failure">>}

Shapes == {<<>>, <<"file">>, <<"failure">>, <<"file", "failure">>, <<"failure", "failure">>}

(* Nothing is sent before a job's verdict, and one message at most before  *)
(* an apology, which is for a job that has not succeeded.                  *)
Untold ==
  \A j \in Calls :
    \/ stage[j] = "new" \/ Open(j)
    \/ wjob = j /\ wpc \in {"fetching", "backoff", "notifying"}
    => inbox[j] = <<>>

Apologizes ==
  \A j \in Calls :
    wjob = j /\ wpc = "apologizing" => inbox[j] \in AtMostOne /\ status[j] # "succeeded"

Mail == InboxShape /\ Untold /\ Apologizes

LEMMA AppendSecond ==
  ASSUME NEW x, NEW y
  PROVE  Append(<<x>>, y) = <<x, y>>
<1> DEFINE S == {x, y}
<1>1. /\ <<x>> \in Seq(S) /\ <<x, y>> \in Seq(S) /\ Append(<<x>>, y) \in Seq(S)
      /\ Len(<<x>>) = 1 /\ Len(<<x, y>>) = 2 /\ Len(Append(<<x>>, y)) = 2
  OBVIOUS
<1>2. Append(<<x>>, y)[1] = x /\ Append(<<x>>, y)[2] = y
  BY <1>1
<1>3. \A i \in 1 .. 2 : Append(<<x>>, y)[i] = <<x, y>>[i]
  BY <1>2
<1> QED
  BY <1>1, <1>3, SeqEqual

LEMMA DeliverMail ==
  ASSUME Mail, RTyped, NEW j \in Calls, wjob = j, wpc \in {"notifying", "apologizing"},
         MaybeDeliver(j)
  PROVE  /\ \A i \in Calls : i # j => inbox'[i] = inbox[i]
         /\ inbox'[j] \in Shapes
         /\ wpc = "notifying" => inbox'[j] \in AtMostOne
<1> DEFINE m == Verdict(j)
<1>1. /\ \A i \in Calls : i # j => inbox'[i] = inbox[i]
      /\ inbox'[j] \in {inbox[j], Append(inbox[j], m)}
  BY DEF MaybeDeliver, Deliver, RTyped
<1>2. inbox[j] \in Shapes
  BY DEF Mail, InboxShape, Shapes
<1>3. CASE wpc = "notifying"
  <2>1. inbox[j] = <<>> /\ m \in {"file", "failure"}
    BY <1>3 DEF Mail, Untold, Verdict
  <2>2. Append(<<>>, "file") = <<"file">> /\ Append(<<>>, "failure") = <<"failure">>
    OBVIOUS
  <2>3. inbox'[j] \in AtMostOne
    BY <1>1, <2>1, <2>2 DEF AtMostOne
  <2> QED
    BY <1>1, <2>3 DEF AtMostOne, Shapes
<1>4. CASE wpc = "apologizing"
  <2>1. inbox[j] \in AtMostOne /\ m = "failure"
    BY <1>4 DEF Mail, Apologizes, Verdict
  <2>2. /\ Append(<<>>, "failure") = <<"failure">>
        /\ Append(<<"file">>, "failure") = <<"file", "failure">>
        /\ Append(<<"failure">>, "failure") = <<"failure", "failure">>
    BY AppendSecond
  <2>3. Append(inbox[j], m) \in Shapes
    BY <2>1, <2>2 DEF AtMostOne, Shapes
  <2> QED
    BY <1>1, <1>2, <1>4, <2>3
<1> QED
  BY <1>3, <1>4

(* Steps that send nothing, of whoever it is but the worker.               *)
LEMMA SilentMail ==
  ASSUME Mail, UNCHANGED inbox,
         \A i \in Calls : stage'[i] = "new" => stage[i] = "new",
         \A i \in Calls : Open(i)' => Open(i) \/ stage[i] = "new",
         \A i \in Calls : status'[i] = "succeeded" => status[i] = "succeeded",
         \/ UNCHANGED <<wpc, wjob>>
         \/ wpc' \notin {"fetching", "backoff", "notifying", "apologizing"}
  PROVE  Mail'
BY DEF Mail, InboxShape, Untold, Apologizes

(* The worker goes on with a job its chat has heard nothing about.         *)
LEMMA UntoldMail ==
  ASSUME Mail, UNCHANGED <<inbox, stage>>, NEW j \in Calls, inbox[j] = <<>>,
         wjob' = j, wpc' = "apologizing" => status'[j] # "succeeded",
         \A i \in Calls : i # j => status'[i] = status[i]
  PROVE  Mail'
BY DEF Mail, InboxShape, Untold, Apologizes, Open, AtMostOne

(* The notifier's call ends.                                               *)
LEMMA ToldMail ==
  ASSUME Mail, RInv, UNCHANGED stage, NEW j \in Calls, wjob = j,
         wpc \in {"notifying", "apologizing"}, MaybeDeliver(j),
         \A i \in Calls : i # j => status'[i] = status[i],
         \/ wjob' = None /\ status' = status
         \/ wjob' = j /\ wpc' = "stopped" /\ status' = status
         \/ /\ wjob' = j /\ wpc = "notifying" /\ wpc' = "apologizing"
            /\ ~Open(j)' /\ status'[j] # "succeeded"
  PROVE  Mail'
<1>1. /\ \A i \in Calls : i # j => inbox'[i] = inbox[i]
      /\ inbox'[j] \in Shapes
      /\ wpc = "notifying" => inbox'[j] \in AtMostOne
  BY DeliverMail DEF RInv
<1>2. stage[j] # "new" /\ ~Open(j) /\ j # None
  BY WaiterAssumption DEF RInv, Unborn, JobHeld
<1>3. InboxShape'
  BY <1>1 DEF Mail, InboxShape, Shapes
<1>4. Untold'
  BY <1>1, <1>2, WaiterAssumption DEF Mail, Untold, Open
<1>5. Apologizes'
  BY <1>1, <1>2, WaiterAssumption DEF Mail, Apologizes
<1> QED
  BY <1>3, <1>4, <1>5 DEF Mail

LEMMA FailedStatus ==
  ASSUME RTyped, NEW j \in Calls, \E err \in ErrorCode : MarkFailed(j, err)
  PROVE  /\ status'[j] # "succeeded" /\ ~Open(j)'
         /\ \A i \in Calls : i # j => status'[i] = status[i]
BY DEF MarkFailed, Known, RTyped, serviceVars, recordVars, Open, ActiveStatus

LEMMA CallerMail ==
  ASSUME Mail, RInv, NEW c \in Calls, CallerNext(c)
  PROVE  Mail'
<1> USE DEF RInv, RTyped
<1>1. UNCHANGED <<inbox, wpc, wjob>>
  BY DEF CallerNext, CallSubmit, CallSubscribe, CallEnqueue, CallCancel, CallCancelJob, workerVars
<1>2. \A i \in Calls : stage'[i] = "new" => stage[i] = "new"
  BY DEF CallerNext, CallSubmit, CallSubscribe, CallEnqueue, CallCancel, CallCancelJob, callerVars,
         Reach
<1>3. \/ status' = status
      \/ stage[c] = "new" /\ status' = [status EXCEPT ![c] = "queued"]
      \/ status' = [status EXCEPT ![c] = "canceled"]
  BY DEF CallerNext, CallSubmit, SubmitNew, SubmitJoin, CallSubscribe, CallEnqueue, CallCancel,
         CallCancelJob, MarkCanceled, Known, serviceVars, recordVars
<1>4. /\ \A i \in Calls : Open(i)' => Open(i) \/ stage[i] = "new"
      /\ \A i \in Calls : status'[i] = "succeeded" => status[i] = "succeeded"
  BY <1>3 DEF Open, ActiveStatus
<1> QED
  BY <1>1, <1>2, <1>4, SilentMail

LEMMA ReadMail ==
  ASSUME Mail, RInv, NEW j \in Calls, ReadEntry(j)
  PROVE  Mail'
<1> USE DEF RInv
<1>1. UNCHANGED <<inbox, stage>>
  BY DEF ReadEntry, Handle, HandleSkip, HandleUnsupported, HandleCacheHit, HandleMiss, HandleError,
         callerVars, workerVars
<1>2. CASE HandleSkip(j)
  BY <1>1, <1>2, SilentMail DEF HandleSkip, serviceVars, recordVars, workerVars, Open
<1>3. CASE ~HandleSkip(j)
  <2>1. /\ Open(j) /\ wjob' = j
        /\ \/ wpc' # "apologizing" /\ (Marks(j) \/ MarkRunning(j))
           \/ \E err \in ErrorCode : MarkFailed(j, err)
    BY <1>3 DEF ReadEntry, Handle, HandleUnsupported, HandleCacheHit, HandleMiss, HandleError,
                Open, ActiveStatus, GoTo, Marks, ErrorCode
  <2>2. inbox[j] = <<>>
    BY <2>1 DEF Mail, Untold
  <2>3. /\ \A i \in Calls : i # j => status'[i] = status[i]
        /\ wpc' = "apologizing" => status'[j] # "succeeded"
    BY <2>1, MarkEffect, FailedStatus DEF MarkRunning, RTyped
  <2> QED
    BY <1>1, <2>1, <2>2, <2>3, UntoldMail
<1> QED
  BY <1>2, <1>3

LEMMA WorkMail ==
  ASSUME Mail, RInv, NEW j \in Calls, Work(j)
  PROVE  Mail'
<1> USE DEF RInv
<1>1. UNCHANGED stage /\ wjob = j
  BY DEF Work, Fetch, DownloadOk, DownloadFatal, DownloadTransient, DownloadTransientAgain,
         DownloadTimeout, DownloadError, BackoffEnds, Notify, NotifyOk, ApologyOk, NotifyFail,
         callerVars
<1>2. CASE Fetch(j)
  <2>1. /\ UNCHANGED inbox /\ wjob' = j /\ wpc \in {"fetching", "backoff"}
        /\ \/ wpc' # "apologizing" /\ (Marks(j) \/ status' = status)
           \/ \E err \in ErrorCode : MarkFailed(j, err)
    BY <1>2 DEF Fetch, DownloadOk, DownloadFatal, DownloadTransient, DownloadTransientAgain,
                DownloadTimeout, DownloadError, BackoffEnds, GoTo, Marks, ErrorCode, serviceVars,
                recordVars
  <2>2. inbox[j] = <<>>
    BY <1>1, <2>1 DEF Mail, Untold
  <2>3. /\ \A i \in Calls : i # j => status'[i] = status[i]
        /\ wpc' = "apologizing" => status'[j] # "succeeded"
    BY <2>1, MarkEffect, FailedStatus
  <2> QED
    BY <1>1, <2>1, <2>2, <2>3, UntoldMail
<1>3. CASE Notify(j)
  <2>1. /\ wpc \in {"notifying", "apologizing"} /\ MaybeDeliver(j)
        /\ wjob' = None /\ status' = status
    BY <1>3 DEF Notify, NotifyOk, ApologyOk, BecomeIdle, GoTo, MaybeDeliver, serviceVars,
                recordVars
  <2> QED
    BY <1>1, <2>1, ToldMail
<1>4. CASE NotifyFail(j)
  <2>1. /\ wpc = "notifying" /\ MaybeDeliver(j)
        /\ wjob' = j /\ wpc' = "apologizing"
        /\ \E err \in ErrorCode : MarkFailed(j, err)
    BY <1>4 DEF NotifyFail, GoTo, ErrorCode
  <2>2. /\ status'[j] # "succeeded" /\ ~Open(j)'
        /\ \A i \in Calls : i # j => status'[i] = status[i]
    BY <2>1, FailedStatus
  <2> QED
    BY <1>1, <2>1, <2>2, ToldMail
<1> QED
  BY <1>2, <1>3, <1>4 DEF Work

LEMMA RestartMail ==
  ASSUME Mail, RInv, Restart
  PROVE  Mail'
<1> USE DEF RInv
<1>1. /\ \A i \in Calls : status'[i] = "absent"
      /\ \A i \in Calls : stage'[i] = "new" => stage[i] = "new"
      /\ wpc' = "idle"
      /\ \/ wpc \in {"notifying", "apologizing"} /\ MaybeDeliver(wjob)
         \/ inbox' = inbox
  BY DEF Restart, MaybeDeliver
<1>2. \A i \in Calls : ~Open(i)'
  BY <1>1 DEF Open, ActiveStatus
<1>3. CASE inbox' = inbox
  BY <1>1, <1>2, <1>3, SilentMail
<1>4. CASE wpc \in {"notifying", "apologizing"} /\ MaybeDeliver(wjob) /\ inbox' # inbox
  <2>1. wjob \in Calls
    BY <1>4, WaiterAssumption DEF MaybeDeliver, Deliver, RTyped
  <2>2. /\ \A i \in Calls : i # wjob => inbox'[i] = inbox[i]
        /\ inbox'[wjob] \in Shapes
    BY <1>4, <2>1, DeliverMail
  <2>3. stage[wjob] # "new"
    BY <2>1 DEF Unborn
  <2> QED
    BY <1>1, <1>2, <2>2, <2>3 DEF Mail, InboxShape, Shapes, Untold, Apologizes
<1> QED
  BY <1>1, <1>3, <1>4

LEMMA StepMail == Mail /\ RInv /\ [Next \/ PeerReads]_vars => Mail'
<1> SUFFICES ASSUME Mail, RInv, [Next \/ PeerReads]_vars PROVE Mail'
  OBVIOUS
<1>1. ASSUME NEW j \in Calls, ApologyLogged(j) PROVE Mail'
  <2>1. /\ wjob = j /\ wpc = "apologizing" /\ MaybeDeliver(j)
        /\ wjob' = None /\ status' = status /\ UNCHANGED stage
    BY <1>1 DEF ApologyLogged, BecomeIdle, GoTo, serviceVars, recordVars, callerVars
  <2> QED
    BY <2>1, ToldMail
<1>2. ASSUME UNCHANGED <<inbox, stage, status>>,
             UNCHANGED <<wpc, wjob>> \/ wpc' \notin {"fetching", "backoff", "notifying", "apologizing"}
      PROVE  Mail'
  BY <1>2, SilentMail DEF Open
<1>3. ASSUME NEW j \in Calls, AbandonedThreadStep(j) PROVE Mail'
  BY <1>2, <1>3 DEF AbandonedThreadStep, ThreadEnds, ThreadRecreates, serviceVars, recordVars,
                    workerVars, callerVars
<1>4. CASE Acknowledge \/ ReplyLost \/ ReadFails \/ PeerReads
  BY <1>2, <1>4 DEF Acknowledge, ReplyLost, ReadFails, PeerReads, serviceVars, recordVars,
                    workerVars, callerVars
<1>5. CASE Stop
  <2>1. /\ wpc' = "stopped" /\ UNCHANGED <<wjob, stage, status>>
        /\ \/ wpc \in {"notifying", "apologizing"} /\ MaybeDeliver(wjob)
           \/ inbox' = inbox
    BY <1>5 DEF Stop, WorkerCancelled, MaybeDeliver, serviceVars, recordVars, callerVars
  <2>2. CASE inbox' = inbox
    BY <1>2, <2>1, <2>2
  <2>3. CASE inbox' # inbox
    <3>1. wjob \in Calls
      BY <2>1, <2>3, WaiterAssumption DEF MaybeDeliver, Deliver, RInv, RTyped
    <3> QED
      BY <2>1, <2>3, <3>1, ToldMail
  <2> QED
    BY <2>2, <2>3
<1>6. CASE UNCHANGED vars
  BY <1>2, <1>6 DEF vars, serviceVars, recordVars, workerVars, callerVars
<1> QED
  BY <1>1, <1>3, <1>4, <1>5, <1>6, CallerMail, ReadMail, WorkMail, RestartMail
  DEF Next, ConsumerNext

(* A chat gets a job's file once at most, never after a failure, and one   *)
(* failure after it at most: through repeated entries, restarts and a      *)
(* Telegram that fails (handle, wrapped, notify_job_update).               *)
THEOREM ChatsAreToldOnce == GroupSpec => []InboxShape
<1>1. Init => Mail
  BY DEF Init, WorkerInit, ServiceInit, Mail, InboxShape, Untold, Apologizes
<1>2. Mail => InboxShape
  BY DEF Mail
<1> QED
  BY <1>1, <1>2, StepMail, RedisInvariance, PTL DEF GroupSpec

-----------------------------------------------------------------------------
(* What is left on the disk                                                *)

GivenUp(j) == status[j] = "failed" /\ code[j] \in {"TIMEOUT", "INTERNAL"}

(* The job in hand has a record, and a thread the worker does not wait for *)
(* was abandoned.                                                          *)
Disk ==
  /\ threads \subseteq Calls /\ dirs \subseteq Calls
  /\ wjob # None => status[wjob] # "absent"
  /\ \A j \in threads : GivenUp(j) \/ (wjob = j /\ wpc \in {"fetching", "stopped"})
  /\ DirsOwned

(* Callers, and the stream between two entries.                            *)
LEMMA IdleDisk ==
  ASSUME Disk, RInv, UNCHANGED dirs, threads' \subseteq threads,
         \A i \in Calls : status[i] \notin ActiveStatus \union {"absent"} =>
           status'[i] = status[i] /\ code'[i] = code[i],
         \A i \in Calls : status[i] # "absent" => status'[i] # "absent",
         \A i \in Calls : stage[i] = "gone" => stage'[i] = "gone",
         UNCHANGED wjob, wpc' = wpc \/ (wpc = "idle" /\ wpc' = "dead")
  PROVE  Disk'
BY DEF Disk, DirsOwned, GivenUp, ActiveStatus, RInv, RTyped, JobHeld

(* The worker goes on with its job, or lets it go.                         *)
LEMMA HandDisk ==
  ASSUME Disk, RInv, NEW j \in Calls, wjob = j, UNCHANGED stage, WorkDir,
         \A i \in Calls : i # j => status'[i] = status[i] /\ code'[i] = code[i],
         threads' \subseteq threads \union {j},
         j \in threads' => GivenUp(j)' \/ (wjob' = j /\ wpc' \in {"fetching", "stopped"}),
         \/ wjob' = None /\ wpc' = "idle"
         \/ /\ wjob' = j /\ status'[j] # "absent"
            /\ wpc' \in {"fetching", "backoff", "notifying", "apologizing", "stopped"}
  PROVE  Disk'
<1>1. j # None
  BY WaiterAssumption
<1>2. \A i \in dirs' : \/ i \in dirs /\ i # j
                       \/ i = j /\ wjob' = j /\ wpc' \in {"fetching", "backoff", "notifying"}
  BY DEF WorkDir, Disk, DirsOwned
<1>3. DirsOwned'
  BY <1>1, <1>2 DEF Disk, DirsOwned
<1>4. threads' \subseteq Calls /\ dirs' \subseteq Calls
  BY <1>2 DEF Disk
<1>5. \A i \in threads' : GivenUp(i)' \/ (wjob' = i /\ wpc' \in {"fetching", "stopped"})
  BY <1>1 DEF Disk, GivenUp
<1> QED
  BY <1>1, <1>3, <1>4, <1>5 DEF Disk

LEMMA MarkCode ==
  ASSUME RTyped, NEW j \in Calls, status[j] # "absent", NEW err \in ErrorCode, MarkFailed(j, err)
  PROVE  /\ status'[j] = "failed" /\ code'[j] = err
         /\ \A i \in Calls : i # j => status'[i] = status[i] /\ code'[i] = code[i]
BY DEF MarkFailed, Known, RTyped

LEMMA MarkPresent ==
  ASSUME RTyped, NEW j \in Calls, status[j] # "absent", Marks(j)
  PROVE  /\ status'[j] # "absent"
         /\ \A i \in Calls : i # j => status'[i] = status[i] /\ code'[i] = code[i]
BY DEF Marks, MarkSucceeded, MarkCanceled, MarkFailed, Known, RTyped

LEMMA CallerDisk ==
  ASSUME Disk, RInv, NEW c \in Calls, CallerNext(c)
  PROVE  Disk'
<1> USE DEF RInv, RTyped
<1>1. UNCHANGED <<dirs, threads, wpc, wjob>>
  BY DEF CallerNext, CallSubmit, CallSubscribe, CallEnqueue, CallCancel, CallCancelJob, workerVars
<1>2. \A i \in Calls : stage[i] = "gone" => stage'[i] = "gone"
  BY DEF CallerNext, CallSubmit, CallSubscribe, CallEnqueue, CallCancel, CallCancelJob, callerVars,
         Reach
<1>3. \/ UNCHANGED <<status, code>>
      \/ status[c] = "absent" /\ status' = [status EXCEPT ![c] = "queued"] /\ code' = code
      \/ \E i \in Calls : /\ status[i] \in ActiveStatus
                          /\ status' = [status EXCEPT ![i] = "canceled"] /\ code' = code
  BY DEF CallerNext, CallSubmit, SubmitNew, SubmitJoin, CallSubscribe, CallEnqueue, CallCancel,
         CallCancelJob, MarkCanceled, Known, serviceVars, recordVars, Unborn
<1>4. /\ \A i \in Calls : status[i] \notin ActiveStatus \union {"absent"} =>
           status'[i] = status[i] /\ code'[i] = code[i]
      /\ \A i \in Calls : status[i] # "absent" => status'[i] # "absent"
  BY <1>3
<1> QED
  BY <1>1, <1>2, <1>4, IdleDisk

LEMMA ReadDisk ==
  ASSUME Disk, RInv, NEW j \in Calls, ReadEntry(j)
  PROVE  Disk'
<1> USE DEF RInv
<1>1. UNCHANGED stage /\ wpc = "idle" /\ wjob = None /\ WorkDir /\ j # None
  BY WaiterAssumption
  DEF ReadEntry, Handle, HandleSkip, HandleUnsupported, HandleCacheHit, HandleMiss, HandleError,
      callerVars, Receive, JobHeld
<1>2. CASE HandleSkip(j)
  <2>1. UNCHANGED <<status, code, threads, wpc, wjob>>
    BY <1>2 DEF HandleSkip, serviceVars, recordVars, workerVars
  <2>2. dirs' = dirs
    BY <1>1, <2>1, WaiterAssumption DEF WorkDir, Disk
  <2> QED
    BY <1>1, <2>1, <2>2, IdleDisk
<1>3. CASE ~HandleSkip(j)
  <2>1. /\ status[j] \in ActiveStatus /\ wjob' = j
        /\ \/ Marks(j) /\ wpc' \in {"notifying", "apologizing"} /\ threads' = threads
           \/ MarkRunning(j) /\ wpc' = "fetching" /\ threads' = threads \union {j}
    BY <1>3 DEF ReadEntry, Handle, HandleUnsupported, HandleCacheHit, HandleMiss, HandleError,
                GoTo, Marks, ErrorCode, StartThread
  <2>2. status[j] # "absent" /\ ~GivenUp(j) /\ stage[j] # "gone"
    BY <2>1 DEF ActiveStatus, GivenUp, Unborn
  <2>3. /\ status'[j] # "absent"
        /\ \A i \in Calls : i # j => status'[i] = status[i] /\ code'[i] = code[i]
    BY <2>1, <2>2, MarkPresent DEF MarkRunning, RTyped, Known
  <2>4. j \notin threads /\ j \notin dirs
    BY <1>1, <2>2 DEF Disk, DirsOwned, GivenUp
  <2>5. dirs' \subseteq dirs \union {j} /\ (j \in dirs' => wpc' = "fetching")
    BY <1>1, <2>1, <2>4 DEF WorkDir
  <2>6. DirsOwned'
    BY <1>1, <2>1, <2>3, <2>5, WaiterAssumption DEF Disk, DirsOwned
  <2>7. /\ threads' \subseteq Calls /\ dirs' \subseteq Calls
        /\ \A i \in threads' : GivenUp(i)' \/ (wjob' = i /\ wpc' \in {"fetching", "stopped"})
    BY <1>1, <2>1, <2>3, <2>4, <2>5, WaiterAssumption DEF Disk, GivenUp
  <2> QED
    BY <2>1, <2>3, <2>6, <2>7 DEF Disk
<1> QED
  BY <1>2, <1>3

LEMMA WorkDisk ==
  ASSUME Disk, RInv, NEW j \in Calls, Work(j)
  PROVE  Disk'
<1> USE DEF RInv
<1>1. UNCHANGED stage /\ wjob = j /\ WorkDir /\ j # None
  BY WaiterAssumption
  DEF Work, Fetch, DownloadOk, DownloadFatal, DownloadTransient, DownloadTransientAgain,
      DownloadTimeout, DownloadError, BackoffEnds, Notify, NotifyOk, ApologyOk, NotifyFail,
      callerVars
<1>2. status[j] # "absent"
  BY <1>1 DEF Disk
<1>3. CASE \/ DownloadOk(j) \/ DownloadFatal(j) \/ DownloadTransientAgain(j) \/ DownloadError(j)
  <2>1. /\ Marks(j) /\ wjob' = j /\ wpc' \in {"notifying", "apologizing"}
        /\ threads' = threads \ {j}
    BY <1>3 DEF DownloadOk, DownloadFatal, DownloadTransientAgain, DownloadError, GoTo, Marks,
                ErrorCode, EndThread
  <2>2. /\ status'[j] # "absent"
        /\ \A i \in Calls : i # j => status'[i] = status[i] /\ code'[i] = code[i]
    BY <1>2, <2>1, MarkPresent
  <2> QED
    BY <1>1, <2>1, <2>2, HandDisk
<1>4. CASE DownloadTimeout(j) \/ NotifyFail(j)
  <2>1. /\ \E err \in {"TIMEOUT", "INTERNAL"} : err \in ErrorCode /\ MarkFailed(j, err)
        /\ wjob' = j /\ wpc' \in {"notifying", "apologizing"} /\ threads' = threads
    BY <1>4 DEF DownloadTimeout, NotifyFail, GoTo, ErrorCode
  <2>2. /\ GivenUp(j)' /\ status'[j] # "absent"
        /\ \A i \in Calls : i # j => status'[i] = status[i] /\ code'[i] = code[i]
    BY <1>2, <2>1, MarkCode DEF GivenUp
  <2> QED
    BY <1>1, <2>1, <2>2, HandDisk
<1>5. CASE DownloadTransient(j) \/ BackoffEnds(j)
  <2>1. /\ UNCHANGED <<status, code>> /\ wjob' = j
        /\ \/ wpc' = "backoff" /\ threads' = threads \ {j}
           \/ wpc' = "fetching" /\ threads' = threads \union {j}
    BY <1>5 DEF DownloadTransient, BackoffEnds, GoTo, serviceVars, recordVars, StartThread,
                EndThread
  <2> QED
    BY <1>1, <1>2, <2>1, HandDisk
<1>6. CASE Notify(j)
  <2>1. /\ UNCHANGED <<status, code, threads>> /\ wjob' = None /\ wpc' = "idle"
        /\ wpc \in {"notifying", "apologizing"}
    BY <1>6 DEF Notify, NotifyOk, ApologyOk, BecomeIdle, GoTo, serviceVars, recordVars
  <2>2. j \in threads => GivenUp(j)'
    BY <2>1 DEF Disk, GivenUp
  <2> QED
    BY <1>1, <2>1, <2>2, HandDisk
<1> QED
  BY <1>3, <1>4, <1>5, <1>6 DEF Work, Fetch

LEMMA RestartDisk ==
  ASSUME Disk, RInv, Restart
  PROVE  Disk'
<1> USE DEF RInv
<1>1. /\ wjob' = None /\ threads' = {} /\ dirs' = dirs
      /\ \A i \in Calls : stage[i] # "new" => stage'[i] = "gone"
  BY DEF Restart
<1>2. \A i \in dirs : stage[i] # "new"
  BY DEF Disk, DirsOwned, Unborn
<1> QED
  BY <1>1, <1>2 DEF Disk, DirsOwned

LEMMA StepDisk == Disk /\ RInv /\ [Next \/ PeerReads]_vars => Disk'
<1> SUFFICES ASSUME Disk, RInv, [Next \/ PeerReads]_vars PROVE Disk'
  OBVIOUS
<1>1. ASSUME NEW j \in Calls, ApologyLogged(j) PROVE Disk'
  <2>1. /\ wjob = j /\ wpc = "apologizing" /\ wjob' = None /\ wpc' = "idle" /\ WorkDir
        /\ UNCHANGED <<status, code, threads, stage>>
    BY <1>1 DEF ApologyLogged, BecomeIdle, GoTo, serviceVars, recordVars, callerVars
  <2>2. j \in threads => GivenUp(j)'
    BY <2>1 DEF Disk, GivenUp
  <2> QED
    BY <2>1, <2>2, HandDisk
<1>2. ASSUME NEW j \in Calls, AbandonedThreadStep(j) PROVE Disk'
  <2>1. UNCHANGED <<status, code, stage, wpc, wjob>>
    BY <1>2 DEF AbandonedThreadStep, ThreadEnds, ThreadRecreates, serviceVars, recordVars,
                workerVars, callerVars
  <2>2. CASE threads' = threads \ {j} /\ dirs' = dirs
    BY <2>1, <2>2, IdleDisk
  <2>3. CASE ThreadRecreates(j)
    <3>1. /\ j \in threads /\ threads' = threads /\ dirs' = dirs \union {j}
          /\ wjob # j \/ wpc = "stopped"
      BY <2>3 DEF ThreadRecreates, workerVars
    <3>2. GivenUp(j) \/ (wjob = j /\ wpc = "stopped")
      BY <3>1 DEF Disk
    <3> QED
      BY <2>1, <3>1, <3>2 DEF Disk, DirsOwned, GivenUp
  <2> QED
    BY <1>2, <2>2, <2>3 DEF AbandonedThreadStep, ThreadEnds, EndThread
<1>3. CASE Acknowledge \/ ReplyLost \/ ReadFails \/ PeerReads
  BY <1>3, IdleDisk DEF Acknowledge, ReplyLost, ReadFails, Reading, PeerReads, serviceVars,
                        recordVars, workerVars, callerVars
<1>4. CASE Stop
  <2>1. /\ wpc' = "stopped" /\ WorkDir
        /\ UNCHANGED <<wjob, stage, status, code, threads>>
    BY <1>4 DEF Stop, WorkerCancelled, serviceVars, recordVars, callerVars
  <2>2. CASE wjob = None
    BY <2>1, <2>2, WaiterAssumption DEF WorkDir, Disk, DirsOwned, GivenUp
  <2>3. CASE wjob # None
    BY <2>1, <2>3, HandDisk DEF RInv, RTyped, Disk
  <2> QED
    BY <2>2, <2>3
<1>5. CASE UNCHANGED vars
  BY <1>5, IdleDisk DEF vars, serviceVars, recordVars, workerVars, callerVars
<1> QED
  BY <1>1, <1>2, <1>3, <1>4, <1>5, CallerDisk, ReadDisk, WorkDisk, RestartDisk
  DEF Next, ConsumerNext

(* No work directory is left by a handler, only by a thread that was given *)
(* up or by an earlier process (temp_work_dir, handle).                    *)
THEOREM WorkDirsAreOwned == GroupSpec => []DirsOwned
<1>1. Init => Disk
  BY DEF Init, WorkerInit, DirsInit, Disk, DirsOwned
<1>2. Disk => DirsOwned
  BY DEF Disk
<1> QED
  BY <1>1, <1>2, StepDisk, RedisInvariance, PTL DEF GroupSpec

-----------------------------------------------------------------------------
(* The types of what the invariants above do not speak of                  *)

(* A job with a record has a key: its file goes to a place of the cache.   *)
Rest ==
  /\ dedupe \in [Calls -> Keys \union {None}]
  /\ \A j \in Calls : status[j] # "absent" => dedupe[j] \in Keys
  /\ producerClosed \in BOOLEAN
  /\ wpc \in WorkerPC /\ retried \in BOOLEAN
  /\ blobs \subseteq Keys
  /\ lost \subseteq Calls

(* Steps that give no job a record.                                        *)
LEMMA OtherRest ==
  ASSUME Rest, UNCHANGED <<dedupe, producerClosed>>,
         \A j \in Calls : status[j] = "absent" => status'[j] = "absent",
         wpc' \in WorkerPC, retried' \in BOOLEAN, blobs' \subseteq Keys, lost' \subseteq Calls
  PROVE  Rest'
BY DEF Rest

LEMMA HandRest ==
  ASSUME Rest, RInv, Disk, NEW j \in Calls, ReadEntry(j) \/ Work(j) \/ ApologyLogged(j)
  PROVE  Rest'
<1>1. CASE ApologyLogged(j)
  BY <1>1, OtherRest DEF ApologyLogged, BecomeIdle, GoTo, WorkerPC, Rest, serviceVars, recordVars,
                         queueVars
<1>2. CASE ReadEntry(j)
  <2>1. CASE HandleSkip(j)
    BY <1>2, <2>1, OtherRest DEF ReadEntry, HandleSkip, Receive, Take, Rest, serviceVars,
                                 recordVars, workerVars
  <2>2. CASE HandleMiss(j)
    BY <1>2, <2>2, OtherRest DEF ReadEntry, HandleMiss, Receive, Take, MarkRunning, Known, GoTo,
                                 WorkerPC, Rest, RInv, RTyped
  <2>3. CASE HandleUnsupported(j) \/ HandleCacheHit(j) \/ HandleError(j)
    <3>1. Marks(j) /\ UNCHANGED <<dedupe, producerClosed, retried, blobs, lost>>
      BY <1>2, <2>3 DEF ReadEntry, HandleUnsupported, HandleCacheHit, HandleError, Receive, Take,
                        Marks, MarkSucceeded, MarkFailed, ErrorCode, serviceVars, recordVars
    <3>2. wpc' \in WorkerPC
      BY <2>3 DEF HandleUnsupported, HandleCacheHit, HandleError, GoTo, WorkerPC
    <3> QED
      BY <3>1, <3>2, OtherRest, MarkEffect DEF Rest, RInv
  <2> QED
    BY <1>2, <2>1, <2>2, <2>3 DEF ReadEntry, Handle
<1>3. CASE Work(j)
  <2>1. UNCHANGED <<producerClosed, lost>> /\ wjob = j
    BY <1>3 DEF Work, Fetch, DownloadOk, DownloadFatal, DownloadTransient, DownloadTransientAgain,
                DownloadTimeout, DownloadError, BackoffEnds, Notify, NotifyOk, ApologyOk,
                NotifyFail, queueVars, streamVars
  <2>2. wpc' \in WorkerPC /\ retried' \in BOOLEAN
    BY <1>3
    DEF Work, Fetch, DownloadOk, DownloadFatal, DownloadTransient, DownloadTransientAgain,
        DownloadTimeout, DownloadError, BackoffEnds, Notify, NotifyOk, ApologyOk, NotifyFail,
        BecomeIdle, GoTo, WorkerPC, Rest
  <2>3. blobs' \in {blobs, blobs \union {Blob(j)}}
    BY <1>3
    DEF Work, Fetch, DownloadOk, DownloadFatal, DownloadTransient, DownloadTransientAgain,
        DownloadTimeout, DownloadError, BackoffEnds, Notify, NotifyOk, ApologyOk, NotifyFail
  <2>4. blobs' \subseteq Keys
    <3>1. status[j] # "absent"
      BY <2>1, WaiterAssumption DEF Disk
    <3>2. Blob(j) \in Keys
      BY <3>1, WorkerAssumption DEF Blob, Rest
    <3> QED
      BY <2>3, <3>2 DEF Rest
  <2>5. UNCHANGED recordVars \/ (Marks(j) /\ dedupe' = dedupe)
    BY <1>3
    DEF Work, Fetch, DownloadOk, DownloadFatal, DownloadTransient, DownloadTransientAgain,
        DownloadTimeout, DownloadError, BackoffEnds, Notify, NotifyOk, ApologyOk, NotifyFail,
        Marks, MarkSucceeded, MarkFailed, ErrorCode, serviceVars, recordVars
  <2>6. dedupe' = dedupe /\ \A i \in Calls : status[i] = "absent" => status'[i] = "absent"
    BY <2>5, MarkEffect DEF recordVars, RInv
  <2> QED
    BY <2>1, <2>2, <2>4, <2>6, OtherRest DEF Rest
<1> QED
  BY <1>1, <1>2, <1>3

LEMMA StepRest == Rest /\ RInv /\ Disk /\ [Next \/ PeerReads]_vars => Rest'
<1> SUFFICES ASSUME Rest, RInv, Disk, [Next \/ PeerReads]_vars PROVE Rest'
  OBVIOUS
<1>1. ASSUME NEW c \in Calls, CallSubmit(c) PROVE Rest'
  <2>1. /\ \/ UNCHANGED <<status, dedupe>>
           \/ \E k \in Keys : /\ status' = [status EXCEPT ![c] = "queued"]
                              /\ dedupe' = [dedupe EXCEPT ![c] = k]
        /\ UNCHANGED <<producerClosed, wpc, retried, blobs, lost>>
    BY <1>1 DEF CallSubmit, SubmitNew, SubmitJoin, recordVars, queueVars, workerVars, streamVars
  <2>2. CASE UNCHANGED <<status, dedupe>>
    BY <2>1, <2>2, OtherRest DEF Rest
  <2>3. ASSUME NEW k \in Keys, status' = [status EXCEPT ![c] = "queued"],
               dedupe' = [dedupe EXCEPT ![c] = k]
        PROVE  Rest'
    <3>1. \A j \in Calls : j # c => status'[j] = status[j] /\ dedupe'[j] = dedupe[j]
      BY <2>3
    <3>2. dedupe' \in [Calls -> Keys \union {None}] /\ dedupe'[c] \in Keys
      BY <2>3 DEF Rest
    <3> QED
      BY <2>1, <3>1, <3>2 DEF Rest
  <2> QED
    BY <2>1, <2>2, <2>3
<1>2. ASSUME NEW c \in Calls, CallSubscribe(c) \/ CallCancel(c) \/ CallEnqueue(c) PROVE Rest'
  BY <1>2, OtherRest DEF CallSubscribe, CallCancel, CallEnqueue, Add, AddTwice, Rest, serviceVars,
                         recordVars, queueVars, workerVars, streamVars
<1>3. ASSUME NEW j \in Calls, CallCancelJob(j) PROVE Rest'
  <2>1. Marks(j) /\ UNCHANGED <<dedupe, producerClosed, wpc, retried, blobs, lost>>
    BY <1>3 DEF CallCancelJob, Marks, MarkCanceled, serviceVars, recordVars, queueVars, workerVars,
                streamVars
  <2> QED
    BY <2>1, OtherRest, MarkEffect DEF Rest, RInv
<1>4. ASSUME NEW j \in Calls, AbandonedThreadStep(j) PROVE Rest'
  BY <1>4, OtherRest DEF AbandonedThreadStep, ThreadEnds, ThreadRecreates, Rest, serviceVars,
                         recordVars, queueVars, workerVars, streamVars
<1>5. CASE Acknowledge \/ ReadFails \/ Stop \/ PeerReads
  BY <1>5, OtherRest DEF Acknowledge, ReadFails, PeerReads, Stop, WorkerCancelled, WorkerPC, Rest,
                         serviceVars, recordVars, queueVars, workerVars, streamVars
<1>6. CASE ReplyLost
  <2>1. Head(queue) \in Calls
    BY <1>6 DEF ReplyLost, RInv, RTyped
  <2> QED
    BY <1>6, <2>1, OtherRest DEF ReplyLost, Rest, serviceVars, recordVars, workerVars
<1>7. CASE Restart
  BY <1>7 DEF Restart, Rest, WorkerPC, queueVars
<1>8. CASE UNCHANGED vars
  BY <1>8, OtherRest DEF vars, Rest, serviceVars, recordVars, queueVars, workerVars, streamVars
<1> QED
  BY <1>1, <1>2, <1>3, <1>4, <1>5, <1>6, <1>7, <1>8, HandRest DEF Next, CallerNext, ConsumerNext

(* Every record, future, entry, thread, directory and file is one of a     *)
(* call or a key that exists, through restarts and lost replies: no status *)
(* or error code outside the contract is ever written.                     *)
THEOREM RedisTypes == GroupSpec => []TypeOK
<1>1. Init => Disk
  BY DEF Init, WorkerInit, DirsInit, Disk, DirsOwned
<1>2. Init => Rest
  BY DEF Init, ServiceInit, QueueInit, WorkerInit, Rest, WorkerPC
<1>3. RInv /\ Memory /\ Disk /\ Rest => TypeOK
  BY DEF RInv, RTyped, Memory, Disk, Rest, TypeOK, ServiceTypeOK, WaiterTypeOK, QueueTypeOK,
         WorkerTypeOK
<1> QED
  BY <1>1, <1>2, <1>3, RedisInvariance, MemoryInvariance, StepDisk, StepRest, PTL DEF GroupSpec

-----------------------------------------------------------------------------
(* RedisWorker implements DurableLedger                                    *)

(* Who holds a future holds that of a call with the same job; a future     *)
(* that is registered is that job's, and not done; what is remembered is   *)
(* settled.                                                                *)
Shared ==
  \A c \in Calls :
    /\ asked[c] = None <=> stage[c] \in {"new", "gone"}
    /\ holds[c] # None =>
         /\ asked[c] # None
         /\ asked[holds[c]] = asked[c] /\ holds[holds[c]] = holds[c]
    /\ futures[c] # None =>
         /\ asked[futures[c]] = c /\ holds[futures[c]] = futures[c]
         /\ futState[futures[c]] \in {"pending", "cancelled"}
    /\ c \in Remembered => status[c] \in TerminalStatus

(* What the record of the job in hand says.                                *)
Speaks ==
  \A j \in Calls : wjob = j =>
    /\ wpc \in {"fetching", "backoff"} => status[j] \in {"running", "canceled"}
    /\ wpc = "notifying" => status[j] \in {"succeeded", "failed"}
    /\ wpc = "apologizing" => status[j] = "failed"

View == Durable!ledgerVars

(* What a step does to records, seen from the ledger.                      *)
SameOpen == \A i \in Calls :
  status'[i] = status[i] \/ (status[i] \in ActiveStatus /\ status'[i] \in ActiveStatus)

LEMMA SameRecords ==
  ASSUME SameOpen, dedupe' = dedupe
  PROVE  /\ [k \in Keys |-> ActiveFor(k)]' = [k \in Keys |-> ActiveFor(k)]
         /\ [j \in Calls |-> VerdictOf(j)]' = [j \in Calls |-> VerdictOf(j)]
<1>1. \A k \in Keys : ActiveFor(k)' = ActiveFor(k)
  BY DEF SameOpen, ActiveFor
<1>2. \A j \in Calls : VerdictOf(j)' = VerdictOf(j)
  BY DEF SameOpen, VerdictOf, ActiveStatus
<1> QED
  BY <1>1, <1>2

(* Steps that touch no future and settle nothing.                          *)
LEMMA UnseenStep ==
  ASSUME RInv, Shared, SameOpen, UNCHANGED <<dedupe, inbox, futures, futState, terminal, holds, asked>>,
         \A c \in Calls : /\ stage'[c] = "new" <=> stage[c] = "new"
                          /\ stage'[c] = "gone" <=> stage[c] = "gone"
  PROVE  Shared' /\ UNCHANGED View
<1>1. Answered' = Answered /\ {c \in Calls : stage[c] = "gone"}' = {c \in Calls : stage[c] = "gone"}
  BY DEF Answered
<1>2. UNCHANGED View
  BY <1>1, SameRecords DEF View, Durable!ledgerVars
<1>3. Remembered' = Remembered
  BY DEF Remembered
<1>4. \A j \in Calls : j \in Remembered' => status'[j] \in TerminalStatus
  BY <1>3 DEF Shared, SameOpen, ActiveStatus, TerminalStatus
<1> QED
  BY <1>2, <1>4 DEF Shared

(* A record gets a verdict, and the waiter is told.                        *)
Publishes(j, v) ==
  /\ v \in TerminalStatus
  /\ status' = [status EXCEPT ![j] = v]
  /\ PublishTerminal(j)
  /\ UNCHANGED <<dedupe, asked, stage>>

LEMMA PublishStep ==
  ASSUME RInv, Memory, Shared, NEW j \in Calls, NEW v, Publishes(j, v)
  PROVE  /\ Shared' /\ Durable!Wakes(j)
         /\ UNCHANGED <<asked, {c \in Calls : stage[c] = "gone"}>>
<1> USE DEF RInv, RTyped, Publishes
<1>1. /\ futures' = [futures EXCEPT ![j] = None] /\ holds' = holds
      /\ \A f \in Calls : \/ futState'[f] = futState[f]
                          \/ f = futures[j] /\ futState[f] = "pending" /\ futState'[f] = "result"
  BY DEF PublishTerminal
<1>2. Remembered' \subseteq Remembered \union {j}
  BY RememberEffect DEF Memory, PublishTerminal
<1>3. ASSUME NEW i \in Calls, futures'[i] # None
      PROVE  /\ asked[futures'[i]] = i /\ holds[futures'[i]] = futures'[i]
             /\ futState'[futures'[i]] \in {"pending", "cancelled"}
  <2>1. i # j /\ futures'[i] = futures[i] /\ futures[i] \in Calls
    BY <1>1, <1>3
  <2>2. asked[futures[i]] = i /\ (futures[j] # None => asked[futures[j]] = j)
    BY <1>3, <2>1 DEF Shared
  <2>3. futState'[futures[i]] = futState[futures[i]]
    BY <1>1, <2>1, <2>2, WaiterAssumption
  <2> QED
    BY <1>3, <2>1, <2>3 DEF Shared
<1>4. ASSUME NEW i \in Calls, i \in Remembered' PROVE status'[i] \in TerminalStatus
  BY <1>2, <1>4 DEF Shared
<1>5. Shared'
  BY <1>1, <1>3, <1>4 DEF Shared
<1>6. Answered \subseteq Answered'
  BY <1>1 DEF Answered
<1>7. ASSUME NEW c \in Answered', c \notin Answered PROVE asked[c] = j
  <2>1. c \in Calls /\ holds[c] # None /\ futState'[holds[c]] = "result" /\ holds[c] \in Calls
    BY <1>1, <1>7 DEF Answered
  <2>2. holds[c] = futures[j]
    BY <1>1, <1>7, <2>1 DEF Answered
  <2> QED
    BY <2>1, <2>2 DEF Shared
<1>8. Durable!Wakes(j)
  BY <1>6, <1>7 DEF Durable!Wakes
<1> QED
  BY <1>5, <1>8

LEMMA VerdictSeen ==
  ASSUME RInv, NEW j \in Calls, NEW v, Publishes(j, v)
  PROVE  [i \in Calls |-> VerdictOf(i)]' = [[i \in Calls |-> VerdictOf(i)] EXCEPT ![j] = v]
<1>1. VerdictOf(j)' = v /\ \A i \in Calls : i # j => VerdictOf(i)' = VerdictOf(i)
  BY DEF RInv, RTyped, Publishes, VerdictOf, ActiveStatus, TerminalStatus
<1> QED
  BY <1>1

LEMMA SettleSeen ==
  ASSUME RInv, Memory, Shared, NEW j \in Calls, NEW v, Publishes(j, v),
         status[j] \in ActiveStatus, inbox' = inbox
  PROVE  Shared' /\ Durable!Next
<1>1. /\ Shared' /\ Durable!Wakes(j)
      /\ UNCHANGED <<asked, {c \in Calls : stage[c] = "gone"}>>
  BY PublishStep
<1>2. [i \in Calls |-> VerdictOf(i)]' = [[i \in Calls |-> VerdictOf(i)] EXCEPT ![j] = v]
  BY VerdictSeen
<1>3. VerdictOf(j) = "open"
  BY DEF VerdictOf, ActiveStatus
<1>4. \A k \in Keys : ActiveFor(k)' = ActiveFor(k) \ {j}
  BY DEF RInv, RTyped, Publishes, ActiveFor, ActiveStatus, TerminalStatus
<1>5. [k \in Keys |-> ActiveFor(k)]' = [k \in Keys |-> [l \in Keys |-> ActiveFor(l)][k] \ {j}]
  BY <1>4
<1>6. Durable!Settle(j, v)
  BY <1>1, <1>2, <1>3, <1>5 DEF Durable!Settle
<1>7. v \in Durable!Verdicts
  BY DEF Publishes, TerminalStatus, Durable!Verdicts
<1> QED
  BY <1>1, <1>6, <1>7 DEF Durable!Next

LEMMA OverruleSeen ==
  ASSUME RInv, Memory, Shared, NEW j \in Calls, NEW v, Publishes(j, v),
         <<status[j], v>> \in Durable!Overruled, Durable!Tells(j) \/ inbox' = inbox
  PROVE  Shared' /\ Durable!Next
<1>1. /\ Shared' /\ Durable!Wakes(j)
      /\ UNCHANGED <<asked, {c \in Calls : stage[c] = "gone"}>>
  BY PublishStep
<1>2. [i \in Calls |-> VerdictOf(i)]' = [[i \in Calls |-> VerdictOf(i)] EXCEPT ![j] = v]
  BY VerdictSeen
<1>3. status[j] \in {"canceled", "succeeded", "failed"}
  BY DEF Durable!Overruled
<1>4. VerdictOf(j) = status[j]
  BY <1>3 DEF VerdictOf, ActiveStatus
<1>5. \A k \in Keys : ActiveFor(k)' = ActiveFor(k)
  BY <1>3 DEF RInv, RTyped, Publishes, ActiveFor, ActiveStatus, TerminalStatus
<1>6. Durable!Overrule(j, v)
  BY <1>1, <1>2, <1>4, <1>5 DEF Durable!Overrule
<1>7. v \in Durable!Verdicts
  BY DEF Publishes, TerminalStatus, Durable!Verdicts
<1> QED
  BY <1>1, <1>6, <1>7 DEF Durable!Next

(* What the notifier sends is the verdict the ledger knows.                *)
LEMMA TellsVerdict ==
  ASSUME RInv, Mail, Speaks, NEW j \in Calls, wjob = j, wpc \in {"notifying", "apologizing"},
         Deliver(j)
  PROVE  Durable!Tells(j)
<1>1. /\ status[j] \in {"succeeded", "failed"}
      /\ wpc = "apologizing" => status[j] = "failed"
  BY DEF Speaks
<1>2. VerdictOf(j) = status[j]
  BY <1>1 DEF VerdictOf, ActiveStatus
<1>3. inbox[j] = <<>> \/ (status[j] = "failed" /\ Len(inbox[j]) = 1)
  <2>1. Len(<<"file">>) = 1 /\ Len(<<"failure">>) = 1
    OBVIOUS
  <2> QED
    BY <1>1, <2>1 DEF Mail, Untold, Apologizes, AtMostOne
<1> QED
  BY <1>1, <1>2, <1>3 DEF Durable!Tells, Deliver, Verdict

LEMMA TellSeen ==
  ASSUME RInv, Mail, Speaks, Shared, NEW j \in Calls, wjob = j, wpc \in {"notifying", "apologizing"},
         MaybeDeliver(j), UNCHANGED <<serviceVars, callerVars>>
  PROVE  Shared' /\ [Durable!Next]_View
<1>1. /\ UNCHANGED <<status, dedupe, futures, futState, terminal, holds, stage, asked>>
      /\ SameOpen
  BY DEF serviceVars, recordVars, waiterVars, callerVars, SameOpen
<1>2. CASE inbox' = inbox
  BY <1>1, <1>2, UnseenStep
<1>3. CASE Deliver(j)
  <2>1. Durable!Tell(j)
    BY <1>1, <1>3, TellsVerdict, SameRecords DEF Durable!Tell, Answered
  <2>2. Shared'
    BY <1>1 DEF Shared, Remembered
  <2> QED
    BY <2>1, <2>2 DEF Durable!Next
<1> QED
  BY <1>2, <1>3 DEF MaybeDeliver

-----------------------------------------------------------------------------
(* The steps of the callers                                                *)

LEMMA SubmitSeen ==
  ASSUME RInv, Shared, Rest, NEW c \in Calls, CallSubmit(c)
  PROVE  Shared' /\ Durable!Next
<1> USE DEF RInv, RTyped
<1>1. /\ stage[c] = "new" /\ stage' = [stage EXCEPT ![c] = "asked"] /\ asked[c] = None
      /\ status[c] = "absent" /\ holds[c] = None
      /\ UNCHANGED <<futures, futState, terminal, holds, inbox>>
  BY DEF CallSubmit, Reach, waiterVars, workerVars, Unborn, Shared
<1>2. /\ Answered' = Answered
      /\ {d \in Calls : stage[d] = "gone"}' = {d \in Calls : stage[d] = "gone"}
      /\ c \notin {d \in Calls : stage[d] = "gone"}
  BY <1>1 DEF Answered
<1>3. futures[c] = None \/ holds[futures[c]] # None
  BY WaiterAssumption DEF Shared
<1>4. \A d \in Calls : d # c /\ futures[d] # None => futures[d] # c
  BY <1>1 DEF Shared
<1>5. ASSUME NEW j \in Calls, asked' = [asked EXCEPT ![c] = j],
             \A d \in Calls : d # c => status'[d] = status[d],
             c \in Remembered => status'[c] \in TerminalStatus
      PROVE  Shared'
  <2>1. Remembered' = Remembered
    BY <1>1 DEF Remembered
  <2>2. ASSUME NEW d \in Calls
        PROVE  /\ asked'[d] = None <=> stage'[d] \in {"new", "gone"}
               /\ d \in Remembered' => status'[d] \in TerminalStatus
    BY <1>1, <1>5, <2>1, WaiterAssumption DEF Shared
  <2>3. ASSUME NEW d \in Calls, holds'[d] # None
        PROVE  /\ asked'[d] # None
               /\ asked'[holds'[d]] = asked'[d] /\ holds'[holds'[d]] = holds'[d]
    <3>1. d # c /\ holds[d] # c /\ holds[d] \in Calls
      BY <1>1, <2>3 DEF Shared
    <3> QED
      BY <1>1, <1>5, <2>3, <3>1 DEF Shared
  <2>4. ASSUME NEW d \in Calls, futures'[d] # None
        PROVE  /\ asked'[futures'[d]] = d /\ holds'[futures'[d]] = futures'[d]
               /\ futState'[futures'[d]] \in {"pending", "cancelled"}
    <3>1. futures[d] # c /\ futures[d] \in Calls
      BY <1>1, <2>4 DEF Shared
    <3> QED
      BY <1>1, <1>5, <2>4, <3>1 DEF Shared
  <2> QED
    BY <2>2, <2>3, <2>4 DEF Shared
<1>6. c \notin Remembered
  BY <1>1 DEF Shared, TerminalStatus
<1>7. ASSUME NEW k \in Keys, SubmitNew(c, k), Learn(c, c) PROVE Shared' /\ Durable!Next
  <2>1. /\ status' = [status EXCEPT ![c] = "queued"] /\ dedupe' = [dedupe EXCEPT ![c] = k]
        /\ ActiveFor(k) = {} /\ asked' = [asked EXCEPT ![c] = c]
        /\ dedupe \in [Calls -> Keys \union {None}]
    BY <1>7 DEF SubmitNew, Learn, Rest
  <2>2. ActiveFor(k)' = {c}
    BY <2>1 DEF ActiveFor, ActiveStatus
  <2>3. \A l \in Keys : l # k => ActiveFor(l)' = ActiveFor(l)
    BY <1>1, <2>1 DEF ActiveFor, ActiveStatus
  <2>4. VerdictOf(c) = "none" /\ VerdictOf(c)' = "open"
    BY <1>1, <2>1 DEF VerdictOf, ActiveStatus
  <2>5. \A j \in Calls : j # c => VerdictOf(j)' = VerdictOf(j)
    BY <2>1 DEF VerdictOf
  <2>6. [l \in Keys |-> ActiveFor(l)]' = [[l \in Keys |-> ActiveFor(l)] EXCEPT ![k] = {c}]
    BY <2>2, <2>3
  <2>7. [j \in Calls |-> VerdictOf(j)]' = [[j \in Calls |-> VerdictOf(j)] EXCEPT ![c] = "open"]
    BY <2>4, <2>5
  <2>8. Durable!Open(c, k)
    BY <1>1, <1>2, <2>1, <2>4, <2>6, <2>7 DEF Durable!Open, Durable!Begins
  <2> QED
    BY <1>5, <1>6, <2>1, <2>8 DEF Durable!Next
<1>8. ASSUME NEW k \in Keys, NEW j \in Calls, SubmitJoin(k, j), Learn(c, j)
      PROVE  Shared' /\ Durable!Next
  <2>1. j \in ActiveFor(k) /\ asked' = [asked EXCEPT ![c] = j] /\ UNCHANGED <<status, dedupe>>
    BY <1>8 DEF SubmitJoin, Learn, recordVars
  <2>2. /\ [l \in Keys |-> ActiveFor(l)]' = [l \in Keys |-> ActiveFor(l)]
        /\ [i \in Calls |-> VerdictOf(i)]' = [i \in Calls |-> VerdictOf(i)]
    BY <2>1, SameRecords DEF SameOpen
  <2>3. Durable!Join(c, k)
    BY <1>1, <1>2, <2>1, <2>2 DEF Durable!Join, Durable!Begins
  <2> QED
    BY <1>5, <1>6, <2>1, <2>3 DEF Durable!Next
<1> QED
  BY <1>7, <1>8 DEF CallSubmit

(* subscribe answers at once when the job is settled, and registers a      *)
(* future that is not done otherwise.                                      *)
LEMMA SubscribeSeen ==
  ASSUME RInv, Shared, NEW c \in Calls, CallSubscribe(c)
  PROVE  Shared' /\ [Durable!Next]_View
<1> DEFINE j == asked[c]
<1> USE DEF RInv, RTyped
<1>1. /\ UNCHANGED <<status, dedupe, inbox, stage, asked, terminal>>
      /\ stage[c] \in {"asked", "sent"} /\ holds[c] = None /\ j \in Calls
      /\ \E snapshot \in {status[j], "queued"} : Subscribe(c, j, snapshot)
  BY DEF CallSubscribe, Subscribe, Unborn, recordVars, queueVars, workerVars, streamVars,
         callerVars
<1>2. /\ [k \in Keys |-> ActiveFor(k)]' = [k \in Keys |-> ActiveFor(k)]
      /\ [i \in Calls |-> VerdictOf(i)]' = [i \in Calls |-> VerdictOf(i)]
      /\ {d \in Calls : stage[d] = "gone"}' = {d \in Calls : stage[d] = "gone"}
      /\ Remembered' = Remembered
  BY <1>1, SameRecords DEF SameOpen, Remembered
<1>3. /\ \A d \in Calls : holds[d] # c
      /\ \A d \in Calls : futures[d] # c
  <2>1. holds[c] # c /\ c # None
    BY <1>1, WaiterAssumption
  <2>2. ASSUME NEW d \in Calls, holds[d] = c PROVE FALSE
    BY <2>1, <2>2 DEF Shared
  <2>3. ASSUME NEW d \in Calls, futures[d] = c PROVE FALSE
    BY <2>1, <2>3 DEF Shared
  <2> QED
    BY <2>2, <2>3
<1> HIDE DEF j
<1>4. CASE /\ status[j] \in TerminalStatus
           /\ futState' = [futState EXCEPT ![c] = "result"]
           /\ holds' = [holds EXCEPT ![c] = c] /\ futures' = futures
  <2>1. Answered' = Answered \union {c}
    BY <1>1, <1>3, <1>4, WaiterAssumption DEF Answered
  <2>2. VerdictOf(j) \in Durable!Verdicts
    BY <1>4 DEF VerdictOf, ActiveStatus, TerminalStatus, Durable!Verdicts
  <2>3. Durable!Answer(c)
    BY <1>1, <1>2, <2>1, <2>2, WaiterAssumption DEF Durable!Answer, j
  <2>4. \A d \in Calls : d # c => holds'[d] = holds[d] /\ futState'[d] = futState[d]
    BY <1>4
  <2>5. holds'[c] = c /\ asked[c] # None
    BY <1>1, <1>4, WaiterAssumption DEF j
  <2>6. Shared'
    BY <1>1, <1>2, <1>3, <1>4, <2>4, <2>5 DEF Shared
  <2> QED
    BY <2>3, <2>6 DEF Durable!Next
<1>5. CASE /\ futures[j] = None
           /\ futState' = [futState EXCEPT ![c] = "pending"]
           /\ holds' = [holds EXCEPT ![c] = c] /\ futures' = [futures EXCEPT ![j] = c]
  <2>1. \A d \in Calls : d # c => holds'[d] = holds[d] /\ futState'[d] = futState[d]
    BY <1>5
  <2>2. holds'[c] = c /\ asked[c] = j /\ j # None /\ futState'[c] = "pending" /\ futures'[j] = c
    BY <1>1, <1>5, WaiterAssumption DEF j
  <2>3. Answered' = Answered
    <3>1. c \notin Answered /\ c \notin Answered'
      BY <1>1, <2>2 DEF Answered
    <3>2. ASSUME NEW d \in Calls, d # c PROVE d \in Answered' <=> d \in Answered
      <4>1. holds'[d] = holds[d] /\ holds[d] # c /\ holds[d] \in Calls \union {None}
        BY <1>3, <2>1, <3>2
      <4> QED
        BY <2>1, <4>1 DEF Answered
    <3> QED
      BY <3>1, <3>2 DEF Answered
  <2>4. \A d \in Calls : d # j => futures'[d] = futures[d]
    BY <1>5
  <2>5. Shared'
    <3>1. ASSUME NEW d \in Calls, holds'[d] # None
          PROVE  /\ asked'[d] # None
                 /\ asked'[holds'[d]] = asked'[d] /\ holds'[holds'[d]] = holds'[d]
      <4>1. CASE d = c
        BY <1>1, <2>2, <4>1
      <4>2. CASE d # c
        BY <1>1, <1>3, <2>1, <3>1, <4>2 DEF Shared
      <4> QED
        BY <4>1, <4>2
    <3>2. ASSUME NEW d \in Calls, futures'[d] # None
          PROVE  /\ asked'[futures'[d]] = d /\ holds'[futures'[d]] = futures'[d]
                 /\ futState'[futures'[d]] \in {"pending", "cancelled"}
      <4>1. CASE d = j
        BY <1>1, <2>2, <4>1
      <4>2. CASE d # j
        <5>1. futures'[d] = futures[d] /\ futures[d] \in Calls /\ futures[d] # c
          BY <1>1, <1>3, <2>4, <3>2, <4>2
        <5> QED
          BY <1>1, <2>1, <3>2, <5>1 DEF Shared
      <4> QED
        BY <4>1, <4>2
    <3> QED
      BY <1>1, <1>2, <3>1, <3>2 DEF Shared
  <2>6. UNCHANGED View
    BY <1>1, <1>2, <2>3 DEF View, Durable!ledgerVars
  <2> QED
    BY <2>5, <2>6
<1>6. CASE /\ futures[j] # None
           /\ holds' = [holds EXCEPT ![c] = futures[j]] /\ UNCHANGED <<futures, futState>>
  <2>1. /\ futures[j] \in Calls /\ asked[futures[j]] = j /\ holds[futures[j]] = futures[j]
        /\ futState[futures[j]] \in {"pending", "cancelled"} /\ futures[j] # c
    BY <1>1, <1>3, <1>6 DEF Shared
  <2>2. \A d \in Calls : d # c => holds'[d] = holds[d]
    BY <1>6
  <2>3. holds'[c] = futures[j] /\ asked[c] = j /\ j # None
    BY <1>1, <1>6, WaiterAssumption DEF j
  <2>4. Answered' = Answered
    BY <1>1, <1>6, <2>1, <2>2, <2>3 DEF Answered
  <2>5. Shared'
    <3>1. ASSUME NEW d \in Calls, holds'[d] # None
          PROVE  /\ asked'[d] # None
                 /\ asked'[holds'[d]] = asked'[d] /\ holds'[holds'[d]] = holds'[d]
      <4>1. CASE d = c
        BY <1>1, <2>1, <2>2, <2>3, <4>1
      <4>2. CASE d # c
        BY <1>1, <1>3, <2>2, <3>1, <4>2 DEF Shared
      <4> QED
        BY <4>1, <4>2
    <3>2. ASSUME NEW d \in Calls, futures'[d] # None
          PROVE  /\ asked'[futures'[d]] = d /\ holds'[futures'[d]] = futures'[d]
                 /\ futState'[futures'[d]] \in {"pending", "cancelled"}
      BY <1>1, <1>3, <1>6, <2>2, <3>2 DEF Shared
    <3> QED
      BY <1>1, <1>2, <3>1, <3>2 DEF Shared
  <2>6. UNCHANGED View
    BY <1>1, <1>2, <2>4 DEF View, Durable!ledgerVars
  <2> QED
    BY <2>5, <2>6
<1>7. j \in Remembered => status[j] \in TerminalStatus
  BY <1>1 DEF Shared
<1>8. "queued" \notin TerminalStatus
  BY DEF TerminalStatus
<1> QED
  BY <1>1, <1>4, <1>5, <1>6, <1>7, <1>8 DEF Subscribe

LEMMA CancelSeen ==
  ASSUME RInv, Shared, NEW f \in Calls, CallCancel(f)
  PROVE  Shared' /\ [Durable!Next]_View
<1> USE DEF RInv, RTyped
<1>1. /\ UNCHANGED <<status, dedupe, inbox, stage, asked, terminal, futures, holds>>
      /\ futState[f] = "pending" /\ futState' = [futState EXCEPT ![f] = "cancelled"]
  BY DEF CallCancel, CancelFuture, recordVars, workerVars, callerVars
<1>2. Answered' = Answered
  BY <1>1 DEF Answered
<1>3. UNCHANGED View
  BY <1>1, <1>2, SameRecords DEF SameOpen, View, Durable!ledgerVars
<1>4. Shared'
  <2>1. Remembered' = Remembered
    BY <1>1 DEF Remembered
  <2>2. \A g \in Calls : futState'[g] = futState[g] \/ futState'[g] = "cancelled"
    BY <1>1
  <2> QED
    BY <1>1, <2>1, <2>2 DEF Shared
<1> QED
  BY <1>3, <1>4

LEMMA CallerSeen ==
  ASSUME RInv, Memory, Shared, Rest, NEW c \in Calls, CallerNext(c)
  PROVE  Shared' /\ [Durable!Next]_View
<1>1. CASE CallEnqueue(c)
  <2>1. /\ UNCHANGED <<status, dedupe, inbox, futures, futState, terminal, holds, asked>>
        /\ stage[c] = "asked"
        /\ \E st \in {"sent", "failed"} : stage' = [stage EXCEPT ![c] = st]
    BY <1>1 DEF CallEnqueue, Reach, serviceVars, recordVars, waiterVars, workerVars
  <2>2. \A d \in Calls : /\ stage'[d] = "new" <=> stage[d] = "new"
                         /\ stage'[d] = "gone" <=> stage[d] = "gone"
    BY <2>1 DEF RInv, RTyped
  <2> QED
    BY <2>1, <2>2, UnseenStep DEF SameOpen
<1>2. CASE CallCancelJob(c)
  <2>1. /\ Publishes(c, "canceled") /\ status[c] \in ActiveStatus /\ inbox' = inbox
    BY <1>2 DEF CallCancelJob, MarkCanceled, Known, Publishes, ActiveStatus, TerminalStatus,
                workerVars, callerVars
  <2> QED
    BY <2>1, SettleSeen
<1> QED
  BY <1>1, <1>2, SubmitSeen, SubscribeSeen, CancelSeen DEF CallerNext

-----------------------------------------------------------------------------
(* The steps of the worker                                                 *)

LEMMA MarkPublishes ==
  ASSUME NEW j \in Calls, status[j] # "absent", UNCHANGED callerVars
  PROVE  /\ MarkSucceeded(j) => Publishes(j, "succeeded")
         /\ \A err : MarkFailed(j, err) => Publishes(j, "failed")
BY DEF MarkSucceeded, MarkFailed, Known, Publishes, TerminalStatus, callerVars

LEMMA SpeaksOf ==
  ASSUME NEW j \in Calls, wjob' = j,
         wpc' \in {"fetching", "backoff"} => status'[j] \in {"running", "canceled"},
         wpc' = "notifying" => status'[j] \in {"succeeded", "failed"},
         wpc' = "apologizing" => status'[j] = "failed"
  PROVE  Speaks'
BY DEF Speaks

LEMMA SpeaksOn ==
  ASSUME Speaks, wjob' \in {wjob, None}, wpc' = wpc \/ wpc' \in {"idle", "stopped", "dead"},
         \A i \in Calls : \/ status'[i] = status[i]
                          \/ status[i] \in ActiveStatus /\ status'[i] = "canceled"
                          \/ status[i] = "absent"
  PROVE  Speaks'
BY WaiterAssumption DEF Speaks, ActiveStatus

LEMMA ReadSeen ==
  ASSUME RInv, Memory, Shared, NEW j \in Calls, ReadEntry(j)
  PROVE  Shared' /\ Speaks' /\ [Durable!Next]_View
<1> USE DEF RInv, RTyped
<1>1. UNCHANGED <<callerVars, inbox>> /\ status[j] \in Status
  BY DEF ReadEntry, Handle, HandleSkip, HandleUnsupported, HandleCacheHit, HandleMiss, HandleError,
         workerVars
<1>2. CASE HandleSkip(j)
  <2>1. UNCHANGED <<serviceVars, wpc, wjob>> /\ wpc = "idle" /\ wjob = None
    BY <1>2 DEF HandleSkip, Receive, workerVars, JobHeld
  <2>2. Speaks'
    BY <2>1, WaiterAssumption DEF Speaks
  <2> QED
    BY <1>1, <2>1, <2>2, UnseenStep DEF serviceVars, recordVars, waiterVars, callerVars, SameOpen
<1>3. CASE HandleMiss(j)
  <2>1. /\ status[j] \in ActiveStatus /\ status' = [status EXCEPT ![j] = "running"]
        /\ UNCHANGED <<dedupe, waiterVars>> /\ wjob' = j /\ wpc' = "fetching"
    BY <1>3 DEF HandleMiss, MarkRunning, Known, GoTo, ActiveStatus
  <2>2. SameOpen /\ status'[j] = "running"
    BY <2>1 DEF SameOpen, ActiveStatus
  <2>3. Speaks'
    BY <2>1, <2>2, SpeaksOf
  <2> QED
    BY <1>1, <2>1, <2>2, <2>3, UnseenStep DEF waiterVars, callerVars
<1>4. CASE HandleUnsupported(j) \/ HandleCacheHit(j) \/ HandleError(j)
  <2>1. /\ status[j] \in ActiveStatus /\ wjob' = j
        /\ \/ MarkSucceeded(j) /\ wpc' = "notifying"
           \/ \E err : MarkFailed(j, err) /\ wpc' \in {"notifying", "apologizing"}
    BY <1>4 DEF HandleUnsupported, HandleCacheHit, HandleError, GoTo
  <2>2. \/ Publishes(j, "succeeded") /\ wpc' = "notifying"
        \/ Publishes(j, "failed") /\ wpc' \in {"notifying", "apologizing"}
    BY <1>1, <2>1, MarkPublishes DEF ActiveStatus
  <2>3. Speaks'
    BY <2>1, <2>2, SpeaksOf DEF Publishes
  <2> QED
    BY <1>1, <2>1, <2>2, <2>3, SettleSeen
<1> QED
  BY <1>2, <1>3, <1>4 DEF ReadEntry, Handle

(* The end of a download settles the job, or overrules its cancellation.   *)
LEMMA FetchSeen ==
  ASSUME RInv, Memory, Shared, Speaks, NEW j \in Calls, Fetch(j), UNCHANGED callerVars
  PROVE  Shared' /\ Speaks' /\ [Durable!Next]_View
<1>1. /\ wjob = j /\ wpc \in {"fetching", "backoff"} /\ inbox' = inbox /\ wjob' = j
      /\ status[j] \in {"running", "canceled"}
  BY DEF Fetch, DownloadOk, DownloadFatal, DownloadTransient, DownloadTransientAgain,
         DownloadTimeout, DownloadError, BackoffEnds, GoTo, Speaks
<1>2. CASE DownloadTransient(j) \/ BackoffEnds(j)
  <2>1. UNCHANGED serviceVars /\ wpc' \in {"fetching", "backoff"}
    BY <1>2 DEF DownloadTransient, BackoffEnds, GoTo
  <2>2. Speaks'
    BY <1>1, <2>1, SpeaksOf DEF serviceVars, recordVars
  <2> QED
    BY <1>1, <2>1, <2>2, UnseenStep DEF serviceVars, recordVars, waiterVars, callerVars, SameOpen
<1>3. CASE ~(DownloadTransient(j) \/ BackoffEnds(j))
  <2>1. \/ MarkSucceeded(j) /\ wpc' = "notifying"
        \/ \E err : MarkFailed(j, err) /\ wpc' \in {"notifying", "apologizing"}
    BY <1>3 DEF Fetch, DownloadOk, DownloadFatal, DownloadTransientAgain, DownloadTimeout,
                DownloadError, GoTo
  <2>2. \/ Publishes(j, "succeeded") /\ wpc' = "notifying"
        \/ Publishes(j, "failed") /\ wpc' \in {"notifying", "apologizing"}
    BY <1>1, <2>1, MarkPublishes
  <2>3. Speaks'
    BY <1>1, <2>2, SpeaksOf DEF Publishes, RInv, RTyped
  <2>4. CASE status[j] = "running"
    BY <1>1, <2>2, <2>3, <2>4, SettleSeen DEF ActiveStatus
  <2>5. CASE status[j] = "canceled"
    BY <1>1, <2>2, <2>3, <2>5, OverruleSeen DEF Durable!Overruled
  <2> QED
    BY <1>1, <2>4, <2>5
<1> QED
  BY <1>2, <1>3

LEMMA WorkSeen ==
  ASSUME RInv, Memory, Mail, Shared, Speaks, NEW j \in Calls, Work(j)
  PROVE  Shared' /\ Speaks' /\ [Durable!Next]_View
<1>1. UNCHANGED callerVars
  BY DEF Work
<1>2. CASE Notify(j)
  <2>1. /\ wjob = j /\ wpc \in {"notifying", "apologizing"} /\ MaybeDeliver(j)
        /\ UNCHANGED serviceVars /\ wjob' = None /\ wpc' = "idle"
    BY <1>2 DEF Notify, NotifyOk, ApologyOk, MaybeDeliver, BecomeIdle, GoTo
  <2>2. Speaks'
    BY <2>1, SpeaksOn DEF serviceVars, recordVars
  <2> QED
    BY <1>1, <2>1, <2>2, TellSeen
<1>3. CASE NotifyFail(j)
  <2>1. /\ wjob = j /\ wpc = "notifying" /\ MaybeDeliver(j)
        /\ MarkFailed(j, "INTERNAL") /\ wjob' = j /\ wpc' = "apologizing"
        /\ status[j] \in {"succeeded", "failed"}
    BY <1>3 DEF NotifyFail, GoTo, Speaks
  <2>2. Publishes(j, "failed")
    BY <1>1, <2>1, MarkPublishes
  <2>3. <<status[j], "failed">> \in Durable!Overruled
    BY <2>1 DEF Durable!Overruled
  <2>4. Durable!Tells(j) \/ inbox' = inbox
    BY <2>1, TellsVerdict DEF MaybeDeliver
  <2>5. Speaks'
    BY <2>1, <2>2, SpeaksOf DEF Publishes, RInv, RTyped
  <2> QED
    BY <2>2, <2>3, <2>4, <2>5, OverruleSeen
<1> QED
  BY <1>1, <1>2, <1>3, FetchSeen DEF Work

(* What is left of the worker's steps settles nothing.                     *)
LEMMA QuietSeen ==
  ASSUME RInv, Shared, Speaks, UNCHANGED <<serviceVars, callerVars, inbox>>,
         wjob' \in {wjob, None}, wpc' = wpc \/ wpc' \in {"idle", "stopped", "dead"}
  PROVE  Shared' /\ Speaks' /\ [Durable!Next]_View
BY UnseenStep, SpeaksOn DEF serviceVars, recordVars, waiterVars, callerVars, SameOpen

LEMMA ApologySeen ==
  ASSUME RInv, Mail, Shared, Speaks, NEW j \in Calls, ApologyLogged(j)
  PROVE  Shared' /\ Speaks' /\ [Durable!Next]_View
<1>1. /\ wjob = j /\ wpc = "apologizing" /\ MaybeDeliver(j)
      /\ UNCHANGED <<serviceVars, callerVars>> /\ wjob' = None /\ wpc' = "idle"
  BY DEF ApologyLogged, BecomeIdle, GoTo
<1>2. Speaks'
  BY <1>1, SpeaksOn DEF serviceVars, recordVars
<1> QED
  BY <1>1, <1>2, TellSeen

LEMMA StopSeen ==
  ASSUME RInv, Mail, Shared, Speaks, Stop
  PROVE  Shared' /\ Speaks' /\ [Durable!Next]_View
<1>1. /\ wpc' = "stopped" /\ UNCHANGED <<wjob, serviceVars, callerVars>>
      /\ \/ wpc \in {"notifying", "apologizing"} /\ MaybeDeliver(wjob)
         \/ inbox' = inbox
  BY DEF Stop, WorkerCancelled, MaybeDeliver
<1>2. CASE inbox' = inbox
  BY <1>1, <1>2, QuietSeen
<1>3. CASE inbox' # inbox
  <2>1. wjob \in Calls
    BY <1>1, <1>3, WaiterAssumption DEF MaybeDeliver, Deliver, RInv, RTyped
  <2>2. Speaks'
    BY <1>1, SpeaksOn DEF serviceVars, recordVars
  <2> QED
    BY <1>1, <1>3, <2>1, <2>2, TellSeen
<1> QED
  BY <1>2, <1>3

(* The end of the process forgets callers and jobs, and may be the last    *)
(* moment of a message under way.                                          *)
LEMMA RestartSeen ==
  ASSUME RInv, Mail, Shared, Speaks, Restart
  PROVE  Shared' /\ Speaks' /\ Durable!Next
<1> USE DEF RInv, RTyped
<1>1. /\ status' = [j \in Calls |-> "absent"] /\ futures' = [j \in Calls |-> None]
      /\ terminal' = <<>> /\ holds' = [c \in Calls |-> None] /\ wjob' = None
      /\ stage' = [c \in Calls |-> IF stage[c] = "new" THEN "new" ELSE "gone"]
      /\ asked' = [c \in Calls |-> None]
      /\ \/ wpc \in {"notifying", "apologizing"} /\ Deliver(wjob)
         \/ inbox' = inbox
  BY DEF Restart
<1>2. Shared'
  <2>1. Remembered' = {}
    BY <1>1 DEF Remembered
  <2> QED
    BY <1>1, <2>1 DEF Shared
<1>3. Speaks'
  BY <1>1, WaiterAssumption DEF Speaks
<1>4. /\ [k \in Keys |-> ActiveFor(k)]' = [k \in Keys |-> {}]
      /\ [j \in Calls |-> VerdictOf(j)]' = [j \in Calls |-> "none"]
      /\ Answered' = {}
  <2>1. \A k \in Keys : ActiveFor(k)' = {}
    BY <1>1 DEF ActiveFor, ActiveStatus
  <2>2. \A j \in Calls : VerdictOf(j)' = "none"
    BY <1>1 DEF VerdictOf, ActiveStatus
  <2> QED
    BY <1>1, <2>1, <2>2 DEF Answered
<1>5. {c \in Calls : stage[c] = "gone"}'
        = {c \in Calls : stage[c] = "gone"} \union {c \in Calls : asked[c] # None}
  <2>1. \A c \in Calls : stage'[c] = "gone" <=> stage[c] = "gone" \/ asked[c] # None
    BY <1>1 DEF Shared
  <2> QED
    BY <2>1
<1>6. (\E j \in Calls : Durable!Tells(j)) \/ inbox' = inbox
  <2>1. CASE wpc \in {"notifying", "apologizing"} /\ Deliver(wjob) /\ inbox' # inbox
    <3>1. wjob \in Calls
      BY <2>1, WaiterAssumption DEF Deliver
    <3> QED
      BY <2>1, <3>1, TellsVerdict
  <2> QED
    BY <1>1, <2>1
<1>7. Durable!Forget
  BY <1>1, <1>4, <1>5, <1>6 DEF Durable!Forget
<1> QED
  BY <1>2, <1>3, <1>7 DEF Durable!Next

LEMMA StepSeen ==
  ASSUME RInv, Memory, Mail, Rest, Shared, Speaks, [Next \/ PeerReads]_vars
  PROVE  Shared' /\ Speaks' /\ [Durable!Next]_View
<1>1. ASSUME NEW c \in Calls, CallerNext(c) PROVE Shared' /\ Speaks' /\ [Durable!Next]_View
  <2>1. /\ UNCHANGED <<wjob, wpc>>
        /\ \/ status' = status
           \/ stage[c] = "new" /\ status' = [status EXCEPT ![c] = "queued"]
           \/ status[c] \in ActiveStatus /\ status' = [status EXCEPT ![c] = "canceled"]
    BY <1>1 DEF CallerNext, CallSubmit, SubmitNew, SubmitJoin, CallSubscribe, CallEnqueue,
                CallCancel, CallCancelJob, MarkCanceled, Known, serviceVars, recordVars,
                workerVars
  <2>2. Speaks'
    BY <2>1, SpeaksOn DEF RInv, RTyped, Unborn
  <2> QED
    BY <1>1, <2>2, CallerSeen
<1>2. ASSUME NEW j \in Calls, AbandonedThreadStep(j)
      PROVE  Shared' /\ Speaks' /\ [Durable!Next]_View
  BY <1>2, QuietSeen DEF AbandonedThreadStep, ThreadEnds, ThreadRecreates, workerVars
<1>3. CASE Acknowledge \/ ReplyLost \/ ReadFails \/ PeerReads
  BY <1>3, QuietSeen DEF Acknowledge, ReplyLost, ReadFails, PeerReads, workerVars
<1>4. CASE UNCHANGED vars
  BY <1>4, QuietSeen DEF vars, workerVars
<1> QED
  BY <1>1, <1>2, <1>3, <1>4, ReadSeen, WorkSeen, ApologySeen, StopSeen, RestartSeen
  DEF Next, ConsumerNext

(* Whatever callers, the worker, Telegram, Redis and the end of the        *)
(* process do, the service keeps the ledger: one open job per key, nobody  *)
(* woken but by the verdict of the own job, no chat told anything but the  *)
(* verdict, and no verdict changed but as Overruled allows.                *)
THEOREM RedisKeepsLedger == GroupSpec => DurablyKept
<1>1. Init => Shared /\ Speaks /\ Durable!Init
  <2> SUFFICES ASSUME Init PROVE Shared /\ Speaks /\ Durable!Init
    OBVIOUS
  <2> USE DEF Init, ServiceInit, WaiterInit, WorkerInit
  <2>1. Remembered = {} /\ Answered = {}
    BY DEF Remembered, Answered
  <2>2. /\ \A k \in Keys : ActiveFor(k) = {}
        /\ \A j \in Calls : VerdictOf(j) = "none"
    BY DEF ActiveFor, ActiveStatus, VerdictOf
  <2>3. Shared /\ Speaks
    BY <2>1, WaiterAssumption DEF Shared, Speaks
  <2> QED
    BY <2>1, <2>2, <2>3 DEF Durable!Init
<1>2. Init => Mail /\ Disk /\ Rest
  BY DEF Init, ServiceInit, QueueInit, WorkerInit, DirsInit, Mail, InboxShape, Untold, Apologizes,
         Disk, DirsOwned, Rest, WorkerPC
<1>3. RInv /\ Memory /\ Mail /\ Rest /\ Shared /\ Speaks /\ [Next \/ PeerReads]_vars
        => Shared' /\ Speaks' /\ [Durable!Next]_View
  BY StepSeen
<1> QED
  BY <1>1, <1>2, <1>3, RedisInvariance, MemoryInvariance, StepMail, StepDisk, StepRest, PTL
  DEF GroupSpec, DurablyKept, Durable!Spec, View
=============================================================================
