---------------------------- MODULE RemoteProofs ----------------------------
(***************************************************************************)
(* The pipeline with the remote processor, in time, implements the         *)
(* pipeline on time for every setting in which stale_after is no shorter   *)
(* than the longest run of a processor: no busy job is put back.           *)
(* OnTimeInv and the clocks are shown to hold together, since a clock is   *)
(* that of the one worker that has a job.  Recoveries may overflow, the    *)
(* count go wrong and the recovery loop die of it; with room for the stale *)
(* jobs none of this happens, and the pipeline is the sound one.           *)
(***************************************************************************)
EXTENDS RemotePipeline, PipelineLedgerProofs

(* A job's time in flight never exceeds the longest run.                   *)
LEMMA RunsEnd == TypeOK /\ RemoteInv => RunBounded
<1> SUFFICES ASSUME TypeOK, RemoteInv, NEW w \in Workers, hand[w] # None
             PROVE  age[hand[w]] <= LongestRun
  BY DEF RunBounded
<1>1. phase[w] \in {"posting", "polling", "sleeping", "fetching"} /\ OnTime(w)
  BY DEF RemoteInv, RemoteTypeOK, Phases, ClockInv, In
<1>2. spent[w] \in Nat /\ polled[w] \in Nat /\ age[hand[w]] \in Nat
  BY DEF RemoteInv, RemoteTypeOK, TypeOK, PoolTypeOK
<1>3. spent[w] <= IF phase[w] = "sleeping" THEN Interval ELSE HttpTotal
  BY <1>1 DEF OnTime, Limit, In
<1> QED
  BY <1>1, <1>2, <1>3, RemoteAssumption DEF OnTime, In, LongestRun, Longer

-----------------------------------------------------------------------------
(* What the steps of the pipeline do to hands, table and results           *)

LEMMA TakeEffect ==
  ASSUME OnTimeInv, NEW w \in Workers, Takes(w)
  PROVE  \E j \in Jobs \ inFlight :
           /\ j = Head(pending)
           /\ hand' = [hand EXCEPT ![w] = j]
           /\ inFlight' = inFlight \union {j}
           /\ result' = result
           /\ wpc[w] = "getting"
           /\ wpc' = [wpc EXCEPT ![w] = "busy"]
<1>1. PICK j \in Jobs : Take(w, j)
  BY DEF Takes
<1>2. pending \in Seq(Jobs) /\ pending # <<>> /\ j = Head(pending)
  BY <1>1 DEF OnTimeInv, TypeOK, ManagerTypeOK, Take, Dequeue
<1>3. 1 \in DOMAIN pending /\ pending[1] = j
  BY <1>2
<1>4. Queued(j)
  BY <1>3 DEF Queued
<1>5. j \notin inFlight
  BY <1>4 DEF OnTimeInv, BooksInv, OnePlace
<1> QED
  BY <1>1, <1>2, <1>5 DEF Take, Dequeue

(* A processor ends with a result.                                         *)
LEMMA EndEffect ==
  ASSUME OnTimeInv, NEW w \in Workers, Succeeds(w) \/ Breaks(w)
  PROVE  /\ hand[w] \in Jobs
         /\ hand' = [hand EXCEPT ![w] = None]
         /\ inFlight' = inFlight \ {hand[w]}
         /\ \E pc \in {"getting", "dead"} : wpc' = [wpc EXCEPT ![w] = pc]
         /\ \E verdict \in {"completed", "failed"} :
              /\ result' = [result EXCEPT ![hand[w]] = verdict]
              /\ Succeeds(w) => verdict = "completed"
<1>1. CASE Succeeds(w)
  <2>1. PICK j \in Jobs : Complete(w, j) \/ Miscount(w, j, "completed")
    BY <1>1 DEF Succeeds, Completes, CompletesUncounted
  <2>2. /\ hand[w] = j /\ hand' = [hand EXCEPT ![w] = None]
        /\ inFlight' = inFlight \ {j}
        /\ \E pc \in {"getting", "dead"} : wpc' = [wpc EXCEPT ![w] = pc]
        /\ result' = [result EXCEPT ![j] = "completed"]
    BY <2>1 DEF Complete, Miscount, Busy, Publish, Acknowledge, LandUncounted, Land, LetGo
  <2> QED
    BY <2>2
<1>2. CASE ~Succeeds(w)
  <2>1. PICK j \in Jobs : Fail(w, j) \/ FailOverflow(w, j) \/ Miscount(w, j, "failed")
    BY <1>2 DEF Breaks, Fails, FailsUncounted
  <2>2. /\ hand[w] = j /\ hand' = [hand EXCEPT ![w] = None]
        /\ inFlight' = inFlight \ {j}
        /\ \E pc \in {"getting", "dead"} : wpc' = [wpc EXCEPT ![w] = pc]
        /\ result' = [result EXCEPT ![j] = "failed"]
    BY <2>1
    DEF Fail, FailOverflow, Miscount, Busy, Publish, Acknowledge, LandUncounted, NackRequeue,
        NackGiveUp, NackOverflow, Land, LetGo
  <2> QED
    BY <1>2, <2>2
<1> QED
  BY <1>1, <1>2

LEMMA CallerEffect ==
  ASSUME NEW j \in Jobs, CallerNext(j)
  PROVE  UNCHANGED <<wpc, hand, inFlight, stale, result>>
BY DEF CallerNext, SubmitDuplicate, Submit, SubmitOverflow, SubmitClosed, SubmitPlain,
       Interrupt, Return, Enqueue, managerVars, tableVars, waitVars, poolVars

(* A busy worker's job is its own, in flight, and not completed.           *)
LEMMA InHandAlone ==
  ASSUME OnTimeInv, NEW w \in Workers, hand[w] # None
  PROVE  /\ hand[w] \in inFlight /\ hand[w] \in Jobs
         /\ result[hand[w]] # "completed"
         /\ \A v \in Workers : hand[v] = hand[w] => v = w
<1>1. hand[w] \in inFlight /\ hand[w] \in Jobs
  BY DEF OnTimeInv, BooksInv, OnePlace, TypeOK, PoolTypeOK
<1>2. result[hand[w]] # "completed"
  BY <1>1 DEF OnTimeInv, CallersInv, FailuresBounded, Load
<1> QED
  BY <1>1, <1>2 DEF OnTimeInv, BooksInv, OnePlace

-----------------------------------------------------------------------------
(* Every step is one of the pipeline on time, or none of it.               *)

LEMMA ProcessorSteps ==
  ASSUME NEW w \in Workers, BeginPost(w) \/ RequestEnds(w)
  PROVE  WorkerNext(w) \/ Miscounts(w) \/ UNCHANGED vars
BY DEF BeginPost, RequestEnds, BeginPolling, NotFinished, PollAgain, DeadlinePassed, RequestFails,
       FinishedOnDisk, BeginFetch, Fetched, FetchFails, Succeeds, Breaks, WorkerNext, Miscounts

(* However long a processor may take, and a busy job put back: what is     *)
(* proved of Spec, StandsAlways and AnswersAreFinal, holds for every       *)
(* stale_after.                                                            *)
LEMMA RemoteIsPipeline == RemoteSpec => Spec
<1>1. [RemoteNext]_timedVars => [Next]_vars
  BY ProcessorSteps
  DEF RemoteNext, CallerStep, Outdates, ProcessorCancelled, RecoverOverdue, CloseBegins,
      CloseEnds, Tick, timedVars, Next, Recovers, Stops
<1>2. RemoteInit => Init
  BY DEF RemoteInit
<1> QED
  BY <1>1, <1>2, PTL DEF RemoteSpec, Spec

LEMMA StepIsOnTime ==
  ASSUME OnTimeInv, RemoteInv, LongestRun <= StaleAfter, [RemoteNext]_timedVars
  PROVE  [OnTimeNext]_vars
<1>1. ASSUME NEW j \in Jobs, Outdates(j) PROVE AgedOrphan(j)
  <2>1. age[j] > StaleAfter /\ Aged(j)
    BY <1>1 DEF Outdates, Overdue
  <2>2. ASSUME NEW w \in Workers, hand[w] = j PROVE FALSE
    <3>1. age[j] <= LongestRun
      BY <2>2, RunsEnd, ManagerAssumption DEF RunBounded, OnTimeInv
    <3>2. age[j] \in Nat /\ LongestRun \in Nat
      BY RemoteAssumption DEF RemoteInv, RemoteTypeOK, LongestRun, Longer
    <3> QED
      BY <2>1, <3>1, <3>2, RemoteAssumption
  <2> QED
    BY <2>1, <2>2 DEF AgedOrphan, InHand
<1>2. ASSUME NEW w \in Workers, ProcessorCancelled(w) PROVE Crashes(w)
  BY <1>2 DEF ProcessorCancelled
<1>3. CASE RecoverOverdue
  BY <1>3 DEF RecoverOverdue, OnTimeNext, RunningNext, Recovers
<1>4. CASE CloseBegins \/ CloseEnds
  BY <1>4 DEF CloseBegins, CloseEnds, OnTimeNext, Stops
<1>5. CASE Tick \/ UNCHANGED timedVars
  BY <1>5 DEF Tick, timedVars
<1>6. CASE \E j \in Jobs : CallerStep(j)
  BY <1>6 DEF CallerStep, OnTimeNext, RunningNext
<1> QED
  BY <1>1, <1>2, <1>3, <1>4, <1>5, <1>6, ProcessorSteps DEF RemoteNext, OnTimeNext, RunningNext

-----------------------------------------------------------------------------
(* The clocks                                                              *)

LEMMA InitRemoteInv == RemoteInit => RemoteInv
<1> SUFFICES ASSUME RemoteInit PROVE RemoteInv
  OBVIOUS
<1>1. RemoteTypeOK
  BY DEF RemoteInit, RemoteTypeOK, Phases
<1>2. TempsOwned
  BY DEF RemoteInit, TempsOwned
<1>3. ClockInv
  BY RemoteAssumption DEF RemoteInit, Init, PoolInit, ClockInv, OnTime, In, Limit
<1> QED
  BY <1>1, <1>2, <1>3 DEF RemoteInv

(* Callers, ageing and the start of stop() touch neither hand nor clock.   *)
LEMMA QuietStep ==
  ASSUME RemoteInv, UNCHANGED <<wpc, hand, inFlight, result, remoteVars>>
  PROVE  RemoteInv'
BY DEF RemoteInv, RemoteTypeOK, ClockInv, TempsOwned, OnTime, In, Limit, remoteVars

LEMMA BeginPostStep ==
  ASSUME OnTimeInv, RemoteInv, NEW w \in Workers, BeginPost(w)
  PROVE  RemoteInv'
<1> USE DEF RemoteInv
<1>1. PICK j \in Jobs \ inFlight :
        /\ j = Head(pending)
        /\ hand' = [hand EXCEPT ![w] = j]
        /\ inFlight' = inFlight \union {j}
        /\ result' = result
        /\ wpc[w] = "getting"
        /\ wpc' = [wpc EXCEPT ![w] = "busy"]
  BY TakeEffect DEF BeginPost
<1>2. /\ phase' = [phase EXCEPT ![w] = "posting"]
      /\ spent' = [spent EXCEPT ![w] = 0]
      /\ UNCHANGED <<polled, age, temps>>
  BY <1>1 DEF BeginPost, Enter, Forget, RemoteTypeOK, ClockInv
<1>3. RemoteTypeOK'
  BY <1>2 DEF RemoteTypeOK, Phases
<1>4. /\ hand \in [Workers -> Jobs \union {None}]
      /\ wpc \in [Workers -> {"getting", "busy", "dead", "cancelled"}]
  BY DEF OnTimeInv, TypeOK, PoolTypeOK
<1>5. ClockInv'
  <2>1. \A i \in Jobs \ inFlight' : age'[i] = 0
    BY <1>1, <1>2 DEF ClockInv
  <2>2. /\ In(w, "idle")' <=> hand'[w] = None
        /\ wpc'[w] = "busy"
        /\ OnTime(w)'
    BY <1>1, <1>2, <1>4, ManagerAssumption, RemoteAssumption
    DEF RemoteTypeOK, ClockInv, In, OnTime, Limit
  <2>3 \A v \in Workers \ {w} :
          /\ In(v, "idle")' <=> hand'[v] = None
          /\ wpc'[v] = "getting" => hand'[v] = None
          /\ OnTime(v)'
    BY <1>1, <1>2, <1>4 DEF RemoteTypeOK, ClockInv, In, OnTime, Limit
  <2> QED
    BY <2>1, <2>2, <2>3 DEF ClockInv
<1>6. TempsOwned'
  <2>1. ~In(w, "fetching")
    BY <1>1 DEF ClockInv, In
  <2>2. ASSUME NEW v \in Workers, In(v, "fetching") PROVE hand'[v] = hand[v] /\ In(v, "fetching")'
    BY <1>1, <1>2, <1>4, <2>1, <2>2 DEF In, RemoteTypeOK
  <2> QED
    BY <1>1, <1>2, <2>2 DEF TempsOwned
<1> QED
  BY <1>3, <1>5, <1>6

(* A processor goes from one phase to the next.                            *)
LEMMA PhaseStep ==
  ASSUME OnTimeInv, RemoteInv, NEW w \in Workers,
         BeginPolling(w) \/ NotFinished(w) \/ PollAgain(w) \/ BeginFetch(w)
  PROVE  RemoteInv'
<1> USE DEF RemoteInv
<1>1. /\ UNCHANGED <<wpc, hand, inFlight, result, age>>
      /\ spent' = [spent EXCEPT ![w] = 0]
      /\ polled' \in {polled, [polled EXCEPT ![w] = 0]}
      /\ temps' \in {temps, temps \union {hand[w]}}
      /\ \E p \in Phases \ {"idle"} : phase' = [phase EXCEPT ![w] = p]
      /\ ~In(w, "idle") /\ ~In(w, "fetching")
  BY DEF BeginPolling, NotFinished, PollAgain, BeginFetch, Slept, Enter, In, Phases,
         vars, poolVars, managerVars, tableVars
<1>2. hand[w] \in Jobs /\ hand \in [Workers -> Jobs \union {None}]
  BY <1>1, InHandAlone DEF ClockInv, OnTimeInv, TypeOK, PoolTypeOK
<1>3. RemoteTypeOK'
  BY <1>1, <1>2 DEF RemoteTypeOK
<1>4. OnTime(w)'
  <2>1. /\ spent[w] \in Nat /\ polled[w] \in Nat /\ age[hand[w]] \in Nat
        /\ phase \in [Workers -> Phases] /\ spent \in [Workers -> Nat]
        /\ polled \in [Workers -> Nat]
    BY <1>2 DEF RemoteTypeOK
  <2>2. OnTime(w)
    BY DEF ClockInv
  <2>3. CASE BeginPolling(w)
    BY <1>1, <2>1, <2>2, <2>3, RemoteAssumption DEF BeginPolling, Enter, OnTime, In, Limit
  <2>4. CASE NotFinished(w)
    BY <1>1, <2>1, <2>2, <2>4, RemoteAssumption DEF NotFinished, Enter, OnTime, In, Limit
  <2>5. CASE PollAgain(w)
    BY <1>1, <2>1, <2>2, <2>5, RemoteAssumption DEF PollAgain, Slept, Enter, OnTime, In, Limit
  <2>6. CASE BeginFetch(w)
    BY <1>1, <2>1, <2>2, <2>6, RemoteAssumption DEF BeginFetch, Enter, OnTime, In, Limit
  <2> QED
    BY <2>3, <2>4, <2>5, <2>6
<1>5. ClockInv'
  <2>1 \A v \in Workers \ {w} :
          /\ In(v, "idle")' <=> hand'[v] = None
          /\ wpc'[v] = "getting" => hand'[v] = None
          /\ OnTime(v)'
    BY <1>1 DEF RemoteTypeOK, ClockInv, In, OnTime, Limit
  <2>2. /\ In(w, "idle")' <=> hand'[w] = None
        /\ wpc'[w] = "getting" => hand'[w] = None
    BY <1>1, <1>2, ManagerAssumption DEF RemoteTypeOK, ClockInv, In
  <2> QED
    BY <1>1, <1>4, <2>1, <2>2 DEF ClockInv
<1>6. TempsOwned'
  <2>1. \A v \in Workers : In(v, "fetching") => In(v, "fetching")'
    BY <1>1 DEF In, RemoteTypeOK
  <2>2. temps' # temps => In(w, "fetching")'
    BY DEF BeginPolling, NotFinished, PollAgain, BeginFetch, Enter, In, RemoteTypeOK
  <2> QED
    BY <1>1, <2>1, <2>2 DEF TempsOwned
<1> QED
  BY <1>3, <1>5, <1>6

(* A processor ends with a result.                                         *)
LEMMA EndStep ==
  ASSUME OnTimeInv, RemoteInv, NEW w \in Workers,
         \/ DeadlinePassed(w) \/ RequestFails(w) \/ FinishedOnDisk(w)
         \/ Fetched(w) \/ FetchFails(w)
  PROVE  RemoteInv'
<1> USE DEF RemoteInv
<1>1. /\ Succeeds(w) \/ Breaks(w)
      /\ phase' = [phase EXCEPT ![w] = "idle"]
      /\ spent' = [spent EXCEPT ![w] = 0]
      /\ polled' = [polled EXCEPT ![w] = 0]
      /\ Forget({hand[w]})
      /\ temps' \in {temps, temps \ {hand[w]}}
      /\ \/ Succeeds(w) \/ ~In(w, "fetching") \/ temps' = temps \ {hand[w]}
  BY DEF DeadlinePassed, RequestFails, FinishedOnDisk, Fetched, FetchFails, Slept, Leave, Enter,
         In
<1>2. /\ hand[w] \in Jobs
      /\ hand' = [hand EXCEPT ![w] = None]
      /\ inFlight' = inFlight \ {hand[w]}
      /\ \E pc \in {"getting", "dead"} : wpc' = [wpc EXCEPT ![w] = pc]
  BY <1>1, EndEffect
<1>3. PICK verdict \in {"completed", "failed"} :
        /\ result' = [result EXCEPT ![hand[w]] = verdict]
        /\ Succeeds(w) => verdict = "completed"
  BY <1>1, EndEffect
<1>4. /\ hand \in [Workers -> Jobs \union {None}]
      /\ wpc \in [Workers -> {"getting", "busy", "dead", "cancelled"}]
      /\ result \in [Jobs -> {"none", "completed", "failed"}]
      /\ inFlight \subseteq Jobs
  BY DEF OnTimeInv, TypeOK, PoolTypeOK, ManagerTypeOK
<1>5. /\ result[hand[w]] # "completed"
      /\ \A v \in Workers : hand[v] = hand[w] => v = w
  BY <1>2, InHandAlone, ManagerAssumption
<1>6. RemoteTypeOK'
  BY <1>1 DEF RemoteTypeOK, Phases, Forget
<1>7. ClockInv'
  <2>1. \A i \in Jobs \ inFlight' : age'[i] = 0
    BY <1>1, <1>2 DEF ClockInv, Forget
  <2>2. /\ In(w, "idle")' <=> hand'[w] = None
        /\ wpc'[w] = "getting" => hand'[w] = None
        /\ OnTime(w)'
    BY <1>1, <1>2, <1>4, RemoteAssumption DEF RemoteTypeOK, In, OnTime, Limit
  <2>3. ASSUME NEW v \in Workers \ {w}
        PROVE  /\ In(v, "idle")' <=> hand'[v] = None
               /\ wpc'[v] = "getting" => hand'[v] = None
               /\ OnTime(v)'
    <3>1. /\ phase'[v] = phase[v] /\ spent'[v] = spent[v] /\ polled'[v] = polled[v]
          /\ hand'[v] = hand[v] /\ wpc'[v] = wpc[v]
      BY <1>1, <1>2, <1>4 DEF RemoteTypeOK
    <3>2. hand[v] # None => age'[hand[v]] = age[hand[v]]
      BY <1>1, <1>4, <1>5 DEF Forget
    <3> QED
      BY <3>1, <3>2 DEF ClockInv, In, OnTime, Limit
  <2> QED
    BY <2>1, <2>2, <2>3 DEF ClockInv
<1>8. TempsOwned'
  <2> SUFFICES ASSUME NEW i \in temps'
               PROVE  \/ result'[i] = "completed"
                      \/ \E v \in Workers : hand'[v] = i /\ In(v, "fetching")'
    BY DEF TempsOwned
  <2>1. i \in temps /\ i \in Jobs
    BY <1>1 DEF RemoteTypeOK
  <2>2. CASE i = hand[w]
    <3>1. In(w, "fetching")
      BY <1>5, <2>1, <2>2 DEF TempsOwned
    <3>2. Succeeds(w)
      BY <1>1, <2>2, <3>1
    <3> QED
      BY <1>2, <1>3, <1>4, <2>2, <3>2
  <2>3. CASE i # hand[w]
    <3>1. result'[i] = result[i]
      BY <1>3, <1>4, <2>1, <2>3
    <3>2. \A v \in Workers : hand[v] = i => v # w
      BY <2>3
    <3> QED
      BY <1>1, <1>2, <1>4, <2>1, <3>1, <3>2 DEF TempsOwned, In, RemoteTypeOK
  <2> QED
    BY <2>2, <2>3
<1> QED
  BY <1>6, <1>7, <1>8

(* A processor is cancelled, or all of them are: the job stays in flight,  *)
(* its temporary file does not stay.                                       *)
LEMMA CancelStep ==
  ASSUME OnTimeInv, RemoteInv, NEW S \in SUBSET Workers,
         phase' = [w \in Workers |-> IF w \in S THEN "idle" ELSE phase[w]],
         spent' = [w \in Workers |-> IF w \in S THEN 0 ELSE spent[w]],
         polled' = [w \in Workers |-> IF w \in S THEN 0 ELSE polled[w]],
         hand' = [w \in Workers |-> IF w \in S THEN None ELSE hand[w]],
         \A w \in Workers : wpc'[w] = "getting" => wpc[w] = "getting",
         UNCHANGED <<age, inFlight, result>>,
         Unlinked(S)
  PROVE  RemoteInv'
<1> USE DEF RemoteInv
<1>1. RemoteTypeOK'
  BY DEF RemoteTypeOK, Phases, Unlinked
<1>2. ClockInv'
  <2>1. ASSUME NEW v \in Workers
        PROVE  /\ In(v, "idle")' <=> hand'[v] = None
               /\ wpc'[v] = "getting" => hand'[v] = None
               /\ OnTime(v)'
    BY RemoteAssumption DEF ClockInv, In, OnTime, Limit
  <2> QED
    BY <2>1 DEF ClockInv
<1>3. TempsOwned'
  <2> SUFFICES ASSUME NEW i \in temps'
               PROVE  \/ result'[i] = "completed"
                      \/ \E v \in Workers : hand'[v] = i /\ In(v, "fetching")'
    BY DEF TempsOwned
  <2>1. i \in temps /\ ~\E v \in S : hand[v] = i /\ In(v, "fetching")
    BY DEF Unlinked
  <2> QED
    BY <2>1 DEF TempsOwned, In
<1> QED
  BY <1>1, <1>2, <1>3

(* The recovery loop takes stale jobs, which no worker has, out of the     *)
(* table; one that meets a full queue has a new entry.                     *)
LEMMA RecoverClocks ==
  ASSUME OnTimeInv, RemoteInv, RecoverOverdue
  PROVE  RemoteInv'
<1> USE DEF RemoteInv
<1>1. /\ UNCHANGED <<wpc, hand, result, phase, spent, polled, temps>>
      /\ inFlight \ stale \subseteq inFlight'
      /\ Forget(stale)
  BY DEF RecoverOverdue, RecoverRuns, RecoverOverflows, RecoverDies, Recover, RecoverOverflow,
         RecoverUncounted, poolVars
<1>2. \A w \in Workers : hand[w] # None => hand[w] \in Jobs /\ age'[hand[w]] = age[hand[w]]
  BY <1>1 DEF OnTimeInv, BooksInv, StaleIsOrphan, TypeOK, PoolTypeOK, Forget
<1>3. RemoteTypeOK'
  BY <1>1 DEF RemoteTypeOK, Forget
<1>4. \A i \in Jobs \ inFlight' : age'[i] = 0
  BY <1>1 DEF ClockInv, Forget
<1>5. ASSUME NEW v \in Workers
      PROVE  /\ In(v, "idle")' <=> hand'[v] = None
             /\ wpc'[v] = "getting" => hand'[v] = None
             /\ OnTime(v)'
  BY <1>1, <1>2 DEF ClockInv, In, OnTime, Limit
<1>6. TempsOwned'
  BY <1>1 DEF TempsOwned, In
<1> QED
  BY <1>3, <1>4, <1>5, <1>6 DEF ClockInv

LEMMA TickStep ==
  ASSUME OnTimeInv, RemoteInv, Tick
  PROVE  RemoteInv'
<1> USE DEF RemoteInv
<1>1. UNCHANGED <<wpc, hand, inFlight, result, phase, temps>>
  BY DEF Tick, vars, poolVars, managerVars, tableVars
<1>2. RemoteTypeOK'
  BY <1>1, RemoteAssumption DEF Tick, RemoteTypeOK
<1>3. \A i \in Jobs \ inFlight' : age'[i] = 0
  BY <1>1 DEF Tick, ClockInv
<1>4. ASSUME NEW v \in Workers PROVE OnTime(v)'
  <2>1. /\ spent[v] \in Nat /\ polled[v] \in Nat
        /\ OnTime(v) /\ ~AtLimit(v)
    BY DEF Tick, RemoteTypeOK, ClockInv
  <2>2. CASE In(v, "idle")
    BY <1>1, <2>2, RemoteAssumption DEF Tick, OnTime, In, Limit
  <2>3. CASE ~In(v, "idle")
    <3>1. hand[v] \in Jobs /\ age[hand[v]] \in Nat
      BY <2>3 DEF ClockInv, OnTimeInv, TypeOK, PoolTypeOK, RemoteTypeOK
    <3>2. age'[hand[v]] <= age[hand[v]] + 1
      BY <3>1 DEF Tick
    <3>3. age'[hand[v]] \in Nat
      BY <1>2, <3>1 DEF RemoteTypeOK
    <3>4. spent'[v] = spent[v] + 1 /\ spent[v] < Limit(v)
      BY <2>1, <2>3, RemoteAssumption DEF Tick, AtLimit, OnTime, Limit
    <3>5. phase[v] \in {"polling", "sleeping"} => polled'[v] = polled[v] + 1
      BY DEF Tick
    <3>6. Limit(v)' = Limit(v) /\ Limit(v) \in Nat
      BY <1>1, RemoteAssumption DEF Limit, In
    <3> QED
      BY <1>1, <2>1, <3>1, <3>2, <3>3, <3>4, <3>5, <3>6, RemoteAssumption DEF OnTime, In
  <2> QED
    BY <2>2, <2>3
<1>5. ClockInv'
  BY <1>1, <1>3, <1>4 DEF ClockInv, In
<1>6. TempsOwned'
  BY <1>1 DEF TempsOwned, In
<1> QED
  BY <1>2, <1>5, <1>6

-----------------------------------------------------------------------------
LEMMA StepRemote ==
  StandInv /\ OnTimeInv /\ RemoteInv /\ LongestRun <= StaleAfter /\ [RemoteNext]_timedVars
    => OnTimeInv' /\ RemoteInv' /\ [OnTimeNext]_vars
<1> SUFFICES ASSUME StandInv, OnTimeInv, RemoteInv, LongestRun <= StaleAfter,
                    [RemoteNext]_timedVars
             PROVE  OnTimeInv' /\ RemoteInv' /\ [OnTimeNext]_vars
  OBVIOUS
<1>1. OnTimeInv' /\ [OnTimeNext]_vars
  BY StepIsOnTime, StepOnTimeInv
<1>2. CASE UNCHANGED timedVars
  <2>1. UNCHANGED <<wpc, hand, inFlight, result>> /\ UNCHANGED remoteVars
    BY <1>2 DEF timedVars, vars, poolVars, managerVars, tableVars
  <2> QED
    BY <1>1, <2>1, QuietStep DEF remoteVars
<1>3. ASSUME NEW j \in Jobs, CallerStep(j) \/ Outdates(j) PROVE RemoteInv'
  <2>1. CASE CallerStep(j)
    BY <2>1, CallerEffect, QuietStep DEF CallerStep
  <2>2. CASE Outdates(j)
    BY <2>2, QuietStep DEF Outdates, Aged, Age, poolVars
  <2> QED
    BY <1>3, <2>1, <2>2
<1>4. ASSUME NEW w \in Workers, ProcessorCancelled(w) PROVE RemoteInv'
  <2>1. /\ hand' = [hand EXCEPT ![w] = None] /\ wpc' = [wpc EXCEPT ![w] = "dead"]
        /\ UNCHANGED <<age, inFlight, result>>
    BY <1>4 DEF ProcessorCancelled, Crashes, Crash, LetGo, managerVars, tableVars
  <2>2. /\ phase' = [phase EXCEPT ![w] = "idle"] /\ spent' = [spent EXCEPT ![w] = 0]
        /\ polled' = [polled EXCEPT ![w] = 0] /\ Unlinked({w})
    BY <1>4 DEF ProcessorCancelled, Leave, Enter
  <2>3. /\ phase \in [Workers -> Phases] /\ spent \in [Workers -> Nat]
        /\ polled \in [Workers -> Nat]
        /\ hand \in [Workers -> Jobs \union {None}]
        /\ wpc \in [Workers -> {"getting", "busy", "dead", "cancelled"}]
    BY DEF RemoteInv, RemoteTypeOK, OnTimeInv, TypeOK, PoolTypeOK
  <2> DEFINE S == {w}
  <2>4. /\ phase' = [v \in Workers |-> IF v \in S THEN "idle" ELSE phase[v]]
        /\ spent' = [v \in Workers |-> IF v \in S THEN 0 ELSE spent[v]]
        /\ polled' = [v \in Workers |-> IF v \in S THEN 0 ELSE polled[v]]
        /\ hand' = [v \in Workers |-> IF v \in S THEN None ELSE hand[v]]
        /\ \A v \in Workers : wpc'[v] = "getting" => wpc[v] = "getting"
    BY <2>1, <2>2, <2>3
  <2>5. S \in SUBSET Workers /\ Unlinked(S)
    BY <2>2
  <2> HIDE DEF S
  <2> QED
    BY <2>1, <2>4, <2>5, CancelStep
<1>5. CASE CloseBegins
  <2>1. UNCHANGED <<wpc, hand, inFlight, result>> /\ UNCHANGED remoteVars
    BY <1>5 DEF CloseBegins, StopBegins, StopBreaks, CloseQueue
  <2> QED
    BY <1>1, <2>1, QuietStep DEF remoteVars
<1>6. CASE CloseEnds
  <2> DEFINE S == Workers
  <2>1. /\ UNCHANGED <<age, inFlight, result>>
        /\ \A v \in Workers : wpc'[v] = "getting" => wpc[v] = "getting"
    BY <1>6 DEF CloseEnds, StopEnds, managerVars, tableVars, Alive
  <2>2. /\ phase' = [v \in Workers |-> IF v \in S THEN "idle" ELSE phase[v]]
        /\ spent' = [v \in Workers |-> IF v \in S THEN 0 ELSE spent[v]]
        /\ polled' = [v \in Workers |-> IF v \in S THEN 0 ELSE polled[v]]
        /\ hand' = [v \in Workers |-> IF v \in S THEN None ELSE hand[v]]
    BY <1>6 DEF CloseEnds, StopEnds
  <2>3. S \in SUBSET Workers /\ Unlinked(S)
    BY <1>6 DEF CloseEnds
  <2> HIDE DEF S
  <2> QED
    BY <1>1, <2>1, <2>2, <2>3, CancelStep
<1>7. ASSUME NEW w \in Workers, RequestEnds(w) PROVE RemoteInv'
  BY <1>7, PhaseStep, EndStep DEF RequestEnds
<1> QED
  BY <1>1, <1>2, <1>3, <1>4, <1>5, <1>6, <1>7, BeginPostStep, RecoverClocks, TickStep
  DEF RemoteNext

LEMMA RemoteInvariance ==
  LongestRun <= StaleAfter => (RemoteSpec => [](OnTimeInv /\ RemoteInv) /\ OnTimeSpec)
<1> SUFFICES ASSUME LongestRun <= StaleAfter
             PROVE  RemoteSpec => [](OnTimeInv /\ RemoteInv) /\ OnTimeSpec
  OBVIOUS
<1>1. RemoteInit => Init /\ OnTimeInv /\ RemoteInv
  BY InitPInv, InitRemoteInv DEF RemoteInit, PInv
<1>2. StandInv /\ OnTimeInv /\ RemoteInv /\ [RemoteNext]_timedVars
        => OnTimeInv' /\ RemoteInv' /\ [OnTimeNext]_vars
  BY StepRemote
<1>3. RemoteSpec => []StandInv
  BY RemoteIsPipeline, StandsAlways, PTL
<1> QED
  BY <1>1, <1>2, <1>3, PTL DEF RemoteSpec, OnTimeSpec

(* With stale_after no shorter than the longest run of a processor, no     *)
(* busy job is put back: the pipeline in time does what the pipeline on    *)
(* time allows, recoveries that overflow and what comes of them included   *)
(* (remote_backend.py, queue_manager.py, services/__main__.py).            *)
THEOREM RemoteIsOnTime == LongestRun <= StaleAfter => (RemoteSpec => OnTimeSpec)
<1> SUFFICES ASSUME LongestRun <= StaleAfter PROVE RemoteSpec => OnTimeSpec
  OBVIOUS
<1> QED
  BY RemoteInvariance, PTL

(* With room for the stale jobs as well it is the sound pipeline.          *)
THEOREM RemoteIsSound == LongestRun <= StaleAfter => (RemoteSpec /\ []Roomy => SoundSpec)
<1> SUFFICES ASSUME LongestRun <= StaleAfter PROVE RemoteSpec /\ []Roomy => SoundSpec
  OBVIOUS
<1>1. RemoteSpec => OnTimeSpec
  BY RemoteIsOnTime
<1> QED
  BY <1>1, RoomIsSound, PTL

(* So its books are right, and it keeps the ledger of downloads: no caller *)
(* is left without its job, as long as the timeouts of remote_backend.py   *)
(* add up to no more than stale_after and recover_stale_tasks finds room.  *)
THEOREM RemoteKeepsBooks ==
  LongestRun <= StaleAfter => (RemoteSpec /\ []Roomy => []PInv /\ DownloadsKept)
<1> SUFFICES ASSUME LongestRun <= StaleAfter
             PROVE  RemoteSpec /\ []Roomy => []PInv /\ DownloadsKept
  OBVIOUS
<1>1. RemoteSpec /\ []Roomy => SoundSpec
  BY RemoteIsSound
<1> QED
  BY <1>1, PipelineInvariance, PipelineKeepsLedger, PTL

(* A job is no longer in its processor than the longest run, although the  *)
(* deadline is looked at between two polls only (execute_remote_download). *)
THEOREM RunsAreBounded == LongestRun <= StaleAfter => (RemoteSpec => []RunBounded)
<1> SUFFICES ASSUME LongestRun <= StaleAfter PROVE RemoteSpec => []RunBounded
  OBVIOUS
<1>1. RemoteSpec => [](OnTimeInv /\ RemoteInv)
  BY RemoteInvariance, PTL
<1>2. OnTimeInv /\ RemoteInv => RunBounded
  BY RunsEnd DEF OnTimeInv
<1> QED
  BY <1>1, <1>2, PTL

(* A temporary file belongs to a fetch that goes on or to a result         *)
(* (_save_remote_file).                                                    *)
THEOREM TempFilesOwned == LongestRun <= StaleAfter => (RemoteSpec => []TempsOwned)
<1> SUFFICES ASSUME LongestRun <= StaleAfter PROVE RemoteSpec => []TempsOwned
  OBVIOUS
<1>1. RemoteSpec => [](OnTimeInv /\ RemoteInv)
  BY RemoteInvariance, PTL
<1>2. RemoteInv => TempsOwned
  BY DEF RemoteInv
<1> QED
  BY <1>1, <1>2, PTL
=============================================================================
