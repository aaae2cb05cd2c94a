---------------------------- MODULE PipelineProofs ----------------------------
(***************************************************************************)
(* PInv is an invariant of SoundSpec, for any number of jobs, keys and     *)
(* workers, any size of the queue and any number of attempts.  Every       *)
(* action is shown to keep the types, then the books of the queue manager  *)
(* (by the kinds of step of PipelineBooksProofs), then what callers and    *)
(* cache rely on, which depends on the books by Load alone; and, where it  *)
(* held before, that all jobs are accounted for.  Then StandInv is shown   *)
(* to be an invariant of Spec: what callers and cache keep when the books  *)
(* are wrong.  At the end, the two premises of SoundSpec are taken one at  *)
(* a time.                                                                 *)
(***************************************************************************)
EXTENDS PipelineBooksProofs

(* A step that fills or empties neither queue nor hand changes no book.    *)
LEMMA SameBooks ==
  ASSUME TableTyped, BooksInv, UNCHANGED <<pending, unfinished, inFlight, stale, hand>>
  PROVE  TableTyped' /\ BooksInv' /\ (Balanced => Balanced') /\ Load' = Load
<1>1. \A w \in Workers : hand'[w] \in {hand[w], None} /\ hand'[w] \notin stale'
  BY DEF BooksInv, StaleIsOrphan
<1> QED
  BY <1>1, LeaveBooks DEF TableTyped

(* The rest of the invariant does not see a step of the books.             *)
LEMMA QuietCallers ==
  ASSUME CallersInv, Load' \subseteq Load,
         UNCHANGED <<waiters, future, attempts, result, cacheVars, pipelineVars>>
  PROVE  /\ CallersInv'
         /\ NoLostWaiter /\ Load' = Load => NoLostWaiter'
         /\ ReservationsReleased /\ Load' = Load => ReservationsReleased'
<1>1. CallersInv'
  BY DEF CallersInv, OneDownloadPerKey, FailuresBounded, CompletedIsClosed, Fresh, KeyedOnce,
         CompletedKeys, Keyed, cacheVars, pipelineVars
<1>2. NoLostWaiter /\ Load' = Load => NoLostWaiter'
  BY DEF NoLostWaiter, pipelineVars
<1>3. ReservationsReleased /\ Load' = Load => ReservationsReleased'
  BY DEF ReservationsReleased, cacheVars, pipelineVars
<1> QED
  BY <1>1, <1>2, <1>3

-----------------------------------------------------------------------------
(* Callers                                                                 *)

LEMMA DuplicateStep ==
  ASSUME OnTimeInv, NEW j \in Jobs, NEW k \in Keys, SubmitDuplicate(j, k)
  PROVE  OnTimeInv' /\ (Accounts => Accounts')
<1> USE DEF OnTimeInv, Accounts
<1>1. /\ UNCHANGED <<managerVars, poolVars, leaked>>
      /\ caller[j] = "new" /\ j \notin Retry
      /\ key' = [key EXCEPT ![j] = k]
      /\ caller' = [caller EXCEPT ![j] = "duplicate"]
  BY DEF SubmitDuplicate, Submitting, CallerGets
<1>2. UNCHANGED <<pending, unfinished, inFlight, stale, closed, attempts, waiters, future,
                  wpc, hand, recovery, pool, result>>
  BY <1>1 DEF managerVars, tableVars, waitVars, poolVars
<1>3. TableTyped' /\ BooksInv' /\ (Balanced => Balanced') /\ Load' = Load
  BY <1>2, TypedTable, SameBooks
<1>4. /\ holder' = holder /\ index' = index /\ indexOn' = indexOn
      /\ \/ completed' = completed
         \/ completed' = completed \union {k} /\ holder[k] = NoJob
  BY DEF SubmitDuplicate, Duplicate, Free, cacheVars
<1>5. TypeOK'
  BY <1>1, <1>2, <1>4 DEF TypeOK, ManagerTypeOK, PoolTypeOK, CacheTypeOK, Returned
<1>6. key \in [Jobs -> Keys \union {None}] /\ caller \in [Jobs -> {"new", "waiting"} \union Returned]
  BY DEF TypeOK
<1>7. /\ j \notin Load /\ future[j] = "none" /\ result[j] = "none" /\ attempts[j] = 0
      /\ key[j] = None /\ \A q \in Keys : holder[q] # j
  BY <1>1 DEF CallersInv, Fresh
<1>8. /\ CallersInv'
      /\ NoLostWaiter => NoLostWaiter'
      /\ ReservationsReleased => ReservationsReleased'
  <2>1. NoLostWaiter => NoLostWaiter'
    BY <1>1, <1>2, <1>3, <1>6, <1>7 DEF NoLostWaiter
  <2>2. OneDownloadPerKey'
    BY <1>1, <1>2, <1>3, <1>4, <1>6, <1>7, PipelineAssumption
    DEF CallersInv, OneDownloadPerKey, Keyed
  <2>3. ReservationsReleased => ReservationsReleased'
    BY <1>1, <1>2, <1>3, <1>4, <1>6, <1>7 DEF ReservationsReleased
  <2>4. FailuresBounded'
    BY <1>2, <1>3 DEF CallersInv, FailuresBounded
  <2>5. CompletedIsClosed'
    BY <1>4 DEF CallersInv, CompletedIsClosed
  <2>6. Fresh'
    BY <1>1, <1>2, <1>3, <1>4, <1>6 DEF CallersInv, Fresh
  <2>7. KeyedOnce'
    BY <1>1, <1>6 DEF CallersInv, KeyedOnce, Keyed
  <2>8. CompletedKeys'
    BY <1>1, <1>2, <1>4, <1>6, <1>7 DEF CallersInv, CompletedKeys, Keyed
  <2> QED
    BY <2>1, <2>2, <2>3, <2>4, <2>5, <2>6, <2>7, <2>8 DEF CallersInv
<1> QED
  BY <1>3, <1>5, <1>8

LEMMA SubmitStep ==
  ASSUME OnTimeInv, NEW j \in Jobs, NEW k \in Keys, Submit(j, k)
  PROVE  OnTimeInv' /\ (Accounts => Accounts')
<1> USE DEF OnTimeInv, Accounts
<1>1. /\ caller[j] = "new" /\ j \notin Retry
      /\ key' = [key EXCEPT ![j] = k]
      /\ caller' = [caller EXCEPT ![j] = "waiting"]
      /\ UNCHANGED <<wpc, hand, recovery, pool, result, leaked>>
  BY DEF Submit, Submitting, CallerGets, poolVars
<1>2. /\ pending' = Append(pending, j) /\ unfinished' = unfinished + 1
      /\ UNCHANGED <<inFlight, stale, closed, attempts>>
      /\ waiters' = waiters \union {j}
      /\ future' = [future EXCEPT ![j] = "pending"]
  BY DEF Submit, Enqueue, RegisterWaiter
<1>3. /\ k \notin completed /\ holder[k] = NoJob
      /\ holder' = [holder EXCEPT ![k] = j]
      /\ UNCHANGED <<completed, index>> /\ indexOn' \in {indexOn, FALSE}
  BY DEF Submit, TryReserve, Free, NotIndexed
<1>4. /\ j \notin Load /\ future[j] = "none" /\ result[j] = "none" /\ attempts[j] = 0
      /\ key[j] = None /\ \A q \in Keys : holder[q] # j
  BY <1>1 DEF CallersInv, Fresh
<1>5. TableTyped' /\ BooksInv' /\ (Balanced => Balanced') /\ Load' = Load \union {j}
  BY <1>1, <1>2, <1>4, TypedTable, PutBooks
<1>6. TypeOK'
  BY <1>1, <1>2, <1>3, <1>5
  DEF TypeOK, ManagerTypeOK, PoolTypeOK, CacheTypeOK, TableTyped, FutureStates
<1>7. /\ key \in [Jobs -> Keys \union {None}]
      /\ caller \in [Jobs -> {"new", "waiting"} \union Returned]
      /\ future \in [Jobs -> FutureStates]
      /\ holder \in [Keys -> Jobs \union {NoJob}]
  BY DEF TypeOK, ManagerTypeOK, CacheTypeOK
<1>8. /\ CallersInv'
      /\ NoLostWaiter => NoLostWaiter'
      /\ ReservationsReleased => ReservationsReleased'
  <2>1. NoLostWaiter => NoLostWaiter'
    BY <1>1, <1>2, <1>5, <1>7 DEF NoLostWaiter
  <2>2. OneDownloadPerKey'
    <3>1. \A i \in Jobs : i \in Load' /\ Keyed(i)' => holder'[key'[i]] = i /\ key'[i] \notin completed'
      <4> SUFFICES ASSUME NEW i \in Jobs, i \in Load', Keyed(i)'
                   PROVE  holder'[key'[i]] = i /\ key'[i] \notin completed'
        OBVIOUS
      <4>1. CASE i = j
        BY <1>1, <1>3, <1>7, <4>1
      <4>2. CASE i # j
        <5>1. i \in Load /\ Keyed(i) /\ key'[i] = key[i] /\ key[i] \in Keys
          BY <1>1, <1>5, <1>7, <4>2 DEF Keyed
        <5>2. holder[key[i]] = i /\ key[i] \notin completed
          BY <5>1 DEF CallersInv, OneDownloadPerKey
        <5> QED
          BY <1>3, <1>7, <5>1, <5>2, PipelineAssumption
      <4> QED
        BY <4>1, <4>2
    <3>2. \A i, n \in Jobs :
            result'[i] = "completed" /\ result'[n] = "completed" /\ Keyed(i)' /\ key'[i] = key'[n]
            => i = n
      BY <1>1, <1>4, <1>7 DEF CallersInv, OneDownloadPerKey, Keyed
    <3> QED
      BY <3>1, <3>2 DEF OneDownloadPerKey
  <2>3. ReservationsReleased => ReservationsReleased'
    BY <1>1, <1>3, <1>4, <1>5, <1>7 DEF ReservationsReleased
  <2>4. FailuresBounded'
    BY <1>1, <1>2, <1>4, <1>5, ManagerAssumption DEF CallersInv, FailuresBounded
  <2>5. CompletedIsClosed'
    BY <1>3, <1>7 DEF CallersInv, CompletedIsClosed, TypeOK, CacheTypeOK
  <2>6. Fresh'
    BY <1>1, <1>2, <1>3, <1>5, <1>7 DEF CallersInv, Fresh
  <2>7. KeyedOnce'
    BY <1>1, <1>7 DEF CallersInv, KeyedOnce, Keyed
  <2>8. CompletedKeys'
    BY <1>1, <1>3, <1>4, <1>7 DEF CallersInv, CompletedKeys, Keyed
  <2> QED
    BY <2>1, <2>2, <2>3, <2>4, <2>5, <2>6, <2>7, <2>8 DEF CallersInv
<1> QED
  BY <1>5, <1>6, <1>8

LEMMA OverflowStep ==
  ASSUME OnTimeInv, NEW j \in Jobs, NEW k \in Keys, SubmitOverflow(j, k)
  PROVE  OnTimeInv' /\ (Accounts => Accounts')
<1> USE DEF OnTimeInv, Accounts
<1>1. /\ caller[j] = "new" /\ j \notin Retry
      /\ key' = [key EXCEPT ![j] = k]
      /\ caller' = [caller EXCEPT ![j] = "refused"]
      /\ UNCHANGED <<completed, holder, index, leaked>> /\ indexOn' \in {indexOn, FALSE}
  BY DEF SubmitOverflow, Submitting, CallerGets, NotIndexed
<1>2. UNCHANGED <<pending, unfinished, inFlight, stale, closed, attempts, waiters, future,
                  wpc, hand, recovery, pool, result>>
  BY DEF SubmitOverflow, managerVars, tableVars, waitVars, poolVars
<1>3. TableTyped' /\ BooksInv' /\ (Balanced => Balanced') /\ Load' = Load
  BY <1>2, TypedTable, SameBooks
<1>4. TypeOK'
  BY <1>1, <1>2 DEF TypeOK, ManagerTypeOK, PoolTypeOK, CacheTypeOK, Returned
<1>5. /\ key \in [Jobs -> Keys \union {None}]
      /\ caller \in [Jobs -> {"new", "waiting"} \union Returned]
  BY DEF TypeOK
<1>6. /\ j \notin Load /\ future[j] = "none" /\ result[j] = "none"
      /\ \A q \in Keys : holder[q] # j
  BY <1>1 DEF CallersInv, Fresh
<1>7. /\ CallersInv'
      /\ NoLostWaiter => NoLostWaiter'
      /\ ReservationsReleased => ReservationsReleased'
  <2>1. NoLostWaiter => NoLostWaiter'
    BY <1>1, <1>2, <1>3, <1>5, <1>6 DEF NoLostWaiter
  <2>2. OneDownloadPerKey'
    BY <1>1, <1>2, <1>3, <1>5, <1>6 DEF CallersInv, OneDownloadPerKey, Keyed
  <2>3. ReservationsReleased => ReservationsReleased'
    BY <1>1, <1>3, <1>5, <1>6 DEF ReservationsReleased
  <2>4. FailuresBounded' /\ CompletedIsClosed'
    BY <1>1, <1>2, <1>3 DEF CallersInv, FailuresBounded, CompletedIsClosed
  <2>5. Fresh'
    BY <1>1, <1>2, <1>3, <1>5 DEF CallersInv, Fresh
  <2>6. KeyedOnce' /\ CompletedKeys'
    BY <1>1, <1>2, <1>5, <1>6 DEF CallersInv, KeyedOnce, CompletedKeys, Keyed
  <2> QED
    BY <2>1, <2>2, <2>3, <2>4, <2>5, <2>6 DEF CallersInv
<1> QED
  BY <1>3, <1>4, <1>7

LEMMA ClosedStep ==
  ASSUME OnTimeInv, NEW j \in Jobs, NEW k \in Keys, SubmitClosed(j, k)
  PROVE  OnTimeInv' /\ (Accounts => Accounts')
<1> USE DEF OnTimeInv, Accounts
<1>1. /\ caller[j] = "new" /\ j \notin Retry
      /\ key' = [key EXCEPT ![j] = k]
      /\ caller' = [caller EXCEPT ![j] = "refused"]
      /\ k \notin completed /\ holder[k] = NoJob
      /\ holder' = [holder EXCEPT ![k] = j]
      /\ UNCHANGED <<completed, index>> /\ indexOn' \in {indexOn, FALSE}
      /\ leaked' = leaked \union {j}
  BY DEF SubmitClosed, Submitting, CallerGets, TryReserve, Free, NotIndexed
<1>2. UNCHANGED <<pending, unfinished, inFlight, stale, closed, attempts, waiters, future,
                  wpc, hand, recovery, pool, result>>
  BY DEF SubmitClosed, managerVars, tableVars, waitVars, poolVars
<1>3. TableTyped' /\ BooksInv' /\ (Balanced => Balanced') /\ Load' = Load
  BY <1>2, TypedTable, SameBooks
<1>4. TypeOK'
  BY <1>1, <1>2 DEF TypeOK, ManagerTypeOK, PoolTypeOK, CacheTypeOK, Returned
<1>5. /\ key \in [Jobs -> Keys \union {None}]
      /\ caller \in [Jobs -> {"new", "waiting"} \union Returned]
      /\ holder \in [Keys -> Jobs \union {NoJob}] /\ completed \subseteq Keys
  BY DEF TypeOK, CacheTypeOK
<1>6. /\ j \notin Load /\ future[j] = "none" /\ result[j] = "none"
      /\ \A q \in Keys : holder[q] # j
  BY <1>1 DEF CallersInv, Fresh
<1>7. /\ CallersInv'
      /\ NoLostWaiter => NoLostWaiter'
      /\ ReservationsReleased => ReservationsReleased'
  <2>1. NoLostWaiter => NoLostWaiter'
    BY <1>1, <1>2, <1>3, <1>5, <1>6 DEF NoLostWaiter
  <2>2. OneDownloadPerKey'
    BY <1>1, <1>2, <1>3, <1>5, <1>6, PipelineAssumption DEF CallersInv, OneDownloadPerKey, Keyed
  <2>3. ReservationsReleased => ReservationsReleased'
    BY <1>1, <1>3, <1>5, <1>6 DEF ReservationsReleased
  <2>4. FailuresBounded'
    BY <1>2, <1>3 DEF CallersInv, FailuresBounded
  <2>5. CompletedIsClosed'
    BY <1>1, <1>5 DEF CallersInv, CompletedIsClosed
  <2>6. Fresh'
    BY <1>1, <1>2, <1>3, <1>5 DEF CallersInv, Fresh
  <2>7. KeyedOnce' /\ CompletedKeys'
    BY <1>1, <1>2, <1>5, <1>6 DEF CallersInv, KeyedOnce, CompletedKeys, Keyed
  <2> QED
    BY <2>1, <2>2, <2>3, <2>4, <2>5, <2>6, <2>7 DEF CallersInv
<1> QED
  BY <1>3, <1>4, <1>7

LEMMA PlainStep ==
  ASSUME OnTimeInv, NEW j \in Jobs, SubmitPlain(j)
  PROVE  OnTimeInv' /\ (Accounts => Accounts')
<1> USE DEF OnTimeInv, Accounts
<1>1. /\ caller[j] = "new" /\ j \in Retry
      /\ UNCHANGED <<wpc, hand, recovery, pool, result, completed, holder, index, indexOn,
                     key, leaked>>
  BY DEF SubmitPlain, poolVars, cacheVars
<1>2. /\ j \notin Load /\ future[j] = "none" /\ result[j] = "none" /\ attempts[j] = 0
      /\ key[j] = None /\ \A q \in Keys : holder[q] # j
  BY <1>1 DEF CallersInv, Fresh
<1>3. /\ key \in [Jobs -> Keys \union {None}]
      /\ caller \in [Jobs -> {"new", "waiting"} \union Returned]
      /\ future \in [Jobs -> FutureStates]
  BY DEF TypeOK, ManagerTypeOK
<1>4. CASE Enqueue(j) /\ RegisterWaiter(j) /\ CallerGets(j, "waiting")
  <2>1. /\ pending' = Append(pending, j) /\ unfinished' = unfinished + 1
        /\ UNCHANGED <<inFlight, stale, closed, attempts>>
        /\ waiters' = waiters \union {j}
        /\ future' = [future EXCEPT ![j] = "pending"]
        /\ caller' = [caller EXCEPT ![j] = "waiting"]
    BY <1>4 DEF Enqueue, RegisterWaiter, CallerGets
  <2>2. TableTyped' /\ BooksInv' /\ (Balanced => Balanced') /\ Load' = Load \union {j}
    BY <1>1, <1>2, <2>1, TypedTable, PutBooks
  <2>3. TypeOK'
    BY <1>1, <2>1, <2>2
    DEF TypeOK, ManagerTypeOK, PoolTypeOK, CacheTypeOK, TableTyped, FutureStates
  <2>4. NoLostWaiter => NoLostWaiter'
    BY <1>3, <2>1, <2>2 DEF NoLostWaiter
  <2>5. OneDownloadPerKey' /\ KeyedOnce' /\ CompletedKeys'
    BY <1>1, <1>2, <2>2 DEF CallersInv, OneDownloadPerKey, KeyedOnce, CompletedKeys, Keyed
  <2>6. CompletedIsClosed' /\ (ReservationsReleased => ReservationsReleased')
    BY <1>1, <2>2 DEF CallersInv, ReservationsReleased, CompletedIsClosed
  <2>7. FailuresBounded'
    BY <1>1, <1>2, <2>1, <2>2, ManagerAssumption DEF CallersInv, FailuresBounded
  <2>8. Fresh'
    BY <1>1, <1>3, <2>1, <2>2 DEF CallersInv, Fresh
  <2> QED
    BY <2>2, <2>3, <2>4, <2>5, <2>6, <2>7, <2>8 DEF CallersInv
<1>5. CASE UNCHANGED managerVars /\ CallerGets(j, "refused")
  <2>1. /\ UNCHANGED <<pending, unfinished, inFlight, stale, closed, attempts, waiters, future>>
        /\ caller' = [caller EXCEPT ![j] = "refused"]
    BY <1>5 DEF managerVars, tableVars, waitVars, CallerGets
  <2>2. TableTyped' /\ BooksInv' /\ (Balanced => Balanced') /\ Load' = Load
    BY <1>1, <2>1, TypedTable, SameBooks
  <2>3. TypeOK'
    BY <1>1, <2>1 DEF TypeOK, ManagerTypeOK, PoolTypeOK, CacheTypeOK, Returned
  <2>4. FailuresBounded' /\ (NoLostWaiter => NoLostWaiter')
    BY <1>1, <1>2, <1>3, <2>1, <2>2 DEF CallersInv, NoLostWaiter, FailuresBounded
  <2>5. OneDownloadPerKey' /\ KeyedOnce' /\ CompletedKeys'
    BY <1>1, <2>2 DEF CallersInv, OneDownloadPerKey, KeyedOnce, CompletedKeys, Keyed
  <2>6. CompletedIsClosed' /\ (ReservationsReleased => ReservationsReleased')
    BY <1>1, <2>2 DEF CallersInv, ReservationsReleased, CompletedIsClosed
  <2>7. Fresh'
    BY <1>1, <1>3, <2>1, <2>2 DEF CallersInv, Fresh
  <2> QED
    BY <2>2, <2>3, <2>4, <2>5, <2>6, <2>7 DEF CallersInv
<1> QED
  BY <1>4, <1>5 DEF SubmitPlain

(* The end of a wait, by whatever comes first.                             *)
LEMMA WaitStep ==
  ASSUME OnTimeInv, NEW j \in Jobs, Interrupt(j) \/ Return(j)
  PROVE  OnTimeInv' /\ (Accounts => Accounts')
<1> USE DEF OnTimeInv, Accounts
<1>1. /\ caller[j] = "waiting"
      /\ UNCHANGED <<pending, unfinished, inFlight, stale, closed, attempts,
                     wpc, hand, recovery, pool, result,
                     completed, holder, index, indexOn, key, leaked>>
  BY DEF Interrupt, Return, tableVars, poolVars, cacheVars, pipelineVars
<1>2. /\ future \in [Jobs -> FutureStates] /\ waiters \subseteq Jobs
      /\ caller \in [Jobs -> {"new", "waiting"} \union Returned]
  BY DEF TypeOK, ManagerTypeOK
<1>3. /\ waiters' \in {waiters, waiters \ {j}}
      /\ future' \in [Jobs -> FutureStates] /\ future'[j] # "pending"
      /\ \A i \in Jobs : i # j => future'[i] = future[i]
      /\ \/ caller' = caller
         \/ \E outcome \in Returned : caller' = [caller EXCEPT ![j] = outcome]
  <2>1. CASE Interrupt(j)
    <3>1. future' = [future EXCEPT ![j] = IF @ = "pending" THEN "cancelled" ELSE @]
      BY <2>1 DEF Interrupt, ExpireWait, AbandonWait, Resolve
    <3>2. waiters' \in {waiters, waiters \ {j}} /\ caller' = caller
      BY <2>1 DEF Interrupt, ExpireWait, AbandonWait, pipelineVars
    <3>3. /\ future'[j] = IF future[j] = "pending" THEN "cancelled" ELSE future[j]
          /\ \A i \in Jobs : i # j => future'[i] = future[i]
          /\ DOMAIN future' = Jobs
      BY <1>2, <3>1
    <3> QED
      BY <1>2, <3>1, <3>2, <3>3 DEF FutureStates
  <2>2. CASE Return(j)
    BY <1>2, <2>2 DEF Return, UnregisterWaiter, CallerGets, Returned
  <2> QED
    BY <2>1, <2>2
<1>4. TableTyped' /\ BooksInv' /\ (Balanced => Balanced') /\ Load' = Load
  BY <1>1, TypedTable, SameBooks
<1>5. TypeOK'
  <2>1. waiters' \subseteq Jobs
    BY <1>2, <1>3
  <2>2. caller' \in [Jobs -> {"new", "waiting"} \union Returned]
    BY <1>2, <1>3
  <2>3. ManagerTypeOK' /\ PoolTypeOK' /\ CacheTypeOK(Jobs)'
    BY <1>1, <1>3, <2>1 DEF TypeOK, ManagerTypeOK, PoolTypeOK, CacheTypeOK
  <2> QED
    BY <1>1, <2>2, <2>3 DEF TypeOK
<1>6. /\ CallersInv'
      /\ NoLostWaiter => NoLostWaiter'
      /\ ReservationsReleased => ReservationsReleased'
  <2>1. NoLostWaiter => NoLostWaiter'
    BY <1>2, <1>3, <1>4 DEF NoLostWaiter
  <2>2. OneDownloadPerKey' /\ KeyedOnce' /\ CompletedKeys'
    BY <1>1, <1>4 DEF CallersInv, OneDownloadPerKey, KeyedOnce, CompletedKeys, Keyed
  <2>3. /\ CompletedIsClosed' /\ FailuresBounded'
        /\ ReservationsReleased => ReservationsReleased'
    BY <1>1, <1>4 DEF CallersInv, ReservationsReleased, CompletedIsClosed, FailuresBounded
  <2>4. Fresh'
    <3>1. \A i \in Jobs : caller'[i] = "new" => caller[i] = "new" /\ i # j
      BY <1>1, <1>2, <1>3 DEF Returned
    <3> QED
      BY <1>1, <1>3, <1>4, <3>1 DEF CallersInv, Fresh
  <2> QED
    BY <2>1, <2>2, <2>3, <2>4 DEF CallersInv
<1> QED
  BY <1>4, <1>5, <1>6

-----------------------------------------------------------------------------
(* Steps that callers and cache do not see                                 *)

LEMMA TakeStep ==
  ASSUME OnTimeInv, NEW w \in Workers, Takes(w)
  PROVE  OnTimeInv' /\ (Accounts => Accounts')
<1> USE DEF OnTimeInv, Accounts
<1>1. PICK j \in Jobs : Take(w, j) /\ UNCHANGED <<cacheVars, pipelineVars>>
  BY DEF Takes
<1>2. /\ Dequeue(j) /\ hand' = [hand EXCEPT ![w] = j] /\ wpc' = [wpc EXCEPT ![w] = "busy"]
      /\ UNCHANGED <<closed, attempts, waiters, future, recovery, pool, result>>
  BY <1>1 DEF Take, Dequeue, waitVars
<1>3. TableTyped' /\ BooksInv' /\ (Balanced => Balanced') /\ Load' = Load
  BY <1>2, TypedTable, TakeBooks
<1>4. TypeOK'
  BY <1>1, <1>2, <1>3
  DEF TypeOK, ManagerTypeOK, PoolTypeOK, CacheTypeOK, TableTyped, cacheVars, pipelineVars
<1>5. /\ CallersInv'
      /\ NoLostWaiter => NoLostWaiter'
      /\ ReservationsReleased => ReservationsReleased'
  BY <1>1, <1>2, <1>3, QuietCallers
<1> QED
  BY <1>3, <1>4, <1>5

LEMMA RecoverStep ==
  ASSUME OnTimeInv, Recovers
  PROVE  OnTimeInv' /\ (Accounts => Accounts')
<1> USE DEF OnTimeInv, Accounts
<1>1. /\ Recover
      /\ UNCHANGED <<closed, attempts, waiters, future, wpc, hand, recovery, pool, result,
                     cacheVars, pipelineVars>>
  BY DEF Recovers, RecoverRuns, Recover, waitVars, poolVars
<1>2. TableTyped' /\ BooksInv' /\ (Balanced => Balanced') /\ Load' = Load
  BY <1>1, TypedTable, RecoverBooks
<1>3. TypeOK'
  BY <1>1, <1>2
  DEF TypeOK, ManagerTypeOK, PoolTypeOK, CacheTypeOK, TableTyped, cacheVars, pipelineVars
<1>4. /\ CallersInv'
      /\ NoLostWaiter => NoLostWaiter'
      /\ ReservationsReleased => ReservationsReleased'
  BY <1>1, <1>2, QuietCallers
<1> QED
  BY <1>2, <1>3, <1>4

(* An orphan becomes stale; workers leave their jobs; stop begins.         *)
LEMMA LeaveStep ==
  ASSUME OnTimeInv,
         \/ \E j \in Jobs : AgedOrphan(j)
         \/ \E w \in Workers : Crashes(w)
         \/ Stops
  PROVE  OnTimeInv' /\ (Accounts => Accounts')
<1> USE DEF OnTimeInv, Accounts
<1>1. UNCHANGED <<pending, unfinished, inFlight, attempts, waiters, future, result,
                  cacheVars, pipelineVars>>
  BY DEF AgedOrphan, Aged, Age, Crashes, Crash, Stops, StopBegins, StopBreaks, StopEnds, CloseQueue,
         managerVars, tableVars, waitVars, poolVars
<1>2. /\ closed' \in BOOLEAN
      /\ wpc' \in [Workers -> {"getting", "busy", "dead", "cancelled"}]
      /\ recovery' \in {"sleeping", "dead", "stopped"}
      /\ pool' \in {"running", "stopping", "stopped", "broken"}
  BY DEF AgedOrphan, Aged, Age, Crashes, Crash, Stops, StopBegins, StopBreaks, StopEnds,
         CloseQueue, LetGo,
         managerVars, tableVars, poolVars, TypeOK, ManagerTypeOK, PoolTypeOK
<1>3. /\ stale' \subseteq inFlight
      /\ hand' \in [Workers -> Jobs \union {None}]
      /\ \A w \in Workers : hand'[w] \in {hand[w], None} /\ hand'[w] \notin stale'
  <2>1. CASE \E j \in Jobs : AgedOrphan(j)
    BY <2>1 DEF AgedOrphan, Aged, Age, InHand, poolVars, TypeOK, ManagerTypeOK, PoolTypeOK,
                BooksInv, StaleIsOrphan
  <2>2. CASE hand' = hand /\ stale' = stale
    BY <2>2 DEF TypeOK, ManagerTypeOK, PoolTypeOK, BooksInv, StaleIsOrphan
  <2>3. CASE stale' = stale /\ \E v \in Workers : hand' = [hand EXCEPT ![v] = None]
    BY <2>3, ManagerAssumption
    DEF TypeOK, ManagerTypeOK, PoolTypeOK, BooksInv, StaleIsOrphan
  <2>4. CASE stale' = stale /\ hand' = [v \in Workers |-> None]
    BY <2>4, ManagerAssumption DEF TypeOK, ManagerTypeOK
  <2> QED
    BY <2>1, <2>2, <2>3, <2>4
    DEF Crashes, Crash, LetGo, Stops, StopBegins, StopBreaks, StopEnds, CloseQueue, managerVars,
        tableVars
<1>4. TableTyped' /\ BooksInv' /\ (Balanced => Balanced') /\ Load' = Load
  BY <1>1, <1>3, TypedTable, LeaveBooks
<1>5. TypeOK'
  BY <1>1, <1>2, <1>4
  DEF TypeOK, ManagerTypeOK, PoolTypeOK, CacheTypeOK, TableTyped, cacheVars, pipelineVars
<1>6. /\ CallersInv'
      /\ NoLostWaiter => NoLostWaiter'
      /\ ReservationsReleased => ReservationsReleased'
  BY <1>1, <1>4, QuietCallers
<1> QED
  BY <1>4, <1>5, <1>6

-----------------------------------------------------------------------------
(* A worker has a result                                                   *)

(* The books see a job that is counted as done, or cannot be.              *)
LEMMA ResultBooks ==
  ASSUME TypeOK, BooksInv, NEW w \in Workers, NEW j \in Jobs, hand[w] = j,
         Land(j), TaskDone \/ (unfinished = 0 /\ unfinished' = unfinished),
         pending' = pending, hand' = [hand EXCEPT ![w] = None]
  PROVE  TableTyped' /\ BooksInv' /\ (Balanced => Balanced') /\ Load' = Load \ {j}
<1>1. TableTyped
  BY TypedTable
<1>2. unfinished' \in Nat
  BY <1>1 DEF TableTyped, TaskDone
<1>3. TableTyped' /\ BooksInv' /\ (Balanced /\ TaskDone => Balanced') /\ Load' = Load \ {j}
  BY <1>1, <1>2, DropBooks
<1>4. inFlight # {}
  BY ManagerAssumption DEF BooksInv, OnePlace
<1>5. Balanced => TaskDone
  <2>1. Balanced => unfinished > 0
    BY <1>1, <1>4, CountedWork
  <2> QED
    BY <2>1
<1> QED
  BY <1>3, <1>5

(* What the caller and the records see of it.                              *)
LEMMA PublishEffect ==
  ASSUME TypeOK, NEW j \in Jobs, NEW verdict \in {"completed", "failed"}, Publish(j, verdict)
  PROVE  /\ waiters' = waiters \ {j}
         /\ future' \in [Jobs -> FutureStates]
         /\ \A i \in Jobs :
              future'[i] = "pending" => future[i] = "pending" /\ (i # j \/ j \notin waiters)
         /\ \A i \in Jobs : i # j => future'[i] = future[i]
         /\ result' \in [Jobs -> {"none", "completed", "failed"}]
         /\ result'[j] = verdict
         /\ \A i \in Jobs : i # j => result'[i] = result[i]
<1>1. future \in [Jobs -> FutureStates] /\ result \in [Jobs -> {"none", "completed", "failed"}]
  BY DEF TypeOK, ManagerTypeOK, PoolTypeOK
<1>3. CASE j \in waiters
  <2>1. future' = [future EXCEPT ![j] = IF future[j] = "pending" THEN "done" ELSE future[j]]
    BY <1>3 DEF Publish, PublishResult, Resolve
  <2>2. /\ future'[j] = IF future[j] = "pending" THEN "done" ELSE future[j]
        /\ \A i \in Jobs : i # j => future'[i] = future[i]
        /\ future' \in [Jobs -> FutureStates]
    BY <1>1, <2>1 DEF FutureStates
  <2> QED
    BY <1>1, <2>2 DEF Publish, PublishResult
<1>4. CASE j \notin waiters
  BY <1>1, <1>4 DEF Publish, PublishResult
<1> QED
  BY <1>3, <1>4

LEMMA CompleteStep ==
  ASSUME OnTimeInv, NEW w \in Workers, NEW j \in Jobs,
         Complete(w, j) \/ Miscount(w, j, "completed"),
         CacheCompleted(j), UNCHANGED pipelineVars
  PROVE  OnTimeInv' /\ (Accounts => Accounts')
<1> USE DEF OnTimeInv, Accounts
<1>1. Publish(j, "completed") /\ CacheCompleted(j)
  BY DEF Complete, Miscount
<1>2. /\ hand[w] = j /\ Land(j) /\ (TaskDone \/ (unfinished = 0 /\ unfinished' = unfinished))
      /\ UNCHANGED <<pending, closed, attempts, recovery, pool, key, caller, leaked>>
      /\ wpc' \in {[wpc EXCEPT ![w] = "getting"], [wpc EXCEPT ![w] = "dead"]}
      /\ hand' = [hand EXCEPT ![w] = None]
  <2>1. CASE Complete(w, j)
    BY <2>1 DEF Complete, Busy, Acknowledge, LetGo, pipelineVars
  <2>2. CASE Miscount(w, j, "completed")
    BY <2>2 DEF Miscount, Busy, LandUncounted, TaskDoneRaises, LetGo, pipelineVars
  <2> QED
    BY <2>1, <2>2
<1>3. TableTyped' /\ BooksInv' /\ (Balanced => Balanced') /\ Load' = Load \ {j}
  BY <1>2, ResultBooks
<1>4. j \in Load
  BY <1>2, ManagerAssumption DEF BooksInv, OnePlace, Load
<1>5. /\ waiters' = waiters \ {j}
      /\ future' \in [Jobs -> FutureStates]
      /\ \A i \in Jobs :
           future'[i] = "pending" => future[i] = "pending" /\ (i # j \/ j \notin waiters)
      /\ \A i \in Jobs : i # j => future'[i] = future[i]
      /\ result' \in [Jobs -> {"none", "completed", "failed"}]
      /\ result'[j] = "completed"
      /\ \A i \in Jobs : i # j => result'[i] = result[i]
  BY <1>1, PublishEffect
<1>6. /\ holder \in [Keys -> Jobs \union {NoJob}] /\ completed \subseteq Keys
      /\ index \subseteq Keys /\ indexOn \in BOOLEAN
      /\ key \in [Jobs -> Keys \union {None}]
  BY DEF TypeOK, CacheTypeOK
<1>7. \/ /\ Keyed(j) /\ key[j] \in Keys
         /\ holder' = [holder EXCEPT ![key[j]] = NoJob]
         /\ completed' = completed \union {key[j]}
      \/ ~Keyed(j) /\ holder' = holder /\ completed' = completed
  BY <1>1, <1>6 DEF CacheCompleted, Commit, Keyed, cacheVars
<1>8. index' \subseteq Keys /\ indexOn' \in BOOLEAN
  <2>1. CASE Keyed(j) /\ Commit(key[j])
    <3>1. key[j] \in Keys
      BY <1>6, <2>1 DEF Keyed
    <3>2. index' \subseteq Keys
      BY <1>6, <2>1, <3>1 DEF Commit
    <3>3. indexOn' \in BOOLEAN
      BY <1>6, <2>1 DEF Commit
    <3> QED
      BY <3>2, <3>3
  <2>2. CASE UNCHANGED cacheVars
    BY <1>6, <2>2 DEF cacheVars
  <2> QED
    BY <1>1, <2>1, <2>2 DEF CacheCompleted
<1>9. TypeOK'
  <2>1. ManagerTypeOK'
    BY <1>2, <1>3, <1>5 DEF TypeOK, ManagerTypeOK, TableTyped
  <2>2. PoolTypeOK'
    BY <1>2, <1>5 DEF TypeOK, PoolTypeOK
  <2>3. CacheTypeOK(Jobs)'
    BY <1>6, <1>7, <1>8 DEF CacheTypeOK
  <2> QED
    BY <1>2, <2>1, <2>2, <2>3 DEF TypeOK
<1>10. Keyed(j) => holder[key[j]] = j /\ key[j] \notin completed
  BY <1>4 DEF CallersInv, OneDownloadPerKey
<1>11. /\ CallersInv'
       /\ NoLostWaiter => NoLostWaiter'
       /\ ReservationsReleased => ReservationsReleased'
  <2>1. NoLostWaiter => NoLostWaiter'
    BY <1>2, <1>3, <1>5 DEF NoLostWaiter
  <2>2. OneDownloadPerKey'
    <3>1. \A i \in Jobs : i \in Load' /\ Keyed(i)' => holder'[key'[i]] = i /\ key'[i] \notin completed'
      <4> SUFFICES ASSUME NEW i \in Jobs, i \in Load', Keyed(i)'
                   PROVE  holder'[key'[i]] = i /\ key'[i] \notin completed'
        OBVIOUS
      <4>1. /\ i \in Load /\ i # j /\ key'[i] = key[i] /\ key[i] \in Keys
            /\ holder[key[i]] = i /\ key[i] \notin completed
        BY <1>2, <1>3, <1>6 DEF CallersInv, OneDownloadPerKey, Keyed
      <4> QED
        BY <1>6, <1>7, <1>10, <4>1
    <3>2. \A i, n \in Jobs :
            result'[i] = "completed" /\ result'[n] = "completed" /\ Keyed(i)' /\ key'[i] = key'[n]
            => i = n
      BY <1>2, <1>5, <1>10 DEF CallersInv, OneDownloadPerKey, CompletedKeys, Keyed
    <3> QED
      BY <3>1, <3>2 DEF OneDownloadPerKey
  <2>3. ReservationsReleased => ReservationsReleased'
    <3> SUFFICES ASSUME ReservationsReleased, NEW k \in Keys, holder'[k] # NoJob
                 PROVE  holder'[k] \in Load' \union leaked' /\ key'[holder'[k]] = k
      BY DEF ReservationsReleased
    <3>1. holder'[k] = holder[k] /\ (Keyed(j) => k # key[j])
      BY <1>6, <1>7
    <3>2. holder[k] \in Load \union leaked /\ key[holder[k]] = k
      BY <3>1 DEF ReservationsReleased
    <3>3. holder[k] # j
      BY <3>1, <3>2, PipelineAssumption DEF Keyed
    <3> QED
      BY <1>2, <1>3, <3>1, <3>2, <3>3
  <2>4. FailuresBounded'
    BY <1>2, <1>3, <1>5 DEF CallersInv, FailuresBounded
  <2>5. CompletedIsClosed'
    BY <1>6, <1>7 DEF CallersInv, CompletedIsClosed
  <2>6. Fresh'
    <3>1. \A i \in Jobs : caller'[i] = "new" => i # j
      BY <1>2, <1>4 DEF CallersInv, Fresh
    <3>2. \A k \in Keys : holder'[k] \in {holder[k], NoJob}
      BY <1>6, <1>7
    <3> QED
      BY <1>2, <1>3, <1>5, <3>1, <3>2, PipelineAssumption DEF CallersInv, Fresh
  <2>7. KeyedOnce' /\ CompletedKeys'
    BY <1>2, <1>5, <1>7 DEF CallersInv, KeyedOnce, CompletedKeys, Keyed
  <2> QED
    BY <2>1, <2>2, <2>3, <2>4, <2>5, <2>6, <2>7 DEF CallersInv
<1> QED
  BY <1>3, <1>9, <1>11

LEMMA FailStep ==
  ASSUME OnTimeInv, NEW w \in Workers, NEW j \in Jobs,
         Fail(w, j) \/ FailOverflow(w, j) \/ Miscount(w, j, "failed"),
         CacheFailed(j), UNCHANGED <<key, caller>>
  PROVE  OnTimeInv' /\ (Accounts => Accounts')
<1> USE DEF OnTimeInv, Accounts
<1>1. Fail(w, j) \/ FailOverflow(w, j) \/ Miscount(w, j, "failed")
  OBVIOUS
<1>2. /\ hand[w] = j /\ Land(j) /\ Publish(j, "failed")
      /\ UNCHANGED <<closed, recovery, pool, key, caller>>
      /\ wpc' \in {[wpc EXCEPT ![w] = "getting"], [wpc EXCEPT ![w] = "dead"]}
      /\ hand' = [hand EXCEPT ![w] = None]
  BY <1>1
  DEF Fail, FailOverflow, Miscount, Busy, Acknowledge, LandUncounted, NackRequeue, NackGiveUp,
      NackOverflow, LetGo
<1>3. \/ /\ attempts' \in {attempts, [attempts EXCEPT ![j] = @ + 1]}
         /\ TaskDone \/ (unfinished = 0 /\ unfinished' = unfinished)
         /\ pending' = pending
      \/ /\ j \in Retry /\ attempts' = [attempts EXCEPT ![j] = @ + 1]
         /\ ~(attempts[j] + 1 >= MaxAttempts)
         /\ pending' = Append(pending, j) /\ unfinished' = unfinished
  <2>1. CASE Acknowledge(j) \/ LandUncounted(j) \/ NackGiveUp(j) \/ NackOverflow(j)
    BY <2>1
    DEF Acknowledge, LandUncounted, TaskDoneRaises, NackGiveUp, NackOverflow, CountAttempt
  <2>2. CASE j \in Retry /\ NackRequeue(j)
    BY <2>2 DEF NackRequeue, CountAttempt, Exhausted
  <2> QED
    BY <1>1, <2>1, <2>2 DEF Fail, FailOverflow, Miscount
<1>4. /\ TableTyped' /\ BooksInv' /\ (Balanced => Balanced')
      /\ \/ Load' = Load \ {j}
         \/ j \in Retry /\ Load' = Load /\ ~(attempts[j] + 1 >= MaxAttempts)
  <2>1. CASE /\ TaskDone \/ (unfinished = 0 /\ unfinished' = unfinished)
             /\ pending' = pending
    BY <1>2, <2>1, ResultBooks
  <2>2. CASE /\ j \in Retry /\ ~(attempts[j] + 1 >= MaxAttempts)
             /\ pending' = Append(pending, j) /\ unfinished' = unfinished
    BY <1>2, <2>2, TypedTable, RequeueBooks
  <2> QED
    BY <1>3, <2>1, <2>2
<1>5. j \in Load
  BY <1>2, ManagerAssumption DEF BooksInv, OnePlace, Load
<1>6. /\ waiters' = waiters \ {j}
      /\ future' \in [Jobs -> FutureStates]
      /\ \A i \in Jobs :
           future'[i] = "pending" => future[i] = "pending" /\ (i # j \/ j \notin waiters)
      /\ \A i \in Jobs : i # j => future'[i] = future[i]
      /\ result' \in [Jobs -> {"none", "completed", "failed"}]
      /\ result'[j] = "failed"
      /\ \A i \in Jobs : i # j => result'[i] = result[i]
  BY <1>2, PublishEffect
<1>7. /\ holder \in [Keys -> Jobs \union {NoJob}] /\ key \in [Jobs -> Keys \union {None}]
      /\ attempts \in [Jobs -> Nat] /\ leaked \subseteq Jobs
  BY DEF TypeOK, ManagerTypeOK, CacheTypeOK
<1>8. /\ UNCHANGED <<completed, index, indexOn>>
      /\ \/ Keyed(j) /\ holder' = [holder EXCEPT ![key[j]] = NoJob] /\ leaked' = leaked
         \/ Keyed(j) /\ holder' = holder /\ leaked' = leaked \union {j}
         \/ ~Keyed(j) /\ holder' = holder /\ leaked' = leaked
  BY DEF CacheFailed, Abort, cacheVars
<1>9. /\ attempts' \in [Jobs -> Nat]
      /\ \A i \in Jobs : i # j => attempts'[i] = attempts[i]
      /\ attempts'[j] \in {attempts[j], attempts[j] + 1}
  BY <1>3, <1>7
<1>10. TypeOK'
  <2>1. holder' \in [Keys -> Jobs \union {NoJob}] /\ leaked' \subseteq Jobs
    BY <1>7, <1>8
  <2>2. wpc' \in [Workers -> {"getting", "busy", "dead", "cancelled"}]
    BY <1>2 DEF TypeOK, PoolTypeOK
  <2> QED
    BY <1>2, <1>4, <1>6, <1>8, <1>9, <2>1, <2>2
    DEF TypeOK, ManagerTypeOK, PoolTypeOK, CacheTypeOK, TableTyped
<1>11. Load' \subseteq Load /\ (j \in Load' => ~Keyed(j))
  BY <1>4 DEF CallersInv, KeyedOnce
<1>12. /\ CallersInv'
       /\ NoLostWaiter => NoLostWaiter'
       /\ ReservationsReleased => ReservationsReleased'
  <2>1. NoLostWaiter => NoLostWaiter'
    BY <1>2, <1>4, <1>6 DEF NoLostWaiter
  <2>2. OneDownloadPerKey'
    <3>1. \A i \in Jobs : i \in Load' /\ Keyed(i)' => holder'[key'[i]] = i /\ key'[i] \notin completed'
      <4> SUFFICES ASSUME NEW i \in Jobs, i \in Load', Keyed(i)'
                   PROVE  holder'[key'[i]] = i /\ key'[i] \notin completed'
        OBVIOUS
      <4>1. /\ i \in Load /\ i # j /\ key'[i] = key[i] /\ key[i] \in Keys
            /\ holder[key[i]] = i /\ key[i] \notin completed
        BY <1>2, <1>7, <1>11 DEF CallersInv, OneDownloadPerKey, Keyed
      <4>2. Keyed(j) => holder[key[j]] = j
        BY <1>5 DEF CallersInv, OneDownloadPerKey
      <4> QED
        BY <1>7, <1>8, <4>1, <4>2
    <3>2. \A i, n \in Jobs :
            result'[i] = "completed" /\ result'[n] = "completed" /\ Keyed(i)' /\ key'[i] = key'[n]
            => i = n
      BY <1>2, <1>6 DEF CallersInv, OneDownloadPerKey, Keyed
    <3> QED
      BY <3>1, <3>2 DEF OneDownloadPerKey
  <2>3. ReservationsReleased => ReservationsReleased'
    <3> SUFFICES ASSUME ReservationsReleased, NEW k \in Keys, holder'[k] # NoJob
                 PROVE  holder'[k] \in Load' \union leaked' /\ key'[holder'[k]] = k
      BY DEF ReservationsReleased
    <3>1. holder'[k] = holder[k]
      BY <1>7, <1>8
    <3>2. holder[k] \in Load \union leaked /\ key[holder[k]] = k
      BY <3>1 DEF ReservationsReleased
    <3>3. CASE holder[k] = j
      <4>1. Keyed(j) /\ key[j] = k
        BY <3>2, <3>3, PipelineAssumption DEF Keyed
      <4> QED
        BY <1>2, <1>7, <1>8, <3>1, <3>3, <4>1
    <3>4. CASE holder[k] # j
      BY <1>2, <1>4, <1>8, <3>1, <3>2, <3>4
    <3> QED
      BY <3>3, <3>4
  <2>4. FailuresBounded'
    <3> SUFFICES ASSUME NEW i \in Jobs
                 PROVE  /\ attempts'[i] <= MaxAttempts
                        /\ i \in Load' => attempts'[i] < MaxAttempts /\ result'[i] # "completed"
      BY DEF FailuresBounded
    <3>1. attempts[i] <= MaxAttempts /\ (i \in Load => attempts[i] < MaxAttempts /\ result[i] # "completed")
      BY DEF CallersInv, FailuresBounded
    <3>2. CASE i = j
      BY <1>4, <1>5, <1>6, <1>7, <1>9, <3>1, <3>2, ManagerAssumption
    <3>3. CASE i # j
      BY <1>6, <1>9, <1>11, <3>1, <3>3
    <3> QED
      BY <3>2, <3>3
  <2>5. CompletedIsClosed'
    BY <1>7, <1>8 DEF CallersInv, CompletedIsClosed, TypeOK, CacheTypeOK
  <2>6. Fresh'
    <3>1. \A i \in Jobs : caller'[i] = "new" => i # j
      BY <1>2, <1>5 DEF CallersInv, Fresh
    <3>2. \A k \in Keys : holder'[k] \in {holder[k], NoJob}
      BY <1>7, <1>8
    <3> QED
      BY <1>2, <1>6, <1>9, <1>11, <3>1, <3>2, PipelineAssumption DEF CallersInv, Fresh
  <2>7. KeyedOnce' /\ CompletedKeys'
    BY <1>2, <1>6, <1>8 DEF CallersInv, KeyedOnce, CompletedKeys, Keyed
  <2> QED
    BY <2>1, <2>2, <2>3, <2>4, <2>5, <2>6, <2>7 DEF CallersInv
<1> QED
  BY <1>4, <1>10, <1>12

-----------------------------------------------------------------------------
LEMMA InitPInv == Init => PInv
<1> SUFFICES ASSUME Init PROVE PInv
  OBVIOUS
<1> USE DEF Init, ManagerInit, PoolInit, CacheInit
<1>1. Load = {}
  BY DEF Load, Queued
<1>2. TypeOK
  <2>1. ManagerTypeOK
    <3>1. pending \in Seq(Jobs)
      OBVIOUS
    <3>2. attempts \in [Jobs -> Nat] /\ future \in [Jobs -> FutureStates]
      BY DEF FutureStates
    <3> QED
      BY <3>1, <3>2 DEF ManagerTypeOK
  <2>2. PoolTypeOK
    BY DEF PoolTypeOK
  <2>3. CacheTypeOK(Jobs)
    BY CacheAssumption DEF CacheTypeOK
  <2> QED
    BY <2>1, <2>2, <2>3 DEF TypeOK
<1>3. BooksInv
  BY FS_EmptySet DEF BooksInv, OnePlace, StaleIsOrphan
<1>4. CallersInv
  BY <1>1, ManagerAssumption, PipelineAssumption
  DEF CallersInv, OneDownloadPerKey, FailuresBounded, CompletedIsClosed, Fresh, KeyedOnce,
      CompletedKeys, Keyed
<1>5. Balanced
  BY FS_EmptySet DEF Balanced
<1>6. NoLostWaiter /\ ReservationsReleased
  BY DEF NoLostWaiter, ReservationsReleased
<1> QED
  BY <1>2, <1>3, <1>4, <1>5, <1>6 DEF PInv, OnTimeInv, Accounts

(* Each step that both SoundNext and OnTimeNext allow, and those that are  *)
(* left out of SoundNext because they never come: with Accounts task_done  *)
(* does not raise.                                                         *)
LEMMA StepOnTime ==
  ASSUME OnTimeInv, [RunningNext \/ Stops \/ \E w \in Workers : Miscounts(w)]_vars
  PROVE  OnTimeInv' /\ (Accounts => Accounts')
<1>1. ASSUME NEW j \in Jobs, NEW k \in Keys,
             \/ SubmitDuplicate(j, k) \/ Submit(j, k)
             \/ SubmitOverflow(j, k) \/ SubmitClosed(j, k)
      PROVE  OnTimeInv' /\ (Accounts => Accounts')
  BY <1>1, DuplicateStep, SubmitStep, OverflowStep, ClosedStep
<1>2. ASSUME NEW j \in Jobs, CallerNext(j)
      PROVE  OnTimeInv' /\ (Accounts => Accounts')
  BY <1>1, <1>2, PlainStep, WaitStep DEF CallerNext
<1>3. ASSUME NEW w \in Workers, WorkerNext(w) \/ Miscounts(w)
      PROVE  OnTimeInv' /\ (Accounts => Accounts')
  <2>1. CASE Takes(w)
    BY <2>1, TakeStep
  <2>2. CASE Completes(w)
    BY <2>2, CompleteStep DEF Completes
  <2>3. CASE Fails(w)
    BY <2>3, FailStep DEF Fails
  <2>4. CASE Miscounts(w)
    <3>1. PICK j \in Jobs :
            /\ \/ Miscount(w, j, "completed") /\ CacheCompleted(j) /\ UNCHANGED leaked
               \/ Miscount(w, j, "failed") /\ CacheFailed(j)
            /\ UNCHANGED <<key, caller>>
      BY <2>4 DEF Miscounts, CompletesUncounted, FailsUncounted, pipelineVars
    <3> QED
      BY <3>1, CompleteStep, FailStep DEF pipelineVars
  <2> QED
    BY <1>3, <2>1, <2>2, <2>3, <2>4 DEF WorkerNext
<1>4. CASE UNCHANGED vars
  <2>1. UNCHANGED <<pending, unfinished, inFlight, stale, closed, attempts, waiters, future,
                    wpc, hand, recovery, pool, result, cacheVars, pipelineVars>>
    BY <1>4 DEF vars, managerVars, tableVars, waitVars, poolVars
  <2>2. TableTyped' /\ BooksInv' /\ (Balanced => Balanced') /\ Load' = Load
    BY <2>1, TypedTable, SameBooks DEF OnTimeInv
  <2>3. /\ CallersInv'
        /\ NoLostWaiter => NoLostWaiter'
        /\ ReservationsReleased => ReservationsReleased'
    BY <2>1, <2>2, QuietCallers DEF OnTimeInv
  <2>4. TypeOK'
    BY <2>1
    DEF OnTimeInv, TypeOK, ManagerTypeOK, PoolTypeOK, CacheTypeOK, cacheVars, pipelineVars
  <2> QED
    BY <2>2, <2>3, <2>4 DEF OnTimeInv, Accounts
<1> QED
  BY <1>2, <1>3, <1>4, LeaveStep, RecoverStep DEF RunningNext

LEMMA StepPInv == PInv /\ [SoundNext]_vars => PInv'
<1> SUFFICES ASSUME PInv, [SoundNext]_vars PROVE PInv'
  OBVIOUS
<1>1. [RunningNext \/ Stops \/ \E w \in Workers : Miscounts(w)]_vars
  BY DEF SoundNext, Stops
<1> QED
  BY <1>1, StepOnTime DEF PInv

(* What the run pipeline_sound checks of one instance is an invariant of   *)
(* every instance.                                                         *)
THEOREM PipelineInvariance == SoundSpec => []PInv
BY InitPInv, StepPInv, PTL DEF SoundSpec

(* The queue's count of unfinished work is what is queued and in flight    *)
(* (put, task_done, recover_stale_tasks).                                  *)
THEOREM BooksBalance == SoundSpec => []Balanced
<1>1. PInv => Balanced
  BY DEF PInv, Accounts
<1> QED
  BY <1>1, PipelineInvariance, PTL

(* A job is queued once, or in flight, or neither, and a worker's job is    *)
(* in flight (dequeue, nack, recover_stale_tasks, Worker.run).             *)
THEOREM JobsAreInOnePlace == SoundSpec => []OnePlace
<1>1. PInv => OnePlace
  BY DEF PInv, OnTimeInv, BooksInv
<1> QED
  BY <1>1, PipelineInvariance, PTL

(* A caller that waits has its job queued or in flight: no result gets     *)
(* lost between worker and caller (enqueue_and_wait, publish_result).      *)
THEOREM WaitersAreServed == SoundSpec => []NoLostWaiter
<1>1. PInv => NoLostWaiter
  BY DEF PInv, Accounts
<1> QED
  BY <1>1, PipelineInvariance, PTL

(* One download of a key at a time and one success of a key ever           *)
(* (pipeline.py, remote_backend.py, dedupe_cache.py).                      *)
THEOREM DownloadsAreUnique == SoundSpec => []OneDownloadPerKey
<1>1. PInv => OneDownloadPerKey
  BY DEF PInv, OnTimeInv, CallersInv
<1> QED
  BY <1>1, PipelineInvariance, PTL

(* No reservation without a job, except those the code forgets             *)
(* (submit_download, abort).                                               *)
THEOREM ReservationsHaveJobs == SoundSpec => []ReservationsReleased
<1>1. PInv => ReservationsReleased
  BY DEF PInv, Accounts
<1> QED
  BY <1>1, PipelineInvariance, PTL

(* No job fails more than max_attempts times, and none is put back after   *)
(* its last failed result, or after it completed (nack,                    *)
(* recover_stale_tasks).  How often a job begins is not bounded by it.     *)
THEOREM FailuresAreBounded == SoundSpec => []FailuresBounded
<1>1. PInv => FailuresBounded
  BY DEF PInv, OnTimeInv, CallersInv
<1> QED
  BY <1>1, PipelineInvariance, PTL

-----------------------------------------------------------------------------
(* All the code can do, with miscounts, overflows and stale jobs at work:  *)
(* what a future is, and what stands when the books are wrong.             *)

(* A call that has not begun has no future.                                *)
UncalledInv ==
  /\ future \in [Jobs -> FutureStates]
  /\ caller \in [Jobs -> {"new", "waiting"} \union Returned]
  /\ \A j \in Jobs : caller[j] = "new" => future[j] = "none"

(* A step leaves a future that is done or cancelled as it is.             *)
Final == \A j \in Jobs : future[j] \in {"done", "cancelled"} => future'[j] = future[j]

(* Every step of Next leaves the calls alone, registers a new one, lets    *)
(* one go unregistered, or resolves a future.                              *)
LEMMA CallSteps ==
  ASSUME UncalledInv, [Next]_vars
  PROVE  \/ UNCHANGED <<future, caller>>
         \/ \E j \in Jobs : caller[j] = "new" /\ RegisterWaiter(j) /\ CallerGets(j, "waiting")
         \/ \E j \in Jobs, s \in {"done", "cancelled"} : Resolve(j, s) /\ caller' = caller
         \/ future' = future /\ \E j \in Jobs, s \in Returned : CallerGets(j, s)
<1>1. ASSUME NEW j \in Jobs, CallerNext(j)
      PROVE  \/ UNCHANGED <<future, caller>>
             \/ caller[j] = "new" /\ RegisterWaiter(j) /\ CallerGets(j, "waiting")
             \/ \E s \in {"done", "cancelled"} : Resolve(j, s) /\ caller' = caller
             \/ future' = future /\ \E s \in Returned : CallerGets(j, s)
  <2>1. CASE \E k \in Keys : SubmitDuplicate(j, k) \/ SubmitOverflow(j, k) \/ SubmitClosed(j, k)
    BY <2>1 DEF SubmitDuplicate, SubmitOverflow, SubmitClosed, managerVars, waitVars, Returned
  <2>2. CASE \E k \in Keys : Submit(j, k)
    BY <2>2 DEF Submit, Submitting
  <2>3. CASE SubmitPlain(j)
    BY <2>3 DEF SubmitPlain, managerVars, waitVars, Returned
  <2>4. CASE Interrupt(j)
    BY <2>4 DEF Interrupt, ExpireWait, AbandonWait, pipelineVars
  <2>5. CASE Return(j)
    BY <2>5 DEF Return, UnregisterWaiter, Returned
  <2> QED
    BY <1>1, <2>1, <2>2, <2>3, <2>4, <2>5 DEF CallerNext
<1>2. ASSUME NEW w \in Workers, WorkerNext(w) \/ Miscounts(w) \/ Crashes(w)
      PROVE  \/ UNCHANGED <<future, caller>>
             \/ \E j \in Jobs : Resolve(j, "done") /\ caller' = caller
  <2>1. \A j, v : Publish(j, v) => Resolve(j, "done") \/ future' = future
    BY DEF Publish, PublishResult
  <2>2. CASE Takes(w)
    BY <2>2 DEF Takes, Take, waitVars, pipelineVars
  <2>3. CASE Completes(w)
    BY <2>1, <2>3 DEF Completes, Complete, pipelineVars
  <2>4. CASE Fails(w)
    BY <2>1, <2>4 DEF Fails, Fail, FailOverflow
  <2>5. CASE Miscounts(w)
    BY <2>1, <2>5 DEF Miscounts, CompletesUncounted, FailsUncounted, Miscount, pipelineVars
  <2>6. CASE Crashes(w)
    BY <2>6 DEF Crashes, Crash, managerVars, waitVars, pipelineVars
  <2> QED
    BY <1>2, <2>2, <2>3, <2>4, <2>5, <2>6 DEF WorkerNext
<1>3. CASE \E j \in Jobs : Aged(j)
  BY <1>3 DEF Aged, waitVars, pipelineVars
<1>4. CASE Recovers \/ ((RecoverOverflows \/ RecoverDies) /\ UNCHANGED <<cacheVars, pipelineVars>>)
  BY <1>4 DEF Recovers, RecoverRuns, RecoverOverflows, RecoverDies, waitVars, pipelineVars
<1>5. CASE Stops
  BY <1>5 DEF Stops, StopBegins, StopBreaks, StopEnds, managerVars, waitVars, pipelineVars
<1>6. CASE UNCHANGED vars
  BY <1>6 DEF vars, managerVars, waitVars, pipelineVars
<1> QED
  BY <1>1, <1>2, <1>3, <1>4, <1>5, <1>6 DEF Next

LEMMA StepUncalled == UncalledInv /\ [Next]_vars => UncalledInv' /\ Final
<1> SUFFICES ASSUME UncalledInv, [Next]_vars PROVE UncalledInv' /\ Final
  OBVIOUS
<1>1. CASE UNCHANGED <<future, caller>>
  BY <1>1 DEF UncalledInv, Final
<1>2. CASE \E j \in Jobs : caller[j] = "new" /\ RegisterWaiter(j) /\ CallerGets(j, "waiting")
  BY <1>2 DEF UncalledInv, Final, RegisterWaiter, CallerGets, FutureStates
<1>3. CASE \E j \in Jobs, s \in {"done", "cancelled"} : Resolve(j, s) /\ caller' = caller
  <2>1. PICK j \in Jobs, s \in {"done", "cancelled"} : Resolve(j, s) /\ caller' = caller
    BY <1>3
  <2>2. /\ future' \in [Jobs -> FutureStates]
        /\ future'[j] = IF future[j] = "pending" THEN s ELSE future[j]
        /\ \A i \in Jobs : i # j => future'[i] = future[i]
    BY <2>1 DEF UncalledInv, Resolve, FutureStates
  <2> QED
    BY <2>1, <2>2 DEF UncalledInv, Final
<1>4. CASE future' = future /\ \E j \in Jobs, s \in Returned : CallerGets(j, s)
  BY <1>4 DEF UncalledInv, Final, CallerGets, Returned
<1> QED
  BY <1>1, <1>2, <1>3, <1>4, CallSteps

(* A future that is done or cancelled stays so: publish_result never calls *)
(* set_result on a future that wait_for has cancelled.                     *)
THEOREM AnswersAreFinal == Spec => AnswerIsFinal
<1>1. Init => UncalledInv
  BY DEF Init, ManagerInit, UncalledInv, FutureStates
<1>2. UncalledInv /\ [Next]_vars => [Final]_vars
  BY StepUncalled
<1> QED
  BY <1>1, <1>2, StepUncalled, PTL DEF Spec, AnswerIsFinal, Final
-----------------------------------------------------------------------------
(* What stands when the books are wrong                                    *)

(* Queue and table without their balance.                                  *)
TableStands ==
  /\ pending \in Seq(Jobs) /\ unfinished \in Nat
  /\ inFlight \subseteq Jobs /\ IsFiniteSet(inFlight) /\ stale \subseteq inFlight
  /\ closed \in BOOLEAN /\ attempts \in [Jobs -> Nat]
  /\ QueueStands

LEMMA KeepStands ==
  ASSUME TableStands, pending' = pending, unfinished' \in Nat, inFlight' \subseteq inFlight,
         stale' \subseteq inFlight', closed' \in BOOLEAN, attempts' \in [Jobs -> Nat]
  PROVE  TableStands' /\ Load' \subseteq Load
<1>1. IsFiniteSet(inFlight')
  BY FS_Subset DEF TableStands
<1> QED
  BY <1>1 DEF TableStands, QueueStands, Load, Queued

LEMMA PutStands ==
  ASSUME TableStands, NEW j \in Jobs, ~Full, pending' = Append(pending, j), unfinished' \in Nat,
         inFlight' \subseteq inFlight, stale' \subseteq inFlight', closed' \in BOOLEAN,
         attempts' \in [Jobs -> Nat]
  PROVE  TableStands' /\ Load' \subseteq Load \union {j}
<1>1. pending' \in Seq(Jobs) /\ Len(pending') = Len(pending) + 1 /\ Len(pending) \in Nat
  BY DEF TableStands
<1>2. \A i \in DOMAIN pending' : (i \in DOMAIN pending /\ pending'[i] = pending[i]) \/ pending'[i] = j
  BY <1>1 DEF TableStands
<1>3. IsFiniteSet(inFlight')
  BY FS_Subset DEF TableStands
<1>4. QueueStands'
  BY <1>1, ManagerAssumption DEF Full, QueueStands
<1> QED
  BY <1>1, <1>2, <1>3, <1>4 DEF TableStands, Load, Queued

LEMMA TakeStands ==
  ASSUME TableStands, NEW j \in Jobs, Dequeue(j)
  PROVE  TableStands' /\ Load' \subseteq Load /\ j \in Load
<1>1. /\ pending # <<>> /\ pending' = Tail(pending) /\ j = pending[1]
      /\ inFlight' = inFlight \union {j} /\ stale' = stale \ {j}
      /\ UNCHANGED <<unfinished, closed, attempts>>
  BY DEF Dequeue, TableStands
<1>2. /\ Len(pending) \in Nat \ {0} /\ pending' \in Seq(Jobs)
      /\ Len(pending') = Len(pending) - 1
  BY <1>1 DEF TableStands
<1>3. \A i \in DOMAIN pending' : i + 1 \in DOMAIN pending /\ pending'[i] = pending[i + 1]
  BY <1>1, <1>2 DEF TableStands
<1>4. 1 \in DOMAIN pending
  BY <1>2 DEF TableStands
<1>5. j \in Load /\ Load' \subseteq Load
  BY <1>1, <1>3, <1>4 DEF Load, Queued
<1>6. IsFiniteSet(inFlight')
  BY <1>1, FS_AddElement DEF TableStands
<1>7. QueueStands'
  BY <1>2, ManagerAssumption DEF TableStands, QueueStands
<1> QED
  BY <1>1, <1>2, <1>5, <1>6, <1>7 DEF TableStands

(* Whether all of the stale jobs find room or not.                         *)
LEMMA RecoverStands ==
  ASSUME TableStands, Recover \/ RecoverOverflow
  PROVE  TableStands' /\ Load' \subseteq Load
<1> DEFINE n == Cardinality(stale)
<1>1. IsFiniteSet(stale)
  BY FS_Subset DEF TableStands
<1>2. PICK order \in SetToSeqs(stale) :
        \/ n <= Room /\ pending' = pending \o order /\ inFlight' = inFlight \ stale
        \/ /\ n > Room /\ pending' = pending \o SubSeq(order, 1, Room)
           /\ inFlight' = (inFlight \ stale) \union {order[Room + 1]}
  BY DEF Recover, RecoverOverflow
<1>3. n \in Nat /\ order \in [1 .. n -> stale]
  BY <1>1, OrderIsOnto
<1> HIDE DEF n
<1>4. Room \in Nat /\ Len(pending) \in Nat /\ Len(pending) + Room = MaxSize
  BY ManagerAssumption DEF Room, TableStands, QueueStands
<1>5. PICK part \in Seq(stale) :
        /\ pending' = pending \o part /\ Len(part) <= Room
        /\ inFlight' \subseteq inFlight
  <2>1. order \in Seq(stale) /\ Len(order) = n
    BY <1>3
  <2>2. CASE n <= Room /\ pending' = pending \o order /\ inFlight' = inFlight \ stale
    BY <2>1, <2>2
  <2>3. CASE /\ n > Room /\ pending' = pending \o SubSeq(order, 1, Room)
             /\ inFlight' = (inFlight \ stale) \union {order[Room + 1]}
    <3>1. SubSeq(order, 1, Room) \in Seq(stale) /\ Len(SubSeq(order, 1, Room)) = Room
      BY <1>3, <1>4, <2>1, <2>3
    <3>2. order[Room + 1] \in stale
      BY <1>3, <1>4, <2>3
    <3>3. inFlight' \subseteq inFlight
      BY <2>3, <3>2 DEF TableStands
    <3> DEFINE part == SubSeq(order, 1, Room)
    <3>4. part \in Seq(stale) /\ Len(part) <= Room /\ pending' = pending \o part
      BY <1>4, <2>3, <3>1
    <3> HIDE DEF part
    <3> QED
      BY <3>3, <3>4
  <2> QED
    BY <1>2, <2>2, <2>3
<1>6. part \in Seq(Jobs) /\ Len(part) \in Nat /\ pending \in Seq(Jobs)
  <2>1. stale \subseteq Jobs
    BY DEF TableStands
  <2> QED
    BY <1>5, <2>1 DEF TableStands
<1>7. pending' \in Seq(Jobs) /\ Len(pending') = Len(pending) + Len(part)
  BY <1>5, <1>6
<1>8. \A i \in DOMAIN pending' :
        \/ i \in DOMAIN pending /\ pending'[i] = pending[i]
        \/ pending'[i] \in stale
  <2> SUFFICES ASSUME NEW i \in DOMAIN pending', i \notin DOMAIN pending
               PROVE  pending'[i] \in stale
    BY <1>5, <1>6
  <2>1. i \in Nat /\ i - Len(pending) \in 1 .. Len(part)
    BY <1>6, <1>7
  <2>2. pending'[i] = part[i - Len(pending)]
    BY <1>5, <1>6, <1>7, <2>1
  <2> QED
    BY <1>5, <2>1, <2>2
<1>9. Load' \subseteq Load
  BY <1>5, <1>8 DEF TableStands, Load, Queued
<1>10. QueueStands'
  BY <1>4, <1>5, <1>6, <1>7, ManagerAssumption DEF QueueStands
<1>11. IsFiniteSet(inFlight')
  BY <1>5, FS_Subset DEF TableStands
<1>12. /\ unfinished' \in Nat /\ stale' \subseteq inFlight' /\ UNCHANGED <<closed, attempts>>
  BY DEF Recover, RecoverOverflow, TableStands
<1> QED
  BY <1>5, <1>7, <1>9, <1>10, <1>11, <1>12 DEF TableStands

(* The types of what is not in the table.                                  *)
CallsTyped ==
  /\ waiters \subseteq Jobs
  /\ future \in [Jobs -> FutureStates]
  /\ PoolTypeOK
  /\ CacheTypeOK(Jobs)
  /\ key \in [Jobs -> Keys \union {None}]
  /\ caller \in [Jobs -> {"new", "waiting"} \union Returned]
  /\ leaked \subseteq Jobs

LEMMA StandParts ==
  /\ StandInv <=>
       /\ TableStands /\ CallsTyped /\ Untouched /\ WaitersStand
       /\ CacheStands /\ CompletedKeys
  /\ TableStands' /\ CallsTyped' /\ Untouched' /\ WaitersStand' /\ CacheStands' /\ CompletedKeys'
     => StandInv'
BY DEF StandInv, TableStands, CallsTyped, TypeOK, ManagerTypeOK

(* Every operation of the cache keeps what it keeps, and forgets no key.   *)
LEMMA CacheOperations ==
  ASSUME CacheTypeOK(Jobs), CacheStands, NEW k \in Keys, NEW j \in Jobs,
         \/ Duplicate(k) \/ TryReserve(k, j) \/ Commit(k) \/ Abort(k)
         \/ Free(k) /\ NotIndexed(k) /\ UNCHANGED <<completed, holder, index>>
         \/ UNCHANGED cacheVars
  PROVE  CacheTypeOK(Jobs)' /\ CacheStands' /\ completed \subseteq completed'
<1> USE DEF CacheTypeOK, CacheStands, CompletedIsClosed
<1>0. ASSUME NotIndexed(k) PROVE indexOn' \in BOOLEAN /\ (indexOn' => indexOn)
  <2>1. CASE UNCHANGED indexOn
    BY <2>1
  <2>2. CASE indexOn' = FALSE
    BY <2>2
  <2> QED
    BY <1>0, <2>1, <2>2 DEF NotIndexed
<1>1. CASE Duplicate(k)
  BY <1>1 DEF Duplicate, Free, cacheVars
<1>2. CASE TryReserve(k, j)
  BY <1>0, <1>2 DEF TryReserve, Free
<1>3. CASE Commit(k)
  BY <1>3 DEF Commit
<1>4. CASE Abort(k)
  BY <1>4 DEF Abort
<1>5. CASE Free(k) /\ NotIndexed(k) /\ UNCHANGED <<completed, holder, index>>
  BY <1>0, <1>5
<1>6. CASE UNCHANGED cacheVars
  BY <1>6 DEF cacheVars
<1> QED
  BY <1>1, <1>2, <1>3, <1>4, <1>5, <1>6

(* A call begins: its job is put into the queue, or the call returns.      *)
LEMMA CallStands ==
  ASSUME StandInv, NEW j \in Jobs, caller[j] = "new",
         TableStands', Load' \subseteq Load \union {j}, UNCHANGED poolVars,
         NEW outcome \in {"waiting", "duplicate", "refused"}, CallerGets(j, outcome),
         IF outcome = "waiting" THEN RegisterWaiter(j) ELSE UNCHANGED waitVars,
         CacheTypeOK(Jobs)', CacheStands', completed \subseteq completed',
         key' \in [Jobs -> Keys \union {None}], \A i \in Jobs : i # j => key'[i] = key[i],
         leaked' \subseteq Jobs
  PROVE  StandInv'
<1>1. TableStands /\ CallsTyped /\ Untouched /\ WaitersStand /\ CompletedKeys
  BY StandParts
<1>2. UNCHANGED <<wpc, hand, recovery, pool, result>>
  BY DEF poolVars
<1>3. /\ caller' \in [Jobs -> {"new", "waiting"} \union Returned]
      /\ caller'[j] = outcome
      /\ \A i \in Jobs : i # j => caller'[i] = caller[i]
  BY <1>1 DEF CallsTyped, CallerGets, Returned
<1>4. /\ waiters' \subseteq Jobs /\ future' \in [Jobs -> FutureStates]
      /\ \/ /\ outcome = "waiting" /\ waiters' = waiters \union {j}
            /\ future'[j] = "pending"
            /\ \A i \in Jobs : i # j => future'[i] = future[i]
         \/ outcome # "waiting" /\ waiters' = waiters /\ future' = future
  BY <1>1 DEF CallsTyped, RegisterWaiter, waitVars, FutureStates
<1>5. CallsTyped'
  BY <1>1, <1>2, <1>3, <1>4 DEF CallsTyped, PoolTypeOK
<1>6. j \notin waiters /\ future[j] = "none" /\ result[j] = "none"
  BY <1>1 DEF Untouched, WaitersStand
<1>7. Untouched'
  BY <1>1, <1>2, <1>3, <1>4 DEF Untouched, InHand
<1>8. WaitersStand'
  BY <1>1, <1>2, <1>3, <1>4, <1>6 DEF WaitersStand
<1>9. CompletedKeys'
  BY <1>1, <1>2, <1>6 DEF CompletedKeys, Keyed
<1> QED
  BY <1>5, <1>7, <1>8, <1>9, StandParts

LEMMA SubmitStands ==
  ASSUME StandInv, NEW j \in Jobs, NEW k \in Keys,
         SubmitDuplicate(j, k) \/ Submit(j, k) \/ SubmitOverflow(j, k) \/ SubmitClosed(j, k)
  PROVE  StandInv'
<1>1. TableStands /\ CallsTyped /\ CacheStands
  BY StandParts
<1>2. /\ caller[j] = "new" /\ UNCHANGED poolVars
      /\ key' = [key EXCEPT ![j] = k] /\ leaked' \in {leaked, leaked \union {j}}
  BY DEF SubmitDuplicate, Submit, SubmitOverflow, SubmitClosed, Submitting
<1>3. \/ Duplicate(k) \/ TryReserve(k, j)
      \/ Free(k) /\ NotIndexed(k) /\ UNCHANGED <<completed, holder, index>>
  BY DEF SubmitDuplicate, Submit, SubmitOverflow, SubmitClosed
<1>4. CacheTypeOK(Jobs)' /\ CacheStands' /\ completed \subseteq completed'
  BY <1>1, <1>3, CacheOperations DEF CallsTyped
<1>5. /\ leaked' \subseteq Jobs /\ key' \in [Jobs -> Keys \union {None}]
      /\ \A i \in Jobs : i # j => key'[i] = key[i]
  BY <1>1, <1>2 DEF CallsTyped
<1>6. CASE Submit(j, k)
  <2>1. RegisterWaiter(j) /\ Enqueue(j) /\ CallerGets(j, "waiting")
    BY <1>6 DEF Submit
  <2>2. TableStands' /\ Load' \subseteq Load \union {j}
    BY <1>1, <2>1, PutStands DEF Enqueue, TableStands
  <2> QED
    BY <1>2, <1>4, <1>5, <2>1, <2>2, CallStands
<1>7. CASE SubmitDuplicate(j, k) \/ SubmitOverflow(j, k) \/ SubmitClosed(j, k)
  <2>1. UNCHANGED managerVars /\ (CallerGets(j, "duplicate") \/ CallerGets(j, "refused"))
    BY <1>7 DEF SubmitDuplicate, SubmitOverflow, SubmitClosed
  <2>2. UNCHANGED waitVars /\ TableStands' /\ Load' \subseteq Load
    BY <1>1, <2>1, KeepStands DEF managerVars, tableVars, TableStands
  <2> QED
    BY <1>2, <1>4, <1>5, <2>1, <2>2, CallStands
<1> QED
  BY <1>6, <1>7

LEMMA SubmitPlainStands ==
  ASSUME StandInv, NEW j \in Jobs, SubmitPlain(j)
  PROVE  StandInv'
<1>1. TableStands /\ CallsTyped /\ CacheStands
  BY StandParts
<1>2. caller[j] = "new" /\ UNCHANGED <<poolVars, cacheVars, key, leaked>>
  BY DEF SubmitPlain
<1>3. /\ CacheTypeOK(Jobs)' /\ CacheStands' /\ completed \subseteq completed'
      /\ leaked' \subseteq Jobs /\ key' \in [Jobs -> Keys \union {None}]
      /\ \A i \in Jobs : i # j => key'[i] = key[i]
  BY <1>1, <1>2 DEF CallsTyped, CacheTypeOK, CacheStands, CompletedIsClosed, cacheVars
<1>4. CASE Enqueue(j) /\ RegisterWaiter(j) /\ CallerGets(j, "waiting")
  <2>1. TableStands' /\ Load' \subseteq Load \union {j}
    BY <1>1, <1>4, PutStands DEF Enqueue, TableStands
  <2> QED
    BY <1>2, <1>3, <1>4, <2>1, CallStands
<1>5. CASE UNCHANGED managerVars /\ CallerGets(j, "refused")
  <2>1. UNCHANGED waitVars /\ TableStands' /\ Load' \subseteq Load
    BY <1>1, <1>5, KeepStands DEF managerVars, tableVars, TableStands
  <2> QED
    BY <1>2, <1>3, <1>5, <2>1, CallStands
<1> QED
  BY <1>4, <1>5 DEF SubmitPlain

(* A wait ends, by a timeout or by what the caller finds.                  *)
LEMMA WaitEndStands ==
  ASSUME StandInv, NEW j \in Jobs, Interrupt(j) \/ Return(j)
  PROVE  StandInv'
<1>1. TableStands /\ CallsTyped /\ Untouched /\ WaitersStand /\ CacheStands /\ CompletedKeys
  BY StandParts
<1>2. caller[j] = "waiting" /\ UNCHANGED <<tableVars, poolVars, cacheVars, key, leaked>>
  BY DEF Interrupt, Return, pipelineVars
<1>3. TableStands' /\ Load' \subseteq Load
  BY <1>1, <1>2, KeepStands DEF tableVars, TableStands
<1>4. /\ PoolTypeOK' /\ CacheTypeOK(Jobs)' /\ CacheStands' /\ CompletedKeys'
      /\ hand' = hand /\ result' = result
  BY <1>1, <1>2
  DEF CallsTyped, PoolTypeOK, CacheTypeOK, CacheStands, CompletedIsClosed, CompletedKeys, Keyed,
      poolVars, cacheVars
<1>5. CASE Interrupt(j)
  <2>1. caller' = caller /\ (waiters' = waiters \/ waiters' = waiters \ {j})
    BY <1>5 DEF Interrupt, ExpireWait, AbandonWait, pipelineVars
  <2>2. future' = [future EXCEPT ![j] = IF future[j] = "pending" THEN "cancelled" ELSE future[j]]
    BY <1>5 DEF Interrupt, ExpireWait, AbandonWait, Resolve
  <2>3. /\ future' \in [Jobs -> FutureStates]
        /\ future'[j] = IF future[j] = "pending" THEN "cancelled" ELSE future[j]
        /\ \A i \in Jobs : i # j => future'[i] = future[i]
    BY <1>1, <2>2 DEF CallsTyped, FutureStates
  <2>4. CallsTyped' /\ Untouched'
    BY <1>1, <1>2, <1>3, <1>4, <2>1, <2>3 DEF CallsTyped, Untouched, InHand
  <2>5. WaitersStand'
    BY <1>1, <1>4, <2>1, <2>3 DEF WaitersStand
  <2> QED
    BY <1>3, <1>4, <2>4, <2>5, StandParts
<1>6. CASE Return(j)
  <2>1. waiters' = waiters \ {j} /\ future' = future /\ future[j] \in {"done", "cancelled"}
    BY <1>6 DEF Return, UnregisterWaiter
  <2>2. PICK outcome \in {"answered", "unanswered"} :
          CallerGets(j, outcome) /\ (outcome = "answered" => future[j] = "done")
    BY <1>6 DEF Return
  <2>3. /\ caller' \in [Jobs -> {"new", "waiting"} \union Returned]
        /\ caller'[j] = outcome
        /\ \A i \in Jobs : i # j => caller'[i] = caller[i]
    BY <1>1, <2>2 DEF CallsTyped, CallerGets, Returned
  <2>4. CallsTyped' /\ Untouched'
    BY <1>1, <1>2, <1>3, <1>4, <2>1, <2>3 DEF CallsTyped, Untouched, InHand
  <2>5. WaitersStand'
    BY <1>1, <1>4, <2>1, <2>2, <2>3 DEF WaitersStand
  <2> QED
    BY <1>3, <1>4, <2>4, <2>5, StandParts
<1> QED
  BY <1>5, <1>6

(* A worker publishes the result of the job in its hand and lets it go.    *)
LEMMA ResultStands ==
  ASSUME StandInv, NEW w \in Workers, NEW j \in Jobs, Busy(w, j),
         NEW verdict \in {"completed", "failed"}, Publish(j, verdict),
         NEW pc \in {"getting", "dead"}, LetGo(w, pc),
         TableStands', Load' \subseteq Load \union {j},
         CacheTypeOK(Jobs)', CacheStands', completed \subseteq completed',
         verdict = "completed" /\ Keyed(j) => key[j] \in completed',
         UNCHANGED <<key, caller>>, leaked' \subseteq Jobs
  PROVE  StandInv'
<1>1. TypeOK /\ CallsTyped /\ Untouched /\ WaitersStand /\ CompletedKeys
  BY StandParts DEF StandInv
<1>2. /\ waiters' = waiters \ {j}
      /\ future' \in [Jobs -> FutureStates]
      /\ \A i \in Jobs : future'[i] = "pending" => i # j /\ future[i] = "pending"
      /\ \A i \in Jobs : i # j => future'[i] = future[i]
      /\ result' \in [Jobs -> {"none", "completed", "failed"}]
      /\ result'[j] = verdict
      /\ \A i \in Jobs : i # j => result'[i] = result[i]
  BY <1>1, PublishEffect DEF StandInv, WaitersStand
<1>3. /\ wpc' \in [Workers -> {"getting", "busy", "dead", "cancelled"}]
      /\ hand' \in [Workers -> Jobs \union {None}]
      /\ \A v \in Workers : hand'[v] \in {hand[v], None}
      /\ UNCHANGED <<recovery, pool>>
  BY <1>1 DEF LetGo, CallsTyped, PoolTypeOK
<1>4. CallsTyped'
  BY <1>1, <1>2, <1>3 DEF CallsTyped, PoolTypeOK
<1>5. caller[j] # "new"
  BY <1>1 DEF Untouched, Busy, InHand
<1>6. Untouched'
  BY <1>1, <1>2, <1>3, <1>5, ManagerAssumption DEF Untouched, InHand
<1>7. WaitersStand'
  BY <1>1, <1>2 DEF WaitersStand
<1>8. CompletedKeys'
  BY <1>1, <1>2 DEF CompletedKeys, Keyed
<1> QED
  BY <1>4, <1>6, <1>7, <1>8, StandParts

(* acknowledge and nack, whichever way they end.                           *)
LEMMA LandStands ==
  ASSUME TableStands, NEW j \in Jobs,
         \/ Acknowledge(j) \/ LandUncounted(j)
         \/ NackRequeue(j) \/ NackGiveUp(j) \/ NackOverflow(j)
  PROVE  TableStands' /\ Load' \subseteq Load \union {j}
<1>1. /\ inFlight' \subseteq inFlight /\ stale' \subseteq inFlight'
      /\ unfinished' \in Nat /\ closed' = closed
  BY DEF TableStands, Acknowledge, LandUncounted, NackRequeue, NackGiveUp, NackOverflow, Land,
         TaskDone, TaskDoneRaises
<1>2. attempts' = attempts \/ attempts' = [attempts EXCEPT ![j] = @ + 1]
  BY DEF Acknowledge, LandUncounted, NackRequeue, NackGiveUp, NackOverflow, CountAttempt
<1>3. closed' \in BOOLEAN /\ attempts' \in [Jobs -> Nat]
  BY <1>1, <1>2 DEF TableStands
<1>4. CASE NackRequeue(j)
  BY <1>1, <1>3, <1>4, PutStands DEF NackRequeue
<1>5. CASE Acknowledge(j) \/ LandUncounted(j) \/ NackGiveUp(j) \/ NackOverflow(j)
  <2>1. pending' = pending
    BY <1>5 DEF Acknowledge, LandUncounted, NackGiveUp, NackOverflow
  <2> QED
    BY <1>1, <1>3, <2>1, KeepStands
<1> QED
  BY <1>4, <1>5

LEMMA PublishingStands ==
  ASSUME StandInv, NEW w \in Workers, Completes(w) \/ Fails(w) \/ Miscounts(w)
  PROVE  StandInv'
<1>1. TableStands /\ CallsTyped /\ CacheStands
  BY StandParts
<1>2. PICK j \in Jobs, verdict \in {"completed", "failed"}, pc \in {"getting", "dead"} :
        /\ Busy(w, j) /\ Publish(j, verdict) /\ LetGo(w, pc)
        /\ \/ Acknowledge(j) \/ LandUncounted(j)
           \/ NackRequeue(j) \/ NackGiveUp(j) \/ NackOverflow(j)
        /\ \/ verdict = "completed" /\ CacheCompleted(j) /\ UNCHANGED leaked
           \/ verdict = "failed" /\ CacheFailed(j)
        /\ UNCHANGED <<key, caller>>
  <2>1. CASE Completes(w)
    BY <2>1 DEF Completes, Complete, pipelineVars
  <2>2. CASE Fails(w)
    <3>1. PICK j \in Jobs :
            (Fail(w, j) \/ FailOverflow(w, j)) /\ CacheFailed(j) /\ UNCHANGED <<key, caller>>
      BY <2>2 DEF Fails
    <3>2. CASE Fail(w, j)
      BY <3>1, <3>2 DEF Fail
    <3>3. CASE FailOverflow(w, j)
      BY <3>1, <3>3 DEF FailOverflow
    <3> QED
      BY <3>1, <3>2, <3>3
  <2>3. CASE Miscounts(w)
    BY <2>3 DEF Miscounts, CompletesUncounted, FailsUncounted, Miscount, pipelineVars
  <2> QED
    BY <2>1, <2>2, <2>3
<1>3. TableStands' /\ Load' \subseteq Load \union {j}
  BY <1>1, <1>2, LandStands
<1>4. Keyed(j) => key[j] \in Keys
  BY <1>1 DEF CallsTyped, Keyed
<1>5. leaked' \subseteq Jobs
  BY <1>1, <1>2 DEF CacheFailed, CallsTyped
<1>6. CASE UNCHANGED cacheVars
  <2>1. CacheTypeOK(Jobs)' /\ CacheStands' /\ completed \subseteq completed'
    BY <1>1, <1>6 DEF CallsTyped, CacheTypeOK, CacheStands, CompletedIsClosed, cacheVars
  <2>2. verdict = "completed" /\ Keyed(j) => key[j] \in completed'
    BY <1>2 DEF CacheCompleted, Commit
  <2> QED
    BY <1>2, <1>3, <1>5, <2>1, <2>2, ResultStands
<1>7. CASE Keyed(j) /\ (Commit(key[j]) \/ Abort(key[j]))
  <2>1. CacheTypeOK(Jobs)' /\ CacheStands' /\ completed \subseteq completed'
    BY <1>1, <1>4, <1>7, CacheOperations DEF CallsTyped
  <2>2. verdict = "completed" /\ Keyed(j) => key[j] \in completed'
    BY <1>2 DEF CacheCompleted, Commit
  <2> QED
    BY <1>2, <1>3, <1>5, <2>1, <2>2, ResultStands
<1> QED
  BY <1>2, <1>6, <1>7 DEF CacheCompleted, CacheFailed

(* Every other step leaves callers and cache alone.                        *)
LEMMA LeavesStand ==
  ASSUME StandInv, TableStands', Load' \subseteq Load,
         UNCHANGED <<waitVars, result, cacheVars, pipelineVars>>, PoolTypeOK',
         \A w \in Workers : hand'[w] \in {hand[w], None} \union Load
  PROVE  StandInv'
<1>1. CallsTyped /\ Untouched /\ WaitersStand /\ CacheStands /\ CompletedKeys
  BY StandParts
<1>2. CallsTyped' /\ WaitersStand' /\ CacheStands' /\ CompletedKeys'
  BY <1>1
  DEF CallsTyped, WaitersStand, CacheTypeOK, CacheStands, CompletedIsClosed, CompletedKeys, Keyed,
      waitVars, cacheVars, pipelineVars
<1>3. Untouched'
  BY <1>1, ManagerAssumption DEF Untouched, InHand, waitVars, pipelineVars
<1> QED
  BY <1>2, <1>3, StandParts

LEMMA StepStands == StandInv /\ [Next]_vars => StandInv'
<1> SUFFICES ASSUME StandInv, [Next]_vars PROVE StandInv'
  OBVIOUS
<1>1. TableStands /\ CallsTyped /\ PoolTypeOK
  BY StandParts DEF CallsTyped
<1>2. CASE \E j \in Jobs : CallerNext(j)
  BY <1>2, SubmitStands, SubmitPlainStands, WaitEndStands DEF CallerNext
<1>3. CASE \E w \in Workers : Completes(w) \/ Fails(w) \/ Miscounts(w)
  BY <1>3, PublishingStands
<1>4. CASE \E w \in Workers : Takes(w)
  <2>1. PICK w \in Workers, j \in Jobs : Take(w, j) /\ UNCHANGED <<cacheVars, pipelineVars>>
    BY <1>4 DEF Takes
  <2>2. TableStands' /\ Load' \subseteq Load /\ j \in Load
    BY <1>1, <2>1, TakeStands DEF Take
  <2>3. PoolTypeOK' /\ \A v \in Workers : hand'[v] \in {hand[v], j}
    BY <1>1, <2>1 DEF Take, PoolTypeOK
  <2> QED
    BY <2>1, <2>2, <2>3, LeavesStand DEF Take
<1>5. CASE \E w \in Workers : Crashes(w)
  <2>1. PICK w \in Workers, j \in Jobs : Crash(w, j) /\ UNCHANGED <<cacheVars, pipelineVars>>
    BY <1>5 DEF Crashes
  <2>2. UNCHANGED <<tableVars, waitVars, result>> /\ LetGo(w, "dead")
    BY <2>1 DEF Crash, managerVars
  <2>3. TableStands' /\ Load' \subseteq Load
    BY <1>1, <2>2, KeepStands DEF tableVars, TableStands
  <2>4. PoolTypeOK' /\ \A v \in Workers : hand'[v] \in {hand[v], None}
    BY <1>1, <2>2 DEF LetGo, PoolTypeOK
  <2> QED
    BY <2>1, <2>2, <2>3, <2>4, LeavesStand
<1>6. CASE \E j \in Jobs : Aged(j)
  <2>1. PICK j \in Jobs : Age(j) /\ UNCHANGED <<waitVars, poolVars, cacheVars, pipelineVars>>
    BY <1>6 DEF Aged
  <2>2. TableStands' /\ Load' \subseteq Load
    BY <1>1, <2>1, KeepStands DEF Age, TableStands
  <2>3. PoolTypeOK' /\ hand' = hand /\ result' = result
    BY <1>1, <2>1 DEF poolVars, PoolTypeOK
  <2> QED
    BY <2>1, <2>2, <2>3, LeavesStand
<1>7. CASE Recovers \/ ((RecoverOverflows \/ RecoverDies) /\ UNCHANGED <<cacheVars, pipelineVars>>)
  <2>1. /\ Recover \/ RecoverOverflow \/ RecoverUncounted
        /\ UNCHANGED <<waitVars, wpc, hand, pool, result, cacheVars, pipelineVars>>
        /\ recovery' \in {recovery, "dead"}
    BY <1>7 DEF Recovers, RecoverRuns, RecoverOverflows, RecoverDies, poolVars
  <2>2. CASE Recover \/ RecoverOverflow
    BY <1>1, <2>1, <2>2, RecoverStands, LeavesStand DEF PoolTypeOK
  <2>3. CASE RecoverUncounted
    <3>1. TableStands' /\ Load' \subseteq Load
      BY <1>1, <2>3, KeepStands DEF RecoverUncounted, TaskDoneRaises, TableStands
    <3> QED
      BY <1>1, <2>1, <3>1, LeavesStand DEF PoolTypeOK
  <2> QED
    BY <2>1, <2>2, <2>3
<1>8. CASE Stops
  <2>1. /\ UNCHANGED <<waitVars, result, cacheVars, pipelineVars>>
        /\ UNCHANGED <<pending, unfinished, inFlight, stale, attempts>> /\ closed' \in {closed, TRUE}
    BY <1>8 DEF Stops, StopBegins, StopBreaks, StopEnds, CloseQueue, managerVars, tableVars
  <2>2. TableStands' /\ Load' \subseteq Load
    BY <1>1, <2>1, KeepStands DEF TableStands
  <2>3. PoolTypeOK' /\ \A w \in Workers : hand'[w] \in {hand[w], None}
    BY <1>1, <1>8 DEF Stops, StopBegins, StopBreaks, StopEnds, PoolTypeOK
  <2> QED
    BY <2>1, <2>2, <2>3, LeavesStand
<1>9. CASE UNCHANGED vars
  <2>1. TableStands' /\ Load' \subseteq Load
    BY <1>1, <1>9, KeepStands DEF vars, managerVars, tableVars, TableStands
  <2> QED
    BY <1>1, <1>9, <2>1, LeavesStand DEF vars, managerVars, poolVars, PoolTypeOK
<1> QED
  BY <1>2, <1>3, <1>4, <1>5, <1>6, <1>7, <1>8, <1>9 DEF Next, WorkerNext

LEMMA InitStands == Init => StandInv
<1> SUFFICES ASSUME Init PROVE StandInv
  OBVIOUS
<1>1. /\ pending = <<>> /\ unfinished = 0 /\ inFlight = {} /\ stale = {} /\ closed = FALSE
      /\ attempts = [j \in Jobs |-> 0] /\ waiters = {} /\ future = [j \in Jobs |-> "none"]
      /\ hand = [w \in Workers |-> None] /\ result = [j \in Jobs |-> "none"]
      /\ completed = {} /\ holder = [k \in Keys |-> NoJob] /\ index = EarlierKeys
      /\ caller = [j \in Jobs |-> "new"]
  BY DEF Init, ManagerInit, PoolInit, CacheInit
<1>2. TableStands /\ Load = {}
  <2>1. IsFiniteSet(inFlight)
    BY <1>1, FS_EmptySet
  <2>2. pending \in Seq(Jobs) /\ QueueStands
    BY <1>1, ManagerAssumption DEF QueueStands
  <2>3. Load = {}
    BY <1>1 DEF Load, Queued
  <2> QED
    BY <1>1, <2>1, <2>2, <2>3 DEF TableStands
<1>3. CallsTyped
  BY <1>1, CacheAssumption
  DEF Init, PoolInit, CacheInit, CallsTyped, PoolTypeOK, CacheTypeOK, FutureStates, Returned
<1>4. Untouched /\ WaitersStand
  BY <1>1, <1>2, ManagerAssumption DEF Untouched, WaitersStand, InHand
<1>5. CacheStands /\ CompletedKeys
  BY <1>1 DEF CacheStands, CompletedIsClosed, CompletedKeys
<1> QED
  BY <1>2, <1>3, <1>4, <1>5, StandParts

(* The invariant of all the code can do: with jobs put back while a        *)
(* processor works on them, recoveries that overflow, a count that is      *)
(* wrong, workers and a recovery loop that die of it.                      *)
THEOREM StandsAlways == Spec => []StandInv
BY InitStands, StepStands, PTL DEF Spec

(* Whatever happens to the books of the queue manager, the table of        *)
(* waiters keeps its own: it has the calls that wait and every future that *)
(* is pending, and a call is answered only after a result of its job.      *)
THEOREM WaitersAlwaysStand == Spec => []WaitersStand
<1>1. StandInv => WaitersStand
  BY DEF StandInv
<1> QED
  BY <1>1, StandsAlways, PTL

(* So does the cache, to which two workers may report on one job: the key  *)
(* of a job that completed is completed, a completed key is not reserved   *)
(* again, and an index that works has every completed key.                 *)
THEOREM CompletedKeysStayClosed == Spec => [](CacheStands /\ CompletedKeys)
<1>1. StandInv => CacheStands /\ CompletedKeys
  BY DEF StandInv
<1> QED
  BY <1>1, StandsAlways, PTL

-----------------------------------------------------------------------------
(* The premises of SoundSpec, one at a time                                *)

LEMMA OnTimeIsSpec == OnTimeSpec => Spec
<1>1. [OnTimeNext]_vars => [Next]_vars
  BY DEF OnTimeNext, RunningNext, Next, AgedOrphan
<1> QED
  BY <1>1, PTL DEF OnTimeSpec, Spec

(* The steps of OnTimeNext that StepOnTime leaves out.                     *)
LEMMA StepOverflows ==
  ASSUME OnTimeInv, QueueStands,
         (RecoverOverflows \/ RecoverDies) /\ UNCHANGED <<cacheVars, pipelineVars>>
  PROVE  OnTimeInv'
<1> USE DEF OnTimeInv
<1>1. /\ RecoverOverflow \/ RecoverUncounted
      /\ UNCHANGED <<closed, attempts, waiters, future, wpc, hand, pool, result,
                     cacheVars, pipelineVars>>
      /\ recovery' \in {recovery, "dead"}
  BY DEF RecoverOverflows, RecoverDies, RecoverOverflow, RecoverUncounted, waitVars, poolVars
<1>2. TableTyped' /\ BooksInv' /\ Load' \subseteq Load
  <2>1. CASE RecoverOverflow
    BY <1>1, <2>1, TypedTable, RecoverOverflowBooks
  <2>2. CASE RecoverUncounted
    BY <1>1, <2>2, TypedTable, UncountedBooks
  <2> QED
    BY <1>1, <2>1, <2>2
<1>3. TypeOK'
  BY <1>1, <1>2
  DEF TypeOK, ManagerTypeOK, PoolTypeOK, CacheTypeOK, TableTyped, cacheVars, pipelineVars
<1>4. CallersInv'
  BY <1>1, <1>2, QuietCallers
<1> QED
  BY <1>2, <1>3, <1>4

LEMMA StepOnTimeInv == StandInv /\ OnTimeInv /\ [OnTimeNext]_vars => OnTimeInv'
BY StepOnTime, StepOverflows DEF OnTimeNext, StandInv

(* The invariant of the pipeline in which no busy job becomes stale, with  *)
(* recoveries that overflow and all that comes of them.                    *)
THEOREM OnTimeInvariance == OnTimeSpec => []OnTimeInv
<1>1. Init => OnTimeInv
  BY InitPInv DEF PInv
<1> QED
  BY <1>1, StepOnTimeInv, StandsAlways, OnTimeIsSpec, PTL DEF OnTimeSpec

(* That no key is downloaded twice, no job is in two places, and none      *)
(* fails too often hangs on stale_after alone: it survives recoveries that *)
(* overflow, and a count so wrong that task_done raises.                   *)
THEOREM OnTimeIsOnce == OnTimeSpec => [](OnePlace /\ OneDownloadPerKey /\ FailuresBounded)
<1>1. OnTimeInv => OnePlace /\ OneDownloadPerKey /\ FailuresBounded
  BY DEF OnTimeInv, BooksInv, CallersInv
<1> QED
  BY <1>1, OnTimeInvariance, PTL

(* With room for the stale jobs no recovery overflows.                     *)
LEMMA RoomSuffices ==
  ASSUME TableStands, Roomy
  PROVE  ~RecoverOverflow
<1>1. IsFiniteSet(stale) /\ Len(pending) \in Nat
  BY FS_Subset DEF TableStands
<1>2. Cardinality(stale) \in Nat /\ Room \in Int
  BY <1>1, FS_CardinalityType, ManagerAssumption DEF Room
<1> QED
  BY <1>2 DEF RecoverOverflow, Roomy

(* Then the count is right, task_done does not raise, and nothing dies of  *)
(* it.                                                                     *)
LEMMA StepRoomy ==
  StandInv /\ PInv /\ RecoveryLives /\ Roomy /\ [OnTimeNext]_vars
    => PInv' /\ RecoveryLives' /\ [SoundNext]_vars
<1> SUFFICES ASSUME StandInv, PInv, RecoveryLives, Roomy, [OnTimeNext]_vars
             PROVE  PInv' /\ RecoveryLives' /\ [SoundNext]_vars
  OBVIOUS
<1> USE DEF PInv, OnTimeInv, Accounts
<1>1. TableTyped /\ BooksInv
  BY TypedTable
<1>2. ~RecoverOverflow
  BY StandParts, RoomSuffices
<1>3. ~RecoverUncounted
  BY <1>1, CountedWork DEF RecoverUncounted, TaskDoneRaises, TableTyped
<1>4. ASSUME NEW w \in Workers PROVE ~Miscounts(w)
  <2> SUFFICES ASSUME NEW j \in Jobs, Busy(w, j), unfinished = 0 PROVE FALSE
    BY DEF Miscounts, CompletesUncounted, FailsUncounted, Miscount, LandUncounted, TaskDoneRaises
  <2>1. j \in inFlight
    BY ManagerAssumption DEF Busy, BooksInv, OnePlace
  <2> QED
    BY <1>1, <2>1, CountedWork
<1>5. ~StopBreaks
  BY DEF StopBreaks, RecoveryLives
<1>6. [SoundNext]_vars
  BY <1>2, <1>3, <1>4, <1>5
  DEF OnTimeNext, SoundNext, Stops, RecoverOverflows, RecoverDies
<1>7. RecoveryLives'
  <2>1. ASSUME NEW j \in Jobs, CallerNext(j) \/ AgedOrphan(j) PROVE recovery' = recovery
    BY <2>1
    DEF CallerNext, SubmitDuplicate, Submit, SubmitOverflow, SubmitClosed, SubmitPlain, Interrupt,
        Return, AgedOrphan, Aged, poolVars
  <2>2. ASSUME NEW w \in Workers, WorkerNext(w) \/ Crashes(w) PROVE recovery' = recovery
    BY <2>2
    DEF WorkerNext, Takes, Take, Completes, Complete, Fails, Fail, FailOverflow, Crashes, Crash,
        LetGo
  <2> QED
    BY <1>6, <2>1, <2>2
    DEF SoundNext, RunningNext, Recovers, RecoverRuns, StopBegins, StopEnds, poolVars, vars,
        RecoveryLives
<1> QED
  BY <1>6, <1>7, StepPInv

(* The other premise is room: when the queue has places for the jobs that  *)
(* are stale, the pipeline whose busy jobs do not become stale is the      *)
(* sound one, and keeps all that is proved of it                           *)
(* (queue_manager.py, worker.py).                                          *)
THEOREM RoomIsSound == OnTimeSpec /\ []Roomy => SoundSpec
<1>1. Init => PInv /\ RecoveryLives
  BY InitPInv DEF Init, PoolInit, RecoveryLives
<1>2. OnTimeSpec => []StandInv
  BY OnTimeIsSpec, StandsAlways, PTL
<1> QED
  BY <1>1, <1>2, StepRoomy, PTL DEF OnTimeSpec, SoundSpec

-----------------------------------------------------------------------------
(* Jobs put back while a processor works on them                           *)

(* The queue's count is not more than the jobs that are there.             *)
Covered == unfinished <= Cardinality(Load)

LEMMA LoadIsFinite == TableStands => IsFiniteSet(Load)
<1> SUFFICES ASSUME TableStands PROVE IsFiniteSet(Load)
  OBVIOUS
<1> DEFINE D == 1 .. Len(pending)
           Q == {j \in Jobs : Queued(j)}
<1>1. pending \in [D -> Jobs] /\ Len(pending) \in Nat /\ DOMAIN pending = D
  BY DEF TableStands
<1>2. IsFiniteSet(D)
  BY <1>1, FS_Interval
<1>3. pending \in Surjection(D, Q)
  <2>1. pending \in [D -> Q]
    BY <1>1 DEF Queued
  <2>2. \A j \in Q : \E i \in D : pending[i] = j
    BY <1>1 DEF Queued
  <2> HIDE DEF D, Q
  <2> QED
    BY <2>1, <2>2 DEF Surjection
<1>4. IsFiniteSet(Q)
  <2> HIDE DEF D, Q
  <2> QED
    BY <1>2, <1>3, FS_Surjection
<1>5. IsFiniteSet(inFlight)
  BY DEF TableStands
<1>6. Load = Q \union inFlight
  BY DEF Load
<1> HIDE DEF Q
<1> QED
  BY <1>4, <1>5, <1>6, FS_Union

(* What each kind of step does to the jobs and to their count.             *)
LEMMA CoverKeeps ==
  ASSUME TableStands, TableStands', Covered, NEW j,
         \/ unfinished' = 0
         \/ unfinished' = unfinished /\ Load \subseteq Load'
         \/ unfinished' = unfinished - 1 /\ Load \ {j} \subseteq Load'
         \/ unfinished' = unfinished + 1 /\ j \notin Load /\ Load \union {j} \subseteq Load'
  PROVE  Covered'
<1>1. IsFiniteSet(Load) /\ IsFiniteSet(Load')
  <2>1. TableStands' => IsFiniteSet(Load)'
    BY LoadIsFinite, PTL
  <2> QED
    BY <2>1, LoadIsFinite
<1>2. /\ Cardinality(Load) \in Nat /\ Cardinality(Load') \in Nat
      /\ unfinished \in Nat /\ unfinished' \in Nat
  BY <1>1, FS_CardinalityType DEF TableStands
<1>3. CASE unfinished' = 0
  BY <1>2, <1>3 DEF Covered
<1>4. CASE unfinished' = unfinished /\ Load \subseteq Load'
  <2>1. Cardinality(Load) <= Cardinality(Load')
    BY <1>1, <1>4, FS_Subset
  <2> QED
    BY <1>2, <1>4, <2>1 DEF Covered
<1>5. CASE unfinished' = unfinished - 1 /\ Load \ {j} \subseteq Load'
  <2>1. Cardinality(Load \ {j}) <= Cardinality(Load')
    BY <1>1, <1>5, FS_Subset
  <2>2. Cardinality(Load) - 1 <= Cardinality(Load \ {j})
    <3>1. Cardinality(Load \ {j}) = IF j \in Load THEN Cardinality(Load) - 1 ELSE Cardinality(Load)
      BY <1>1, FS_RemoveElement
    <3> QED
      BY <1>2, <3>1
  <2>3. Cardinality(Load \ {j}) \in Nat
    BY <1>1, FS_RemoveElement, FS_CardinalityType
  <2> QED
    BY <1>2, <1>5, <2>1, <2>2, <2>3 DEF Covered
<1>6. CASE unfinished' = unfinished + 1 /\ j \notin Load /\ Load \union {j} \subseteq Load'
  <2>1. Cardinality(Load \union {j}) <= Cardinality(Load')
    BY <1>1, <1>6, FS_Subset
  <2>2. Cardinality(Load \union {j}) = Cardinality(Load) + 1
    BY <1>1, <1>6, FS_AddElement
  <2> QED
    BY <1>2, <1>6, <2>1, <2>2 DEF Covered
<1> QED
  BY <1>3, <1>4, <1>5, <1>6

(* Putting at the end and taking from the front keep the jobs.             *)
LEMMA PutLoads ==
  ASSUME TableStands, NEW j \in Jobs, pending' = Append(pending, j),
         inFlight \ {j} \subseteq inFlight'
  PROVE  Load \union {j} \subseteq Load'
<1>1. pending' \in Seq(Jobs) /\ Len(pending') = Len(pending) + 1 /\ Len(pending) \in Nat
  BY DEF TableStands
<1>2. \A i \in DOMAIN pending : i \in DOMAIN pending' /\ pending'[i] = pending[i]
  BY <1>1 DEF TableStands
<1>3. Len(pending) + 1 \in DOMAIN pending' /\ pending'[Len(pending) + 1] = j
  BY <1>1 DEF TableStands
<1>4. \A x : Queued(x) \/ x = j => Queued(x)'
  BY <1>2, <1>3 DEF Queued
<1> QED
  BY <1>4 DEF Load

LEMMA TakeLoads ==
  ASSUME TableStands, NEW j \in Jobs, Dequeue(j)
  PROVE  Load \subseteq Load'
<1>1. /\ pending # <<>> /\ pending' = Tail(pending) /\ j = pending[1]
      /\ inFlight' = inFlight \union {j}
  BY DEF Dequeue, TableStands
<1>2. /\ Len(pending) \in Nat \ {0} /\ pending' \in Seq(Jobs)
      /\ Len(pending') = Len(pending) - 1
  BY <1>1 DEF TableStands
<1>3. \A i \in DOMAIN pending : i # 1 => i - 1 \in DOMAIN pending' /\ pending'[i - 1] = pending[i]
  BY <1>1, <1>2 DEF TableStands
<1>4. \A x : Queued(x) /\ x # j => Queued(x)'
  BY <1>1, <1>3 DEF Queued
<1> QED
  BY <1>1, <1>4 DEF Load

LEMMA RecoverLoads ==
  ASSUME TableStands, Recover
  PROVE  Load \subseteq Load'
<1> DEFINE n == Cardinality(stale)
<1>1. IsFiniteSet(stale) /\ stale \subseteq Jobs
  BY FS_Subset DEF TableStands
<1>2. PICK order \in SetToSeqs(stale) : pending' = pending \o order
  BY DEF Recover
<1>3. /\ n \in Nat /\ order \in [1 .. n -> stale]
      /\ \A x \in stale : \E i \in 1 .. n : order[i] = x
  BY <1>1, OrderIsOnto
<1> HIDE DEF n
<1>4. order \in Seq(Jobs) /\ Len(order) = n /\ pending \in Seq(Jobs) /\ Len(pending) \in Nat
  BY <1>1, <1>3 DEF TableStands
<1>5. \A i \in DOMAIN pending : i \in DOMAIN pending' /\ pending'[i] = pending[i]
  BY <1>2, <1>4
<1>6. \A i \in 1 .. n :
        i + Len(pending) \in DOMAIN pending' /\ pending'[i + Len(pending)] = order[i]
  BY <1>2, <1>3, <1>4
<1>7. \A x : Queued(x) \/ x \in stale => Queued(x)'
  BY <1>3, <1>5, <1>6 DEF Queued
<1> QED
  BY <1>1, <1>7 DEF Load, Recover

LEMMA StepCovered ==
  StandInv /\ Covered /\ Roomy /\ [Next]_vars => (StandInv' => Covered')
<1> SUFFICES ASSUME StandInv, Covered, Roomy, [Next]_vars, StandInv' PROVE Covered'
  OBVIOUS
<1>1. TableStands /\ TableStands'
  BY StandParts DEF StandInv, TypeOK, ManagerTypeOK, TableStands
<1>2. ASSUME UNCHANGED <<pending, inFlight, unfinished>> PROVE Covered'
  BY <1>2 DEF Covered, Load, Queued
<1>3. ASSUME NEW j \in Jobs, Enqueue(j), caller[j] = "new" PROVE Covered'
  <2>1. j \notin Load
    BY <1>3 DEF StandInv, Untouched
  <2>2. unfinished' = unfinished + 1 /\ Load \union {j} \subseteq Load'
    BY <1>1, <1>3, PutLoads DEF Enqueue
  <2> QED
    BY <1>1, <2>1, <2>2, CoverKeeps
<1>4. CASE \E j \in Jobs : CallerNext(j)
  <2>1. PICK j \in Jobs : CallerNext(j)
    BY <1>4
  <2>2. (Enqueue(j) /\ caller[j] = "new") \/ UNCHANGED <<pending, inFlight, unfinished>>
    BY <2>1
    DEF CallerNext, SubmitDuplicate, Submit, SubmitOverflow, SubmitClosed, SubmitPlain, Submitting,
        Interrupt, Return, managerVars, tableVars
  <2> QED
    BY <1>2, <1>3, <2>2
<1>5. ASSUME NEW j \in Jobs,
             \/ Acknowledge(j) \/ LandUncounted(j)
             \/ NackRequeue(j) \/ NackGiveUp(j) \/ NackOverflow(j)
      PROVE  Covered'
  <2>1. CASE Acknowledge(j) \/ NackGiveUp(j) \/ NackOverflow(j)
    <3>1. pending' = pending /\ inFlight' = inFlight \ {j} /\ unfinished' = unfinished - 1
      BY <2>1 DEF Acknowledge, NackGiveUp, NackOverflow, Land, TaskDone
    <3>2. Load \ {j} \subseteq Load'
      BY <3>1 DEF Load, Queued
    <3> QED
      BY <1>1, <3>1, <3>2, CoverKeeps
  <2>2. CASE LandUncounted(j)
    BY <1>1, <2>2, CoverKeeps DEF LandUncounted, TaskDoneRaises
  <2>3. CASE NackRequeue(j)
    <3>1. unfinished' = unfinished /\ Load \subseteq Load'
      BY <1>1, <2>3, PutLoads DEF NackRequeue, Land
    <3> QED
      BY <1>1, <3>1, CoverKeeps
  <2> QED
    BY <1>5, <2>1, <2>2, <2>3
<1>6. CASE \E w \in Workers : WorkerNext(w) \/ Miscounts(w)
  <2>1. PICK w \in Workers : WorkerNext(w) \/ Miscounts(w)
    BY <1>6
  <2>2. CASE Takes(w)
    <3>1. PICK j \in Jobs : Dequeue(j)
      BY <2>2 DEF Takes, Take
    <3> QED
      BY <1>1, <3>1, TakeLoads, CoverKeeps DEF Dequeue
  <2>3. CASE Completes(w) \/ Fails(w) \/ Miscounts(w)
    BY <1>5, <2>3
    DEF Completes, Complete, Fails, Fail, FailOverflow, Miscounts, CompletesUncounted,
        FailsUncounted, Miscount
  <2> QED
    BY <2>1, <2>2, <2>3 DEF WorkerNext
<1>7. CASE Recovers \/ ((RecoverOverflows \/ RecoverDies) /\ UNCHANGED <<cacheVars, pipelineVars>>)
  <2>1. ~RecoverOverflow
    BY <1>1, RoomSuffices
  <2>2. CASE Recover
    BY <1>1, <2>2, RecoverLoads, CoverKeeps DEF Recover
  <2>3. CASE RecoverUncounted
    BY <1>1, <2>3, CoverKeeps DEF RecoverUncounted, TaskDoneRaises
  <2> QED
    BY <1>7, <2>1, <2>2, <2>3 DEF Recovers, RecoverRuns, RecoverOverflows, RecoverDies
<1>8. CASE \/ \E j \in Jobs : Aged(j)
           \/ \E w \in Workers : Crashes(w)
           \/ Stops
           \/ UNCHANGED vars
  <2>1. UNCHANGED <<pending, inFlight, unfinished>>
    BY <1>8
    DEF Aged, Age, Crashes, Crash, Stops, StopBegins, StopBreaks, StopEnds, CloseQueue, vars,
        managerVars, tableVars
  <2> QED
    BY <1>2, <2>1
<1> QED
  BY <1>4, <1>6, <1>7, <1>8 DEF Next

(* With room, but with busy jobs put back and done twice, the count can be *)
(* too low and never too high: idle_join may return while a job is under   *)
(* way, but it never waits for one that is nowhere (put, task_done).       *)
THEOREM CountIsCovered == Spec /\ []Roomy => []Covered
<1>1. Init => Covered
  <2> SUFFICES ASSUME Init PROVE Covered
    OBVIOUS
  <2>1. unfinished = 0 /\ TableStands
    BY InitStands, StandParts DEF Init, ManagerInit
  <2>2. Cardinality(Load) \in Nat
    BY <2>1, LoadIsFinite, FS_CardinalityType
  <2> QED
    BY <2>1, <2>2 DEF Covered
<1> QED
  BY <1>1, StepCovered, StandsAlways, PTL DEF Spec
=============================================================================
