---------------------------- MODULE BotStepProofs ----------------------------
(***************************************************************************)
(* What the kinds of step of BotCore do to records, futures, calls and     *)
(* queue: the lemmas from which BotCoreProofs builds its theorems.         *)
(***************************************************************************)
EXTENDS BotInvariant, TLAPS

-----------------------------------------------------------------------------
(* Facts about the operators of the waiter                                 *)

(* Remembering a job adds no other job to the remembered ones.             *)
LEMMA RememberAdds ==
  ASSUME terminal \in Seq(Calls), NEW j \in Calls, Remember(j)
  PROVE  /\ terminal' \in Seq(Calls)
         /\ Remembered' \subseteq Remembered \union {j}
<1> DEFINE s == IF j \in Remembered THEN terminal ELSE Append(terminal, j)
<1>1. s \in Seq(Calls)
  OBVIOUS
<1>2. \A i \in DOMAIN s : s[i] \in Remembered \union {j}
  BY DEF Remembered
<1>3. terminal' = Trim(s)
  BY DEF Remember
<1>4. CASE Len(s) > MaxTerminal
  <2> DEFINE d == Len(s) - MaxTerminal
  <2>1. terminal' = SubSeq(s, d + 1, Len(s))
    BY <1>3, <1>4 DEF Trim
  <2>2. d \in Nat /\ d + 1 \in 1..(Len(s) + 1) /\ Len(s) \in Nat
    BY <1>1, <1>4, WaiterAssumption
  <2>3. terminal' \in Seq(Calls) /\ Len(terminal') = MaxTerminal
        /\ \A i \in 1..MaxTerminal : terminal'[i] = s[i + d] /\ i + d \in DOMAIN s
    <3>1. MaxTerminal \in Nat /\ Len(s) = d + MaxTerminal
      BY <2>2, WaiterAssumption
    <3> HIDE DEF s
    <3>2. \A i \in 1..MaxTerminal : i + d \in DOMAIN s
      BY <1>1, <2>2, <3>1
    <3> HIDE DEF d
    <3>3. terminal' \in Seq(Calls) /\ Len(terminal') = MaxTerminal
      BY <1>1, <2>1, <2>2, <3>1
    <3>4. \A i \in 1..MaxTerminal : terminal'[i] = s[i + d]
      BY <1>1, <2>1, <2>2, <3>1
    <3> QED
      BY <3>2, <3>3, <3>4
  <2>4. \A i \in DOMAIN terminal' : terminal'[i] \in Remembered \union {j}
    <3>1. DOMAIN terminal' = 1..MaxTerminal
      BY <2>3
    <3> QED
      BY <1>2, <2>3, <3>1
  <2> HIDE DEF s
  <2> QED
    BY <2>3, <2>4 DEF Remembered
<1>5. CASE ~(Len(s) > MaxTerminal)
  BY <1>1, <1>2, <1>3, <1>5 DEF Trim, Remembered
<1> QED
  BY <1>4, <1>5

(* PublishTerminal touches the registration of its own job, and at most    *)
(* the future registered for it.                                           *)
LEMMA PublishEffect ==
  ASSUME WaiterTypeOK, NEW j \in Calls, PublishTerminal(j)
  PROVE  /\ WaiterTypeOK'
         /\ Remembered' \subseteq Remembered \union {j}
         /\ futures' = [futures EXCEPT ![j] = None]
         /\ holds' = holds
         /\ \A f \in Calls : futState'[f] # futState[f] =>
              futures[j] = f /\ futState[f] = "pending" /\ futState'[f] = "result"
         /\ \A f \in Calls : futures[j] = f => futState'[f] # "pending"
<1>1. terminal' \in Seq(Calls) /\ Remembered' \subseteq Remembered \union {j}
  BY RememberAdds DEF WaiterTypeOK, PublishTerminal
<1>2. futures' = [futures EXCEPT ![j] = None] /\ holds' = holds
  BY DEF PublishTerminal
<1>3. CASE futures[j] # None /\ futState[futures[j]] = "pending"
  <2>1. futures[j] \in Calls /\ futState' = [futState EXCEPT ![futures[j]] = "result"]
    BY <1>3 DEF WaiterTypeOK, PublishTerminal
  <2> QED
    BY <1>1, <1>2, <1>3, <2>1 DEF WaiterTypeOK, FutureState
<1>4. CASE ~(futures[j] # None /\ futState[futures[j]] = "pending")
  <2>1. futState' = futState
    BY <1>4 DEF PublishTerminal
  <2> QED
    BY <1>1, <1>2, <1>4, <2>1, WaiterAssumption DEF WaiterTypeOK
<1> QED
  BY <1>3, <1>4

-----------------------------------------------------------------------------
(* The part of the invariant about records, futures and calls, and the     *)
(* kinds of step that change them                                          *)

ServiceInv ==
  /\ FreshCalls
  /\ CallsHaveJobs
  /\ KeyedRecords
  /\ RegisteredFutures
  /\ RememberedSettled
  /\ NeverCanceled
  /\ AtMostOneActivePerKey
  /\ NoLostWakeup
  /\ HeardIsSettled

(* The worker records a verdict.                                           *)
SettleStep(j, s) ==
  /\ s \in {"succeeded", "failed"}
  /\ status' = [status EXCEPT ![j] = s]
  /\ PublishTerminal(j)
  /\ UNCHANGED <<dedupe, routerVars>>

(* The worker records that a job is running.                               *)
RunStep(j) ==
  /\ status[j] \in ActiveStatus
  /\ status' = [status EXCEPT ![j] = "running"]
  /\ UNCHANGED <<dedupe, waiterVars, routerVars>>

(* A call moves on and changes nothing else here.                          *)
CallStep(c, pc) ==
  /\ cpc[c] \in OpenPC
  /\ Become(c, pc)
  /\ UNCHANGED <<recordVars, waiterVars, target>>

(* A call opens a job of its own.                                          *)
LEMMA NewKeepsService ==
  ASSUME TypeOK, ServiceInv, NEW c \in Calls, NEW k \in Keys, RequestNew(c, k)
  PROVE  ServiceInv'
<1> USE DEF ServiceInv
<1>1. /\ status \in [Calls -> Status] /\ dedupe \in [Calls -> Keys \union {None}]
      /\ futures \in [Calls -> Calls \union {None}] /\ futState \in [Calls -> FutureState]
      /\ holds \in [Calls -> Calls \union {None}] /\ cpc \in [Calls -> CallPC]
      /\ target \in [Calls -> Calls \union {None}] /\ None \notin Calls
  BY WaiterAssumption DEF TypeOK, ServiceTypeOK, WaiterTypeOK, RouterTypeOK
<1>2. cpc[c] = "new" /\ status[c] = "absent" /\ target[c] = None /\ \A j \in Calls : futures[j] # c /\ holds[j] # c
  BY DEF RequestNew, At, FreshCalls
<1>3. c \notin Remembered /\ futures[c] = None
  BY <1>2 DEF RememberedSettled, RegisteredFutures, TerminalStatus, ActiveStatus
<1>4. /\ futures' = [futures EXCEPT ![c] = c]
      /\ futState' = [futState EXCEPT ![c] = "pending"]
      /\ holds' = [holds EXCEPT ![c] = c]
      /\ terminal' = terminal
  BY <1>3 DEF RequestNew, Subscribe, TerminalStatus
<1>5. /\ status' = [status EXCEPT ![c] = "queued"]
      /\ dedupe' = [dedupe EXCEPT ![c] = k]
      /\ cpc' = [cpc EXCEPT ![c] = "announcing"]
      /\ target' = [target EXCEPT ![c] = c]
      /\ ActiveFor(k) = {}
  BY DEF RequestNew, SubmitNew, Become
<1>6. FreshCalls'
  BY <1>1, <1>2, <1>4, <1>5 DEF FreshCalls
<1>7. CallsHaveJobs'
  BY <1>1, <1>2, <1>4, <1>5 DEF CallsHaveJobs, OpenPC
<1>8. RegisteredFutures'
  BY <1>1, <1>2, <1>3, <1>4, <1>5 DEF RegisteredFutures, ActiveStatus
<1>9. RememberedSettled'
  BY <1>1, <1>3, <1>4, <1>5 DEF RememberedSettled, Remembered
<1>10. NeverCanceled' /\ KeyedRecords'
  BY <1>1, <1>5 DEF NeverCanceled, KeyedRecords
<1>11. AtMostOneActivePerKey'
  <2> SUFFICES ASSUME NEW i \in Calls, NEW j \in Calls, i # j,
                      status'[i] \in ActiveStatus, status'[j] \in ActiveStatus,
                      dedupe'[i] = dedupe'[j]
               PROVE  FALSE
    BY DEF AtMostOneActivePerKey
  <2>1. CASE i = c
    BY <1>1, <1>5, <2>1 DEF ActiveFor
  <2>2. CASE j = c
    BY <1>1, <1>5, <2>2 DEF ActiveFor
  <2>3. CASE i # c /\ j # c
    BY <1>1, <1>5, <2>3 DEF AtMostOneActivePerKey
  <2> QED
    BY <2>1, <2>2, <2>3
<1>12. NoLostWakeup'
  <2> SUFFICES ASSUME NEW d \in Calls, cpc'[d] \in OpenPC, futState'[holds'[d]] = "pending"
               PROVE  status'[target'[d]] \in ActiveStatus /\ futures'[target'[d]] = holds'[d]
    BY DEF NoLostWakeup
  <2>1. CASE d = c
    BY <1>1, <1>4, <1>5, <2>1 DEF ActiveStatus
  <2>2. CASE d # c
    <3>1. cpc[d] \in OpenPC /\ target[d] \in Calls /\ holds[d] \in Calls /\ status[target[d]] # "absent"
      BY <1>1, <1>5, <2>2 DEF CallsHaveJobs
    <3>2. target'[d] = target[d] /\ holds'[d] = holds[d] /\ target[d] # c
      BY <1>1, <1>2, <1>4, <1>5, <2>2, <3>1
    <3>3. holds[d] # c
      BY <1>2
    <3> QED
      BY <1>1, <1>4, <1>5, <2>2, <3>1, <3>2, <3>3 DEF NoLostWakeup
  <2> QED
    BY <2>1, <2>2
<1>13. HeardIsSettled'
  BY <1>1, <1>2, <1>4, <1>5 DEF HeardIsSettled, CallsHaveJobs, OpenPC
<1> QED
  BY <1>6, <1>7, <1>8, <1>9, <1>10, <1>11, <1>12, <1>13

(* A call joins an active job.                                             *)
LEMMA JoinKeepsService ==
  ASSUME TypeOK, ServiceInv, NEW c \in Calls, NEW k \in Keys, RequestJoin(c, k)
  PROVE  ServiceInv'
<1> USE DEF ServiceInv
<1>1. /\ status \in [Calls -> Status] /\ dedupe \in [Calls -> Keys \union {None}]
      /\ futures \in [Calls -> Calls \union {None}] /\ futState \in [Calls -> FutureState]
      /\ holds \in [Calls -> Calls \union {None}] /\ cpc \in [Calls -> CallPC]
      /\ target \in [Calls -> Calls \union {None}] /\ None \notin Calls
  BY WaiterAssumption DEF TypeOK, ServiceTypeOK, WaiterTypeOK, RouterTypeOK
<1>2. cpc[c] = "new" /\ status[c] = "absent" /\ target[c] = None
      /\ \A i \in Calls : futures[i] # c /\ holds[i] # c
  BY DEF RequestJoin, At, FreshCalls
<1>3. PICK j \in Calls :
        /\ status[j] \in ActiveStatus
        /\ Subscribe(c, j, status[j])
        /\ target' = [target EXCEPT ![c] = j]
  BY DEF RequestJoin, SubmitJoin, ActiveFor
<1>4. j # c /\ j \notin Remembered /\ status[j] \notin TerminalStatus
  BY <1>2, <1>3 DEF RememberedSettled, TerminalStatus, ActiveStatus
<1>5. /\ status' = status /\ dedupe' = dedupe /\ terminal' = terminal
      /\ cpc' = [cpc EXCEPT ![c] = "announcing"]
  BY <1>3 DEF RequestJoin, SubmitJoin, recordVars, Subscribe, Become
<1>6. \/ /\ futures[j] = None
         /\ futures' = [futures EXCEPT ![j] = c]
         /\ futState' = [futState EXCEPT ![c] = "pending"]
         /\ holds' = [holds EXCEPT ![c] = c]
      \/ /\ futures[j] # None
         /\ futures' = futures /\ futState' = futState
         /\ holds' = [holds EXCEPT ![c] = futures[j]]
  BY <1>3, <1>4 DEF Subscribe
<1>7. FreshCalls'
  BY <1>1, <1>2, <1>3, <1>4, <1>5, <1>6 DEF FreshCalls
<1>8. CallsHaveJobs'
  BY <1>1, <1>2, <1>3, <1>4, <1>5, <1>6 DEF CallsHaveJobs, OpenPC, ActiveStatus
<1>9. RegisteredFutures'
  BY <1>1, <1>2, <1>3, <1>4, <1>5, <1>6 DEF RegisteredFutures
<1>10. RememberedSettled'
  BY <1>5 DEF RememberedSettled, Remembered
<1>11. NeverCanceled' /\ KeyedRecords' /\ AtMostOneActivePerKey'
  BY <1>5 DEF NeverCanceled, KeyedRecords, AtMostOneActivePerKey
<1>12. NoLostWakeup' /\ HeardIsSettled'
  <2> SUFFICES ASSUME NEW d \in Calls
               PROVE  /\ cpc'[d] \in OpenPC /\ futState'[holds'[d]] = "pending" =>
                           status'[target'[d]] \in ActiveStatus /\ futures'[target'[d]] = holds'[d]
                      /\ (cpc'[d] = "done" \/ (cpc'[d] \in OpenPC /\ futState'[holds'[d]] = "result"))
                           => status'[target'[d]] \in TerminalStatus
    BY DEF NoLostWakeup, HeardIsSettled
  <2>1. CASE d = c
    <3>1. target'[d] = j /\ cpc'[d] = "announcing" /\ status'[j] \in ActiveStatus
      BY <1>1, <1>3, <1>5, <2>1
    <3>2. futures'[j] = holds'[d] /\ futState'[holds'[d]] # "result"
      BY <1>1, <1>6, <2>1 DEF RegisteredFutures
    <3> QED
      BY <3>1, <3>2
  <2>2. CASE d # c
    <3>1. target'[d] = target[d] /\ cpc'[d] = cpc[d] /\ holds'[d] = holds[d] /\ holds[d] # c
      BY <1>1, <1>2, <1>3, <1>5, <1>6, <2>2
    <3>2. cpc[d] \in OpenPC \union {"done"} => holds[d] \in Calls /\ target[d] \in Calls
      BY DEF CallsHaveJobs
    <3>3. cpc[d] \in OpenPC \union {"done"} => futState'[holds[d]] = futState[holds[d]]
      BY <1>1, <1>6, <3>1, <3>2
    <3>4. cpc[d] \in OpenPC /\ futures[target[d]] = holds[d] => futures'[target[d]] = holds[d]
      BY <1>1, <1>6, <3>1, <3>2
    <3> QED
      BY <1>5, <3>1, <3>2, <3>3, <3>4 DEF NoLostWakeup, HeardIsSettled
  <2> QED
    BY <2>1, <2>2
<1> QED
  BY <1>7, <1>8, <1>9, <1>10, <1>11, <1>12

(* The worker records a verdict of a job that its creator has queued.      *)
LEMMA SettleKeepsService ==
  ASSUME TypeOK, ServiceInv, NEW j \in Calls, NEW s, SettleStep(j, s),
         status[j] # "absent",
         ~(cpc[j] \in {"announcing", "putting"} /\ target[j] = j)
  PROVE  ServiceInv'
<1> USE DEF ServiceInv
<1>1. /\ status \in [Calls -> Status] /\ dedupe \in [Calls -> Keys \union {None}]
      /\ WaiterTypeOK /\ cpc \in [Calls -> CallPC]
      /\ target \in [Calls -> Calls \union {None}] /\ None \notin Calls
  BY WaiterAssumption DEF TypeOK, ServiceTypeOK, RouterTypeOK
<1>2. /\ WaiterTypeOK'
      /\ Remembered' \subseteq Remembered \union {j}
      /\ futures' = [futures EXCEPT ![j] = None]
      /\ holds' = holds
      /\ \A f \in Calls : futState'[f] # futState[f] =>
           futures[j] = f /\ futState[f] = "pending" /\ futState'[f] = "result"
      /\ \A f \in Calls : futures[j] = f => futState'[f] # "pending"
  BY <1>1, PublishEffect DEF SettleStep
<1>3. /\ status' = [status EXCEPT ![j] = s] /\ s \in {"succeeded", "failed"}
      /\ dedupe' = dedupe /\ cpc' = cpc /\ target' = target
  BY DEF SettleStep, routerVars
<1>4. status'[j] \in TerminalStatus /\ \A i \in Calls : i # j => status'[i] = status[i]
  BY <1>1, <1>3 DEF TerminalStatus
<1>5. \A i \in Calls : futures'[i] # None => i # j /\ futures'[i] = futures[i]
  BY <1>1, <1>2 DEF WaiterTypeOK
<1>6. FreshCalls'
  BY <1>1, <1>2, <1>3, <1>4 DEF FreshCalls, WaiterTypeOK
<1>7. CallsHaveJobs'
  BY <1>1, <1>2, <1>3, <1>4 DEF CallsHaveJobs, TerminalStatus
<1>8. RegisteredFutures'
  <2>1. \A i \in Calls : futures[i] # None => futures[i] \in Calls
    BY <1>1 DEF WaiterTypeOK
  <2> QED
    BY <1>2, <1>4, <1>5, <2>1 DEF RegisteredFutures
<1>9. RememberedSettled'
  <2>1. Remembered \subseteq Calls
    BY <1>1 DEF Remembered, WaiterTypeOK
  <2> QED
    BY <1>2, <1>4, <2>1 DEF RememberedSettled
<1>10. NeverCanceled' /\ KeyedRecords'
  BY <1>3, <1>4 DEF NeverCanceled, KeyedRecords
<1>11. AtMostOneActivePerKey'
  BY <1>3, <1>4 DEF AtMostOneActivePerKey, ActiveStatus, TerminalStatus
<1>12. NoLostWakeup' /\ HeardIsSettled'
  <2> SUFFICES ASSUME NEW d \in Calls
               PROVE  /\ cpc'[d] \in OpenPC /\ futState'[holds'[d]] = "pending" =>
                           status'[target'[d]] \in ActiveStatus /\ futures'[target'[d]] = holds'[d]
                      /\ (cpc'[d] = "done" \/ (cpc'[d] \in OpenPC /\ futState'[holds'[d]] = "result"))
                           => status'[target'[d]] \in TerminalStatus
    BY DEF NoLostWakeup, HeardIsSettled
  <2>1. cpc[d] \in OpenPC \union {"done"} => holds[d] \in Calls /\ target[d] \in Calls
    BY DEF CallsHaveJobs
  <2>2. ASSUME cpc[d] \in OpenPC, futState'[holds[d]] = "pending"
        PROVE  status'[target[d]] \in ActiveStatus /\ futures'[target[d]] = holds[d]
    <3>1. holds[d] \in Calls /\ target[d] \in Calls /\ futState[holds[d]] = "pending"
      BY <1>2, <2>1, <2>2
    <3>2. status[target[d]] \in ActiveStatus /\ futures[target[d]] = holds[d]
      BY <2>2, <3>1 DEF NoLostWakeup
    <3>3. target[d] # j
      BY <1>2, <2>2, <3>1, <3>2
    <3> QED
      BY <1>1, <1>2, <1>4, <3>1, <3>2, <3>3 DEF WaiterTypeOK
  <2>3. ASSUME cpc[d] \in OpenPC, futState'[holds[d]] = "result"
        PROVE  status'[target[d]] \in TerminalStatus
    <3>1. holds[d] \in Calls /\ target[d] \in Calls
      BY <2>1, <2>3
    <3>2. CASE futState[holds[d]] = "result"
      BY <1>4, <2>3, <3>1, <3>2 DEF HeardIsSettled
    <3>3. CASE futState[holds[d]] # "result"
      <4>1. futures[j] = holds[d] /\ futState[holds[d]] = "pending"
        BY <1>2, <2>3, <3>1, <3>3
      <4>2. futures[target[d]] = holds[d]
        BY <2>3, <4>1 DEF NoLostWakeup
      <4>3. target[d] = j
        BY <1>1, <3>1, <4>1, <4>2 DEF RegisteredFutures
      <4> QED
        BY <1>4, <4>3
    <3> QED
      BY <3>2, <3>3
  <2>4. cpc[d] = "done" => status'[target[d]] \in TerminalStatus
    BY <1>4, <2>1 DEF HeardIsSettled
  <2> QED
    BY <1>2, <1>3, <2>2, <2>3, <2>4
<1> QED
  BY <1>6, <1>7, <1>8, <1>9, <1>10, <1>11, <1>12

(* The worker starts on a job.                                             *)
LEMMA RunKeepsService ==
  ASSUME TypeOK, ServiceInv, NEW j \in Calls, RunStep(j),
         ~(cpc[j] \in {"announcing", "putting"} /\ target[j] = j)
  PROVE  ServiceInv'
<1> USE DEF ServiceInv
<1>1. status \in [Calls -> Status]
  BY DEF TypeOK, ServiceTypeOK
<1>2. /\ dedupe' = dedupe /\ futures' = futures /\ futState' = futState /\ terminal' = terminal
      /\ holds' = holds /\ cpc' = cpc /\ target' = target
  BY DEF RunStep, waiterVars, routerVars
<1>3. /\ status[j] \in ActiveStatus /\ status'[j] = "running"
      /\ \A i \in Calls : i # j => status'[i] = status[i]
  BY <1>1 DEF RunStep
<1>4. \A i \in Calls : status'[i] \in ActiveStatus <=> status[i] \in ActiveStatus
  BY <1>3 DEF ActiveStatus
<1>5. \A i \in Calls : status[i] \in TerminalStatus => status'[i] \in TerminalStatus
  BY <1>3 DEF ActiveStatus, TerminalStatus
<1>6. FreshCalls' /\ CallsHaveJobs'
  BY <1>2, <1>3 DEF FreshCalls, CallsHaveJobs, ActiveStatus
<1>7. RegisteredFutures'
  BY <1>2, <1>4 DEF RegisteredFutures
<1>8. RememberedSettled'
  <2>1. Remembered \subseteq Calls
    BY DEF Remembered, TypeOK, ServiceTypeOK, WaiterTypeOK
  <2>2. Remembered' = Remembered
    BY <1>2 DEF Remembered
  <2> QED
    BY <1>5, <2>1, <2>2 DEF RememberedSettled
<1>9. NeverCanceled' /\ KeyedRecords' /\ AtMostOneActivePerKey'
  BY <1>2, <1>3, <1>4 DEF NeverCanceled, KeyedRecords, ActiveStatus, AtMostOneActivePerKey
<1>10. NoLostWakeup' /\ HeardIsSettled'
  BY <1>2, <1>4, <1>5 DEF NoLostWakeup, HeardIsSettled, CallsHaveJobs
<1> QED
  BY <1>6, <1>7, <1>8, <1>9, <1>10

(* A call moves on.                                                        *)
LEMMA CallKeepsService ==
  ASSUME TypeOK, ServiceInv, NEW c \in Calls, NEW pc, CallStep(c, pc),
         pc \in {"putting", "waiting", "done", "cancelled", "expired", "error"},
         pc = "putting" => cpc[c] = "announcing" /\ target[c] = c,
         pc = "done" => futState[holds[c]] = "result"
  PROVE  ServiceInv'
<1> USE DEF ServiceInv
<1>1. cpc \in [Calls -> CallPC]
  BY DEF TypeOK, RouterTypeOK
<1>2. /\ status' = status /\ dedupe' = dedupe /\ futures' = futures /\ futState' = futState
      /\ terminal' = terminal /\ holds' = holds /\ target' = target
  BY DEF CallStep, recordVars, waiterVars
<1>3. cpc[c] \in OpenPC /\ cpc' = [cpc EXCEPT ![c] = pc]
  BY DEF CallStep, Become
<1>4. FreshCalls'
  BY <1>1, <1>2, <1>3 DEF FreshCalls
<1>5. CallsHaveJobs'
  BY <1>1, <1>2, <1>3 DEF CallsHaveJobs
<1>6. /\ RegisteredFutures' /\ RememberedSettled' /\ NeverCanceled' /\ KeyedRecords'
      /\ AtMostOneActivePerKey'
  BY <1>2 DEF RegisteredFutures, RememberedSettled, Remembered, NeverCanceled, KeyedRecords,
              AtMostOneActivePerKey
<1>7. NoLostWakeup' /\ HeardIsSettled'
  BY <1>1, <1>2, <1>3 DEF NoLostWakeup, HeardIsSettled
<1> QED
  BY <1>4, <1>5, <1>6, <1>7

(* A call is turned away before it has a job.                              *)
LEMMA TurnAwayKeepsService ==
  ASSUME TypeOK, ServiceInv, NEW c \in Calls, cpc[c] = "new",
         NEW pc \in {"busy", "rejected"}, Become(c, pc),
         UNCHANGED <<recordVars, waiterVars, target>>
  PROVE  ServiceInv'
<1> USE DEF ServiceInv
<1>1. cpc \in [Calls -> CallPC]
  BY DEF TypeOK, RouterTypeOK
<1>2. /\ status' = status /\ dedupe' = dedupe /\ futures' = futures /\ futState' = futState
      /\ terminal' = terminal /\ holds' = holds /\ target' = target
      /\ cpc' = [cpc EXCEPT ![c] = pc]
  BY DEF recordVars, waiterVars, Become
<1>3. FreshCalls' /\ CallsHaveJobs'
  BY <1>1, <1>2 DEF FreshCalls, CallsHaveJobs, OpenPC
<1>4. /\ RegisteredFutures' /\ RememberedSettled' /\ NeverCanceled' /\ KeyedRecords'
      /\ AtMostOneActivePerKey'
  BY <1>2 DEF RegisteredFutures, RememberedSettled, Remembered, NeverCanceled, KeyedRecords,
              AtMostOneActivePerKey
<1>5. NoLostWakeup' /\ HeardIsSettled'
  BY <1>1, <1>2 DEF NoLostWakeup, HeardIsSettled, OpenPC
<1> QED
  BY <1>3, <1>4, <1>5

(* A call gives up and cancels the future it waits on.                     *)
LEMMA CancelKeepsService ==
  ASSUME TypeOK, ServiceInv, NEW c \in Calls,
         cpc[c] = "waiting", Become(c, "expired"), CancelFuture(holds[c]),
         UNCHANGED <<recordVars, target>>
  PROVE  ServiceInv'
<1> USE DEF ServiceInv
<1>1. /\ cpc \in [Calls -> CallPC] /\ futState \in [Calls -> FutureState]
      /\ futures \in [Calls -> Calls \union {None}]
  BY DEF TypeOK, RouterTypeOK, ServiceTypeOK, WaiterTypeOK
<1>2. holds[c] \in Calls
  BY DEF CallsHaveJobs, OpenPC
<1>3. /\ status' = status /\ dedupe' = dedupe /\ futures' = futures /\ terminal' = terminal
      /\ holds' = holds /\ target' = target
      /\ futState[holds[c]] = "pending"
      /\ futState' = [futState EXCEPT ![holds[c]] = "cancelled"]
      /\ cpc' = [cpc EXCEPT ![c] = "expired"]
  BY DEF CancelFuture, recordVars, Become
<1>4. FreshCalls'
  BY <1>1, <1>2, <1>3 DEF FreshCalls
<1>5. CallsHaveJobs'
  BY <1>1, <1>3 DEF CallsHaveJobs, OpenPC
<1>6. RegisteredFutures'
  BY <1>1, <1>2, <1>3 DEF RegisteredFutures
<1>7. RememberedSettled' /\ NeverCanceled' /\ KeyedRecords' /\ AtMostOneActivePerKey'
  BY <1>3 DEF RememberedSettled, Remembered, NeverCanceled, KeyedRecords, AtMostOneActivePerKey
<1>8. NoLostWakeup' /\ HeardIsSettled'
  <2>1. \A d \in Calls : cpc'[d] \in OpenPC \union {"done"} =>
          cpc[d] = cpc'[d] /\ holds[d] \in Calls
    BY <1>1, <1>3 DEF CallsHaveJobs, OpenPC
  <2>2. \A f \in Calls : futState'[f] \in {"pending", "result"} => futState'[f] = futState[f]
    BY <1>1, <1>2, <1>3
  <2> QED
    BY <1>3, <2>1, <2>2 DEF NoLostWakeup, HeardIsSettled
<1> QED
  BY <1>4, <1>5, <1>6, <1>7, <1>8

(* Steps that leave records, futures and calls alone.                      *)
LEMMA OtherKeepsService ==
  ASSUME ServiceInv, UNCHANGED <<recordVars, waiterVars, routerVars>>
  PROVE  ServiceInv'
BY DEF ServiceInv, FreshCalls, CallsHaveJobs, RegisteredFutures, RememberedSettled, Remembered,
       NeverCanceled, KeyedRecords, AtMostOneActivePerKey, NoLostWakeup, HeardIsSettled,
       recordVars, waiterVars, routerVars

-----------------------------------------------------------------------------
(* The queue                                                               *)

NoDuplicate == \A i, n \in DOMAIN queue : queue[i] = queue[n] => i = n

(* Taking the oldest message removes its one occurrence and no other.      *)
LEMMA TakeEffect ==
  ASSUME queue \in Seq(Calls), NEW m, Take(m)
  PROVE  /\ queue' \in Seq(Calls)
         /\ m \in Calls
         /\ InQueue(m)
         /\ \A j : InQueue(j)' => InQueue(j)
         /\ \A j : InQueue(j) /\ j # m => InQueue(j)'
         /\ NoDuplicate => NoDuplicate' /\ ~InQueue(m)'
<1>1. queue # <<>> /\ m = queue[1] /\ queue' = Tail(queue) /\ Len(queue) \in Nat /\ Len(queue) >= 1
  BY DEF Take
<1>2. /\ queue' \in Seq(Calls) /\ DOMAIN queue = 1..Len(queue)
      /\ DOMAIN queue' = 1..(Len(queue) - 1)
      /\ \A i \in DOMAIN queue' : queue'[i] = queue[i + 1] /\ i + 1 \in DOMAIN queue
  BY <1>1
<1>3. m \in Calls /\ InQueue(m)
  BY <1>1, <1>2 DEF InQueue
<1>4. \A j : InQueue(j)' => InQueue(j)
  BY <1>2 DEF InQueue
<1>5. \A j : InQueue(j) /\ j # m => InQueue(j)'
  <2> SUFFICES ASSUME NEW j, j # m, NEW i \in DOMAIN queue, queue[i] = j
               PROVE  \E n \in DOMAIN queue' : queue'[n] = j
    BY DEF InQueue
  <2>1. i # 1 /\ i - 1 \in DOMAIN queue' /\ (i - 1) + 1 = i
    BY <1>1, <1>2
  <2> QED
    BY <1>2, <2>1
<1>6. NoDuplicate => NoDuplicate'
  BY <1>1, <1>2 DEF NoDuplicate
<1>7. NoDuplicate => ~InQueue(m)'
  <2> SUFFICES ASSUME NoDuplicate, NEW i \in DOMAIN queue', queue'[i] = m
               PROVE  FALSE
    BY DEF InQueue
  <2>1. i + 1 \in DOMAIN queue /\ 1 \in DOMAIN queue /\ queue[i + 1] = queue[1] /\ i + 1 # 1
    BY <1>1, <1>2
  <2> QED
    BY <2>1 DEF NoDuplicate
<1> QED
  BY <1>2, <1>3, <1>4, <1>5, <1>6, <1>7

(* Putting a message adds one occurrence of it and nothing else.           *)
LEMMA PutEffect ==
  ASSUME queue \in Seq(Calls), NEW m \in Calls, Put(m)
  PROVE  /\ queue' \in Seq(Calls)
         /\ \A j : InQueue(j)' <=> InQueue(j) \/ j = m
         /\ NoDuplicate /\ ~InQueue(m) => NoDuplicate'
<1>1. queue' = Append(queue, m)
  BY DEF Put
<1>2. /\ queue' \in Seq(Calls) /\ DOMAIN queue = 1..Len(queue) /\ Len(queue) \in Nat
      /\ DOMAIN queue' = 1..(Len(queue) + 1)
      /\ \A i \in DOMAIN queue : i \in DOMAIN queue' /\ queue'[i] = queue[i]
      /\ queue'[Len(queue) + 1] = m
  BY <1>1
<1>3. \A i \in DOMAIN queue' : i \in DOMAIN queue \/ i = Len(queue) + 1
  BY <1>2
<1>4. \A j : InQueue(j)' <=> InQueue(j) \/ j = m
  BY <1>2, <1>3 DEF InQueue
<1>5. NoDuplicate /\ ~InQueue(m) => NoDuplicate'
  BY <1>2, <1>3 DEF InQueue, NoDuplicate
<1> QED
  BY <1>2, <1>4, <1>5
=============================================================================
