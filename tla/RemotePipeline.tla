--------------------------- MODULE RemotePipeline ---------------------------
(***************************************************************************)
(* execute_remote_download (services/remote_backend.py) as the processor   *)
(* of the task pipeline, with time: one POST, polls with a pause between   *)
(* two of them until the remote service has finished or the deadline has   *)
(* passed, and the fetch of the artifact into a temporary file.            *)
(*                                                                         *)
(* The deadline is looked at between two polls only, and the queue manager *)
(* puts a job back when it has been in flight for more than stale_after,   *)
(* whatever its worker does.  The session's total timeout ends a request   *)
(* that takes too long; a suspended coroutine resumes within the tick.     *)
(***************************************************************************)
EXTENDS TaskPipeline

CONSTANTS
  HttpTotal,   \* total timeout of a request of the session
  MaxWait,     \* _DEFAULT_MAX_WAIT
  Interval,    \* _DEFAULT_POLL_INTERVAL
  StaleAfter   \* stale_after_seconds of the queue manager

ASSUME RemoteAssumption ==
  /\ HttpTotal \in Nat /\ MaxWait \in Nat /\ Interval \in Nat /\ StaleAfter \in Nat

VARIABLES
  phase,   \* where each worker's processor is suspended
  spent,   \* time it has been there
  polled,  \* time since its deadline was set
  age,     \* time since each job in flight was dequeued, StaleAfter + 1 at most;
           \* 0 for the others
  temps    \* jobs whose artifact is in a temporary file

remoteVars == <<phase, spent, polled, age, temps>>
timedVars == <<vars, remoteVars>>

Phases == {"idle", "posting", "polling", "sleeping", "fetching"}

RemoteInit ==
  /\ Init
  /\ phase = [w \in Workers |-> "idle"]
  /\ spent = [w \in Workers |-> 0]
  /\ polled = [w \in Workers |-> 0]
  /\ age = [j \in Jobs |-> 0]
  /\ temps = {}

-----------------------------------------------------------------------------
(* The processor                                                           *)

In(w, p) == phase[w] = p

Enter(w, p) ==
  /\ phase' = [phase EXCEPT ![w] = p]
  /\ spent' = [spent EXCEPT ![w] = 0]

(* The processor is over.                                                  *)
Leave(w) == Enter(w, "idle") /\ polled' = [polled EXCEPT ![w] = 0]

(* The jobs have left the table of jobs in flight, or have a new entry.    *)
Forget(S) == age' = [j \in Jobs |-> IF j \in S THEN 0 ELSE age[j]]

(* The job is landed, with task_done or with its exception.                *)
Succeeds(w) == Completes(w) \/ CompletesUncounted(w)

Breaks(w) == Fails(w) \/ FailsUncounted(w)

BeginPost(w) ==
  /\ Takes(w)
  /\ Enter(w, "posting")
  /\ Forget({Head(pending)})
  /\ UNCHANGED <<polled, temps>>

(* The service has taken the job: the deadline is set, and the first poll  *)
(* begins.                                                                 *)
BeginPolling(w) ==
  /\ In(w, "posting")
  /\ Enter(w, "polling")
  /\ polled' = [polled EXCEPT ![w] = 0]
  /\ UNCHANGED <<vars, age, temps>>

(* The job is not finished yet, or has a status the code does not know.    *)
NotFinished(w) ==
  /\ In(w, "polling")
  /\ Enter(w, "sleeping")
  /\ UNCHANGED <<vars, polled, age, temps>>

Slept(w) == In(w, "sleeping") /\ spent[w] = Interval

\* Faulty: the deadline is not looked at.
PollAgainAlways(w) ==
  /\ Slept(w)
  /\ Enter(w, "polling")
  /\ UNCHANGED <<vars, polled, age, temps>>

PollAgain(w) ==
  /\ Slept(w)
  /\ polled[w] <= MaxWait
  /\ Enter(w, "polling")
  /\ UNCHANGED <<vars, polled, age, temps>>

(* BACKEND_TIMEOUT, a failed result: the reservation is aborted.           *)
DeadlinePassed(w) ==
  /\ Slept(w)
  /\ polled[w] > MaxWait
  /\ Breaks(w) /\ UNCHANGED leaked
  /\ Leave(w)
  /\ Forget({hand[w]})
  /\ UNCHANGED temps

(* The service, or the way to it, fails: as a result or as an exception.   *)
RequestFails(w) ==
  /\ phase[w] \in {"posting", "polling"}
  /\ Breaks(w)
  /\ Leave(w)
  /\ Forget({hand[w]})
  /\ UNCHANGED temps

(* Finished, with a file on a disk both can see.                           *)
FinishedOnDisk(w) ==
  /\ In(w, "polling")
  /\ Succeeds(w)
  /\ Leave(w)
  /\ Forget({hand[w]})
  /\ UNCHANGED temps

(* Finished, with a URL: _save_remote_file opens a temporary file.         *)
BeginFetch(w) ==
  /\ In(w, "polling")
  /\ Enter(w, "fetching")
  /\ polled' = [polled EXCEPT ![w] = 0]
  /\ temps' = temps \union {hand[w]}
  /\ UNCHANGED <<vars, age>>

(* The file is the result's, and stays.                                    *)
Fetched(w) ==
  /\ In(w, "fetching")
  /\ Succeeds(w)
  /\ Leave(w)
  /\ Forget({hand[w]})
  /\ UNCHANGED temps

(* What is left on the disk by the workers in S, which end by an exception. *)
\* Faulty: only an Exception, not a CancelledError, removes the file.
UnlinkedNever(S) == S \subseteq Workers /\ UNCHANGED temps

Unlinked(S) == temps' = temps \ {hand[w] : w \in {v \in S : In(v, "fetching")}}

(* Any exception of the fetch makes a failed result.                       *)
FetchFails(w) ==
  /\ In(w, "fetching")
  /\ Breaks(w) /\ UNCHANGED leaked
  /\ Leave(w)
  /\ Forget({hand[w]})
  /\ temps' = temps \ {hand[w]}

ProcessorCancelled(w) ==
  /\ Crashes(w)
  /\ Leave(w)
  /\ Unlinked({w})
  /\ UNCHANGED age

-----------------------------------------------------------------------------
(* Time                                                                    *)

Limit(w) == IF In(w, "sleeping") THEN Interval ELSE HttpTotal

AtLimit(w) == ~In(w, "idle") /\ spent[w] = Limit(w)

(* Time passes, but not beyond the end of a request or a pause.            *)
Tick ==
  /\ \A w \in Workers : ~AtLimit(w)
  /\ spent' = [w \in Workers |-> IF In(w, "idle") THEN 0 ELSE spent[w] + 1]
  /\ polled' = [w \in Workers |->
       IF phase[w] \in {"polling", "sleeping"} THEN polled[w] + 1 ELSE polled[w]]
  /\ age' = [j \in Jobs |->
       IF j \in inFlight /\ age[j] <= StaleAfter THEN age[j] + 1 ELSE age[j]]
  /\ UNCHANGED <<vars, phase, temps>>

Overdue(j) == j \in inFlight /\ age[j] > StaleAfter

\* Faulty: a job is put back at the very end of stale_after.
OutdatesEarly(j) ==
  /\ j \in inFlight /\ age[j] >= StaleAfter
  /\ Aged(j)
  /\ UNCHANGED remoteVars

Outdates(j) == Overdue(j) /\ Aged(j) /\ UNCHANGED remoteVars

(* The recovery loop sees every job that is overdue, and takes them out of *)
(* the table; one that meets a full queue gets a new entry.                *)
RecoverOverdue ==
  /\ \A j \in Jobs : Overdue(j) => j \in stale
  /\ RecoverRuns \/ RecoverOverflows \/ RecoverDies
  /\ Forget(stale)
  /\ UNCHANGED <<cacheVars, pipelineVars, phase, spent, polled, temps>>

-----------------------------------------------------------------------------
CallerStep(j) == CallerNext(j) /\ UNCHANGED remoteVars

RequestEnds(w) ==
  \/ BeginPolling(w) \/ NotFinished(w) \/ PollAgain(w) \/ DeadlinePassed(w)
  \/ RequestFails(w) \/ FinishedOnDisk(w)
  \/ BeginFetch(w) \/ Fetched(w) \/ FetchFails(w)

CloseBegins ==
  (StopBegins \/ StopBreaks) /\ UNCHANGED <<cacheVars, pipelineVars, remoteVars>>

(* The processors are cancelled with their workers.                        *)
CloseEnds ==
  /\ StopEnds
  /\ phase' = [w \in Workers |-> "idle"]
  /\ spent' = [w \in Workers |-> 0]
  /\ polled' = [w \in Workers |-> 0]
  /\ Unlinked(Workers)
  /\ UNCHANGED <<cacheVars, pipelineVars, age>>

RemoteNext ==
  \/ \E j \in Jobs : CallerStep(j) \/ Outdates(j)
  \/ \E w \in Workers : BeginPost(w) \/ RequestEnds(w) \/ ProcessorCancelled(w)
  \/ RecoverOverdue
  \/ CloseBegins \/ CloseEnds
  \/ Tick

RemoteSpec == RemoteInit /\ [][RemoteNext]_timedVars

(***************************************************************************)
(* Fairness: time passes; a request is over at its timeout and a pause at  *)
(* its end; a worker that waits for a job takes one; a done future wakes   *)
(* its caller; the recovery loop runs; stop() comes to its end.  Nothing   *)
(* is asked of the remote service, and callers need not call.              *)
(***************************************************************************)
RemoteFairSpec ==
  /\ RemoteSpec
  /\ WF_timedVars(Tick)
  /\ \A w \in Workers :
       /\ WF_timedVars(BeginPost(w))
       /\ WF_timedVars(AtLimit(w) /\ (RequestEnds(w) \/ ProcessorCancelled(w)))
  /\ \A j \in Jobs :
       WF_timedVars(Return(j) /\ UNCHANGED remoteVars) /\ WF_timedVars(Outdates(j))
  /\ WF_timedVars(RecoverOverdue)
  /\ WF_timedVars(CloseEnds)

RemoteTypeOK ==
  /\ phase \in [Workers -> Phases]
  /\ spent \in [Workers -> Nat]
  /\ polled \in [Workers -> Nat]
  /\ age \in [Jobs -> Nat]
  /\ temps \subseteq Jobs

-----------------------------------------------------------------------------
(* Safety                                                                  *)

(* The longest a processor takes: a POST, the wait for the deadline, the   *)
(* poll that began just before it, and a pause or a fetch after that poll. *)
Longer(a, b) == IF a > b THEN a ELSE b

LongestRun == HttpTotal + MaxWait + HttpTotal + Longer(HttpTotal, Interval)

(* A job is not in its processor for longer than that, although the        *)
(* deadline is looked at between two polls only: with stale_after at least *)
(* as long, a job that is put back has no worker any more.                 *)
RunBounded == \A w \in Workers : hand[w] # None => age[hand[w]] <= LongestRun

(* A temporary file belongs to a fetch that goes on, or to a result: none  *)
(* is left by a failed fetch, a cancelled processor or a stop.             *)
TempsOwned ==
  \A j \in temps :
    \/ result[j] = "completed"
    \/ \E w \in Workers : hand[w] = j /\ In(w, "fetching")

-----------------------------------------------------------------------------
(* The invariant behind RunBounded: how long a job has been in flight when *)
(* its processor has reached a phase.                                      *)

OnTime(w) ==
  /\ spent[w] <= Limit(w)
  /\ In(w, "posting") => age[hand[w]] <= spent[w]
  /\ In(w, "polling") =>
       age[hand[w]] <= HttpTotal + polled[w] /\ polled[w] <= MaxWait + spent[w]
  /\ In(w, "sleeping") =>
       age[hand[w]] <= HttpTotal + polled[w] /\ polled[w] <= MaxWait + HttpTotal + spent[w]
  /\ In(w, "fetching") => age[hand[w]] <= HttpTotal + MaxWait + HttpTotal + spent[w]

ClockInv ==
  /\ \A j \in Jobs \ inFlight : age[j] = 0
  /\ \A w \in Workers :
       /\ In(w, "idle") <=> hand[w] = None
       /\ wpc[w] = "getting" => hand[w] = None
       /\ OnTime(w)

RemoteInv == RemoteTypeOK /\ ClockInv /\ TempsOwned
=============================================================================
