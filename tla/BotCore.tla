------------------------------- MODULE BotCore -------------------------------
(***************************************************************************)
(* The process run_bot.py composes with the memory backend: the router's   *)
(* calls, the job service and its waiter, the queue, and the worker task,  *)
(* on one event loop.                                                      *)
(*                                                                         *)
(* Next adds to the system's own steps the faults of Telegram and the      *)
(* shutdown; SystemNext is the bot left alone with a Telegram that answers. *)
(***************************************************************************)
EXTENDS WorkerLoop, DownloadRouter

VARIABLE phase  \* "polling" updates, "stopping" the worker, "closed" producer

vars == <<serviceVars, queueVars, workerVars, routerVars, phase>>

Init ==
  /\ ServiceInit /\ QueueInit /\ WorkerInit /\ RouterInit
  /\ phase = "polling"

-----------------------------------------------------------------------------
RouterStep(c) ==
  /\ \/ Announce(c) \/ PutUnblocked(c) \/ Await(c)
     \/ phase = "polling" /\ Request(c)
  /\ UNCHANGED <<workerVars, phase>>

WorkerStep(j) == (Handle(j) \/ Fetch(j) \/ Notify(j)) /\ UNCHANGED <<routerVars, phase>>

ThreadStep(j) == ThreadEnds(j) /\ UNCHANGED <<routerVars, phase>>

RouterFault(c) == AnnounceFail(c) /\ UNCHANGED <<workerVars, phase>>

WorkerFault(j) == NotifierFault(j) /\ UNCHANGED <<routerVars, phase>>

(* start_polling returns and worker_stop is set.                           *)
StopPolling ==
  /\ phase = "polling"
  /\ phase' = "stopping"
  /\ UNCHANGED <<serviceVars, queueVars, workerVars, routerVars>>

(* The worker task is cancelled, unless it is dead already.                *)
StopWorker ==
  /\ phase = "stopping"
  /\ WorkerCancelled
  /\ UNCHANGED <<routerVars, phase>>

(* Once the worker task is over the producer is closed.                    *)
Close ==
  /\ phase = "stopping"
  /\ wpc \in {"dead", "stopped"}
  /\ CloseProducer
  /\ phase' = "closed"
  /\ UNCHANGED <<serviceVars, workerVars, routerVars>>

SystemNext == \E c \in Calls : RouterStep(c) \/ WorkerStep(c) \/ ThreadStep(c)

Next ==
  \/ SystemNext
  \/ \E c \in Calls : RouterFault(c) \/ WorkerFault(c)
  \/ StopPolling \/ StopWorker \/ Close

Spec == Init /\ [][Next]_vars

(***************************************************************************)
(* Fairness: a Telegram call comes back (aiogram bounds it by a timeout),  *)
(* a wait ends at its deadline at the latest, and the worker task, when it *)
(* can go on, does.  Nothing makes a user send a request, and nothing      *)
(* bounds an abandoned thread.                                             *)
(***************************************************************************)
CallProgress(c) == (Announce(c) \/ PutUnblocked(c) \/ Await(c)) /\ UNCHANGED <<workerVars, phase>>

Fairness ==
  /\ \A c \in Calls : WF_vars(CallProgress(c))
  /\ WF_vars(\E j \in Calls : WorkerStep(j))

(* Telegram answers every call and nobody stops the process.               *)
QuietSpec == Init /\ [][SystemNext]_vars /\ Fairness

(* Telegram may fail, and nobody stops the process.                        *)
FaultySpec ==
  /\ Init
  /\ [][SystemNext \/ \E c \in Calls : RouterFault(c) \/ WorkerFault(c)]_vars
  /\ \A c \in Calls : WF_vars(CallProgress(c) \/ RouterFault(c))
  /\ WF_vars(\E j \in Calls : WorkerStep(j) \/ WorkerFault(j))

TypeOK ==
  /\ ServiceTypeOK
  /\ QueueTypeOK(Calls)
  /\ WorkerTypeOK
  /\ RouterTypeOK
  /\ phase \in {"polling", "stopping", "closed"}

-----------------------------------------------------------------------------
(* Safety                                                                  *)

InQueue(j) == \E i \in DOMAIN queue : queue[i] = j

(* submit: a chat never has two active jobs for one URL and format, however *)
(* its calls, the worker and the faults interleave.                        *)
AtMostOneActivePerKey ==
  \A i, j \in Calls :
    /\ status[i] \in ActiveStatus
    /\ status[j] \in ActiveStatus
    /\ dedupe[i] = dedupe[j]
    => i = j

(* The hand-over from submit over the announcement to the queue loses and  *)
(* duplicates nothing: a message stands once in the queue, for a job that  *)
(* still waits to be run and is no longer in the hands of its creator; and *)
(* a queued job is in the queue, or its creator is about to put it there,  *)
(* or that creator failed in between.                                      *)
QueuedOnce ==
  /\ \A i, n \in DOMAIN queue : queue[i] = queue[n] => i = n
  /\ \A j \in Calls : InQueue(j) =>
       status[j] = "queued" /\ cpc[j] \notin {"new", "announcing", "putting"}
  /\ \A j \in Calls : status[j] = "queued" =>
       InQueue(j) \/ cpc[j] \in {"announcing", "putting", "error"}

(* No verdict slips past a call between submit, subscribe and wait_for: as *)
(* long as the future a call holds is pending, its job is active and that  *)
(* very future is the one the verdict will be published to.                *)
NoLostWakeup ==
  \A c \in Calls :
    cpc[c] \in OpenPC /\ futState[holds[c]] = "pending" =>
      /\ status[target[c]] \in ActiveStatus
      /\ futures[target[c]] = holds[c]

(* A call that returns from wait_for with a record, or is about to, asked  *)
(* for a job that has reached a terminal status.                           *)
HeardIsSettled ==
  \A c \in Calls :
    (cpc[c] = "done" \/ (cpc[c] \in OpenPC /\ futState[holds[c]] = "result"))
    => status[target[c]] \in TerminalStatus

-----------------------------------------------------------------------------
(* The bot keeps the promise of JobLedger                                  *)

Ledger == INSTANCE JobLedger WITH
  opened   <- [k \in Keys |-> ActiveFor(k)],
  verdict  <- [j \in Calls |-> VerdictOf(j)],
  asked    <- target,
  answered <- {c \in Calls : cpc[c] = "done"}

(* Every step of the process is a step of the ledger, or changes nothing   *)
(* the ledger shows.                                                       *)
LedgerKept == Ledger!Spec

-----------------------------------------------------------------------------
(* Liveness, under QuietSpec                                               *)

(* Every job a call has submitted reaches a terminal status: neither the   *)
(* bounded queue nor the single consumer blocks for ever.                  *)
EveryJobSettles ==
  \A j \in Calls : status[j] \in ActiveStatus ~> status[j] \in TerminalStatus

(* Every call returns.                                                     *)
EveryCallReturns ==
  \A c \in Calls : cpc[c] \in OpenPC ~> cpc[c] \in FinalPC

(* The chat is sent the verdict of every settled job.                      *)
VerdictDelivered ==
  \A j \in Calls : status[j] \in TerminalStatus ~> inbox[j] # <<>>

-----------------------------------------------------------------------------
(* What the repository says and the code does not keep                     *)

(* "Queued download (job ...). This may take a minute." (formatters.py):   *)
(* a call that waits after this notice has a job on its way to the worker. *)
QueuedNoticeHonest ==
  \A c \in Calls :
    cpc[c] = "waiting" /\ status[target[c]] = "queued" =>
      InQueue(target[c]) \/ cpc[target[c]] \in {"announcing", "putting"}

(* The background consumer is attached to the queue (README.md) for as     *)
(* long as the bot polls.                                                  *)
ConsumerAttached == phase = "polling" => wpc # "dead"

(* The waiter bridges the worker to the chat handlers that wait            *)
(* (terminal_waiter.py): a handler's wait ends by a verdict or by its own  *)
(* timeout.                                                                *)
WaitersHearVerdict == \A c \in Calls : cpc[c] # "cancelled"
=============================================================================
