--------------------------- MODULE TerminalWaiter ---------------------------
(***************************************************************************)
(* JobTerminalWaiter (services/jobs/terminal_waiter.py): the bridge over   *)
(* which a chat handler learns that its job reached a terminal status.     *)
(*                                                                         *)
(* A call of the router creates at most one job and at most one future, so *)
(* one set, Calls, names the handler invocations, the jobs they create and *)
(* the future objects they create.  Several handlers may hold the SAME     *)
(* future object: that sharing is what `holds' and `futures' record.       *)
(*                                                                         *)
(* Every method body runs without a suspension point: an asyncio.Lock that *)
(* is free is taken without yielding, and no body of `async with           *)
(* self._lock' awaits, so the lock is never contended and a method is one  *)
(* atomic step of the event loop.                                          *)
(***************************************************************************)
EXTENDS Naturals, Sequences

CONSTANTS
  Calls,        \* invocations of the router's enqueue_download_job; job ids
  None,         \* Python's None
  MaxTerminal   \* max_terminal_remembered

ASSUME WaiterAssumption ==
  /\ None \notin Calls
  /\ MaxTerminal \in Nat

VARIABLES
  futures,   \* _futures: per job, the registered future object or None
  futState,  \* state of each future object
  terminal,  \* _terminal: remembered job ids, oldest first
  holds      \* the future object subscribe returned to each call, or None

waiterVars == <<futures, futState, terminal, holds>>

ActiveStatus   == {"queued", "running"}
TerminalStatus == {"succeeded", "failed", "canceled"}
FutureState    == {"unused", "pending", "result", "cancelled"}

WaiterInit ==
  /\ futures = [j \in Calls |-> None]
  /\ futState = [f \in Calls |-> "unused"]
  /\ terminal = <<>>
  /\ holds = [c \in Calls |-> None]

Remembered == {terminal[i] : i \in DOMAIN terminal}

-----------------------------------------------------------------------------
\* Faulty: one entry too many is kept.
TrimLate(s) ==
  IF Len(s) > MaxTerminal + 1 THEN SubSeq(s, Len(s) - MaxTerminal, Len(s)) ELSE s

(* _trim_terminal: drop the oldest entries above the limit.                *)
Trim(s) ==
  IF Len(s) > MaxTerminal THEN SubSeq(s, Len(s) - MaxTerminal + 1, Len(s)) ELSE s

(* `self._terminal[id] = snap' keeps the position of a key already there.  *)
Remember(j) ==
  terminal' = Trim(IF j \in Remembered THEN terminal ELSE Append(terminal, j))

(***************************************************************************)
(* subscribe(job_id, snapshot=...), called by c.                           *)
(***************************************************************************)
\* Faulty: registers a waiter even when the verdict is already remembered.
SubscribeBlind(c, j, snapshot) ==
  /\ futures' = [futures EXCEPT ![j] = IF @ = None THEN c ELSE @]
  /\ futState' = [futState EXCEPT ![c] = IF futures[j] = None THEN "pending" ELSE @]
  /\ holds' = [holds EXCEPT ![c] = futures'[j]]
  /\ UNCHANGED terminal

Subscribe(c, j, snapshot) ==
  /\ \/ /\ snapshot \in TerminalStatus \/ j \in Remembered
        /\ futState' = [futState EXCEPT ![c] = "result"]
        /\ holds' = [holds EXCEPT ![c] = c]
        /\ UNCHANGED futures
     \/ /\ snapshot \notin TerminalStatus /\ j \notin Remembered
        /\ futures[j] = None
        /\ futState' = [futState EXCEPT ![c] = "pending"]
        /\ futures' = [futures EXCEPT ![j] = c]
        /\ holds' = [holds EXCEPT ![c] = c]
     \/ /\ snapshot \notin TerminalStatus /\ j \notin Remembered
        /\ futures[j] # None
        /\ holds' = [holds EXCEPT ![c] = futures[j]]
        /\ UNCHANGED <<futures, futState>>
  /\ UNCHANGED terminal

(***************************************************************************)
(* publish_terminal(record): remember the verdict, drop the registration   *)
(* and resolve the future unless it is already done.                       *)
(***************************************************************************)
\* Faulty: resolves the future without asking whether it is already done.
PublishUnchecked(j) ==
  /\ Remember(j)
  /\ futures' = [futures EXCEPT ![j] = None]
  /\ futState' = IF futures[j] # None
                 THEN [futState EXCEPT ![futures[j]] = "result"]
                 ELSE futState
  /\ UNCHANGED holds

\* Faulty: the future is taken from the table and never resolved.
PublishSilent(j) ==
  /\ Remember(j)
  /\ futures' = [futures EXCEPT ![j] = None]
  /\ UNCHANGED <<futState, holds>>

PublishTerminal(j) ==
  /\ Remember(j)
  /\ futures' = [futures EXCEPT ![j] = None]
  /\ futState' = IF futures[j] # None /\ futState[futures[j]] = "pending"
                 THEN [futState EXCEPT ![futures[j]] = "result"]
                 ELSE futState
  /\ UNCHANGED holds

(***************************************************************************)
(* asyncio.wait_for cancels the future it waits on when its timeout fires; *)
(* the object stays in _futures.                                           *)
(***************************************************************************)
CancelFuture(f) ==
  /\ futState[f] = "pending"
  /\ futState' = [futState EXCEPT ![f] = "cancelled"]
  /\ UNCHANGED <<futures, terminal, holds>>

WaiterTypeOK ==
  /\ futures \in [Calls -> Calls \union {None}]
  /\ futState \in [Calls -> FutureState]
  /\ terminal \in Seq(Calls)
  /\ holds \in [Calls -> Calls \union {None}]
=============================================================================
