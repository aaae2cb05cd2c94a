------------------------------ MODULE JobLedger ------------------------------
(***************************************************************************)
(* What the bot promises about jobs, with nothing of how it keeps it: no   *)
(* queue, no worker, no futures.  A call asks for a key; it opens a job of *)
(* its own unless the key has an open one, which it then shares.  An open  *)
(* job is settled once.  A call is answered only about a settled job.  The *)
(* one step that touches a settled job is Retract: a success that could    *)
(* not be delivered becomes a failure.                                     *)
(***************************************************************************)
CONSTANTS Calls, Keys, None

VARIABLES
  opened,    \* per key, the open jobs
  verdict,   \* per job: "none", "open", "succeeded" or "failed"
  asked,     \* per call, the job it shares, or None
  answered   \* the calls that were told of a verdict

ledgerVars == <<opened, verdict, asked, answered>>

Settled == {"succeeded", "failed"}

Init ==
  /\ opened = [k \in Keys |-> {}]
  /\ verdict = [j \in Calls |-> "none"]
  /\ asked = [c \in Calls |-> None]
  /\ answered = {}

Open(c, k) ==
  /\ asked[c] = None
  /\ opened[k] = {}
  /\ verdict[c] = "none"
  /\ opened' = [opened EXCEPT ![k] = {c}]
  /\ verdict' = [verdict EXCEPT ![c] = "open"]
  /\ asked' = [asked EXCEPT ![c] = c]
  /\ UNCHANGED answered

Join(c, k) ==
  /\ asked[c] = None
  /\ \E j \in opened[k] : asked' = [asked EXCEPT ![c] = j]
  /\ UNCHANGED <<opened, verdict, answered>>

Settle(j, v) ==
  /\ verdict[j] = "open"
  /\ verdict' = [verdict EXCEPT ![j] = v]
  /\ opened' = [k \in Keys |-> opened[k] \ {j}]
  /\ UNCHANGED <<asked, answered>>

Retract(j) ==
  /\ verdict[j] = "succeeded"
  /\ verdict' = [verdict EXCEPT ![j] = "failed"]
  /\ UNCHANGED <<opened, asked, answered>>

Answer(c) ==
  /\ asked[c] # None
  /\ verdict[asked[c]] \in Settled
  /\ answered' = answered \union {c}
  /\ UNCHANGED <<opened, verdict, asked>>

Next ==
  \/ \E c \in Calls, k \in Keys : Open(c, k) \/ Join(c, k)
  \/ \E j \in Calls : Retract(j) \/ \E v \in Settled : Settle(j, v)
  \/ \E c \in Calls : Answer(c)

Spec == Init /\ [][Next]_ledgerVars
=============================================================================
