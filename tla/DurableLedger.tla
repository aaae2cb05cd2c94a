---------------------------- MODULE DurableLedger ----------------------------
(***************************************************************************)
(* What the service promises about jobs to whoever uses it, through        *)
(* cancellations and restarts, with nothing of how it keeps it: no stream, *)
(* no worker, no futures.  It is JobLedger with three additions.  A        *)
(* verdict may be overruled: a cancellation by the download that was under *)
(* way, a success by a failure, and a failure by nothing.  A chat is told  *)
(* of a verdict, of a second one only if that is a failure.  And all may   *)
(* be forgotten at once, except what the chats were told: then the callers *)
(* are of the past, and so are the jobs they made.                         *)
(***************************************************************************)
EXTENDS Naturals, Sequences

CONSTANTS Calls, Keys, None

VARIABLES
  opened,    \* per key, the open jobs
  verdict,   \* per job: "none", "open" or a verdict
  asked,     \* per call, the job it shares, or None
  answered,  \* the calls that hold a result
  told,      \* per job, what its chat has been told, in order
  past       \* the calls that were forgotten

ledgerVars == <<opened, verdict, asked, answered, told, past>>

Verdicts == {"succeeded", "failed", "canceled"}

Overruled ==
  {<<"canceled", "succeeded">>, <<"canceled", "failed">>,
   <<"succeeded", "failed">>, <<"failed", "failed">>}

Init ==
  /\ opened = [k \in Keys |-> {}]
  /\ verdict = [j \in Calls |-> "none"]
  /\ asked = [c \in Calls |-> None]
  /\ answered = {}
  /\ told = [j \in Calls |-> <<>>]
  /\ past = {}

Begins(c) == c \notin past /\ asked[c] = None

Open(c, k) ==
  /\ Begins(c)
  /\ opened[k] = {}
  /\ verdict[c] = "none"
  /\ opened' = [opened EXCEPT ![k] = {c}]
  /\ verdict' = [verdict EXCEPT ![c] = "open"]
  /\ asked' = [asked EXCEPT ![c] = c]
  /\ UNCHANGED <<answered, told, past>>

Join(c, k) ==
  /\ Begins(c)
  /\ \E j \in opened[k] : asked' = [asked EXCEPT ![c] = j]
  /\ UNCHANGED <<opened, verdict, answered, told, past>>

(* Some of those who share the job are answered, no one else.              *)
Wakes(j) ==
  /\ answered \subseteq answered'
  /\ \A c \in answered' \ answered : asked[c] = j

Tells(j) ==
  /\ verdict[j] \in {"succeeded", "failed"}
  /\ told[j] = <<>> \/ (verdict[j] = "failed" /\ Len(told[j]) = 1)
  /\ told' = [told EXCEPT ![j] = Append(@, IF verdict[j] = "succeeded" THEN "file" ELSE "failure")]

Settle(j, v) ==
  /\ verdict[j] = "open"
  /\ verdict' = [verdict EXCEPT ![j] = v]
  /\ opened' = [k \in Keys |-> opened[k] \ {j}]
  /\ Wakes(j)
  /\ UNCHANGED <<asked, told, past>>

Overrule(j, v) ==
  /\ <<verdict[j], v>> \in Overruled
  /\ verdict' = [verdict EXCEPT ![j] = v]
  /\ Wakes(j)
  /\ Tells(j) \/ UNCHANGED told
  /\ UNCHANGED <<opened, asked, past>>

Tell(j) == Tells(j) /\ UNCHANGED <<opened, verdict, asked, answered, past>>

Answer(c) ==
  /\ asked[c] # None
  /\ verdict[asked[c]] \in Verdicts
  /\ answered' = answered \union {c}
  /\ UNCHANGED <<opened, verdict, asked, told, past>>

Forget ==
  /\ past' = past \union {c \in Calls : asked[c] # None}
  /\ opened' = [k \in Keys |-> {}]
  /\ verdict' = [j \in Calls |-> "none"]
  /\ asked' = [c \in Calls |-> None]
  /\ answered' = {}
  /\ (\E j \in Calls : Tells(j)) \/ UNCHANGED told

Next ==
  \/ \E c \in Calls, k \in Keys : Open(c, k) \/ Join(c, k)
  \/ \E c \in Calls : Answer(c)
  \/ \E j \in Calls : Tell(j) \/ \E v \in Verdicts : Settle(j, v) \/ Overrule(j, v)
  \/ Forget

Spec == Init /\ [][Next]_ledgerVars
=============================================================================
