---------------------------- MODULE DownloadLedger ----------------------------
(***************************************************************************)
(* What the task pipeline promises about downloads, with nothing of how it *)
(* keeps it: no queue, no workers, no futures, no index.  A call has its   *)
(* download accepted, which claims the key until the download is over, or  *)
(* is told that it is not.  An open download may fail any number of times  *)
(* and stay open; it ends with a success, which closes its key for good,   *)
(* or is given up.  A call is answered only about a download that was      *)
(* tried.  The two things the pipeline does not promise are written out: a *)
(* claim may be forgotten, by a download given up or a call declined.      *)
(***************************************************************************)
CONSTANTS Jobs, Keys, NoJob

VARIABLES
  open,     \* downloads that are accepted and not over
  claim,    \* per key, the download it is claimed by, or NoJob
  done,     \* keys that have been downloaded
  verdict,  \* per download, what its last attempt came to
  reply     \* per download, what became of the call for it

ledgerVars == <<open, claim, done, verdict, reply>>

Declined == {"duplicate", "refused"}

Init ==
  /\ open = {}
  /\ claim = [k \in Keys |-> NoJob]
  /\ done = {}
  /\ verdict = [j \in Jobs |-> "none"]
  /\ reply = [j \in Jobs |-> "new"]

Unclaimed(k) == k \notin done /\ claim[k] = NoJob

ClaimsOf(j) == {k \in Keys : claim[k] = j}

Release(j) == claim' = [k \in Keys |-> IF claim[k] = j THEN NoJob ELSE claim[k]]

Replied(j, r) == reply' = [reply EXCEPT ![j] = r]

AcceptKeyed(j, k) ==
  /\ reply[j] = "new" /\ Unclaimed(k)
  /\ open' = open \union {j}
  /\ claim' = [claim EXCEPT ![k] = j]
  /\ Replied(j, "waiting")
  /\ UNCHANGED <<done, verdict>>

AcceptPlain(j) ==
  /\ reply[j] = "new"
  /\ open' = open \union {j}
  /\ Replied(j, "waiting")
  /\ UNCHANGED <<claim, done, verdict>>

Decline(j) ==
  /\ reply[j] = "new"
  /\ \E r \in Declined : Replied(j, r)
  /\ UNCHANGED <<open, claim, done, verdict>>

(* The key was downloaded by an earlier process.                           *)
DeclineKnown(j, k) ==
  /\ reply[j] = "new" /\ Unclaimed(k)
  /\ done' = done \union {k}
  /\ Replied(j, "duplicate")
  /\ UNCHANGED <<open, claim, verdict>>

DeclineAndForget(j, k) ==
  /\ reply[j] = "new" /\ Unclaimed(k)
  /\ claim' = [claim EXCEPT ![k] = j]
  /\ Replied(j, "refused")
  /\ UNCHANGED <<open, done, verdict>>

FailsOnce(j) ==
  /\ j \in open
  /\ verdict' = [verdict EXCEPT ![j] = "failed"]
  /\ UNCHANGED <<open, claim, done, reply>>

Succeed(j) ==
  /\ j \in open
  /\ open' = open \ {j}
  /\ verdict' = [verdict EXCEPT ![j] = "completed"]
  /\ done' = done \union ClaimsOf(j)
  /\ Release(j)
  /\ UNCHANGED reply

GiveUp(j) ==
  /\ j \in open
  /\ open' = open \ {j}
  /\ verdict' = [verdict EXCEPT ![j] = "failed"]
  /\ Release(j) \/ UNCHANGED claim
  /\ UNCHANGED <<done, reply>>

Answer(j) ==
  /\ reply[j] = "waiting"
  /\ \/ verdict[j] # "none" /\ Replied(j, "answered")
     \/ Replied(j, "unanswered")
  /\ UNCHANGED <<open, claim, done, verdict>>

Next ==
  \E j \in Jobs :
    \/ \E k \in Keys : AcceptKeyed(j, k) \/ DeclineKnown(j, k) \/ DeclineAndForget(j, k)
    \/ AcceptPlain(j) \/ Decline(j)
    \/ FailsOnce(j) \/ Succeed(j) \/ GiveUp(j)
    \/ Answer(j)

Spec == Init /\ [][Next]_ledgerVars
=============================================================================
