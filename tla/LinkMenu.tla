------------------------------- MODULE LinkMenu -------------------------------
(***************************************************************************)
(* A link without a command: implicit_url_prompt stores a pending choice   *)
(* and shows a menu, implicit_url_commit redeems it when a button is       *)
(* pressed (bot/routers/download.py, bot/pending_choice.py), both behind   *)
(* the rate limit.  In a group anybody may press, more than once, and      *)
(* after the menu has been used.  The lock of the store is never           *)
(* contended; what follows a redeemed choice is DownloadRouter's subject.  *)
(***************************************************************************)
EXTENDS RateLimit

CONSTANTS
  Tokens,   \* one for each link that is sent
  Ttl,      \* ttl_seconds of the store
  Horizon   \* bound of this model: time stops here

ASSUME MenuAssumption == Ttl \in Nat /\ Horizon \in Nat

VARIABLES
  entries,  \* tokens in _entries
  sender,   \* who sent the link of each token, {} for nobody yet
  sentAt,   \* when its choice was stored
  shown,    \* tokens whose menu has reached the chat
  choices   \* who redeemed each token, and when

menuVars == <<entries, sender, sentAt, shown, choices>>
vars == <<rateVars, menuVars>>

Init ==
  /\ RateInit
  /\ entries = {}
  /\ sender = [t \in Tokens |-> {}]
  /\ sentAt = [t \in Tokens |-> 0]
  /\ shown = {}
  /\ choices = [t \in Tokens |-> <<>>]

Expired(t) == sentAt[t] + Ttl < now

(* _purge_unlocked                                                         *)
Purged == {t \in entries : ~Expired(t)}

(* The text of the link is one validate_for_download accepts.              *)
SendLink(u, t) ==
  /\ sender[t] = {}
  /\ \E kind \in EventKinds \ {"callback"} : Admit(u, kind)
  /\ entries' = Purged \union {t}
  /\ sender' = [sender EXCEPT ![t] = {u}]
  /\ sentAt' = [sentAt EXCEPT ![t] = now]
  /\ UNCHANGED <<shown, choices>>

(* message.answer has delivered the keyboard.                              *)
ShowMenu(t) ==
  /\ sender[t] # {} /\ t \notin shown
  /\ shown' = shown \union {t}
  /\ UNCHANGED <<rateVars, entries, sender, sentAt, choices>>

(* A press of a button whose token pop() still has.                        *)
Pressed(u, t) ==
  /\ t \in shown
  /\ \E kind \in EventKinds \ {"message"} : Admit(u, kind)
  /\ UNCHANGED <<sender, sentAt, shown>>

\* Faulty: the entry is read and not taken out.
RedeemKept(u, t) ==
  /\ Pressed(u, t)
  /\ t \in Purged
  /\ u \in sender[t]
  /\ entries' = Purged
  /\ choices' = [choices EXCEPT ![t] = Append(@, [by |-> u, at |-> now])]

Redeem(u, t) ==
  /\ Pressed(u, t)
  /\ t \in Purged
  /\ u \in sender[t]
  /\ entries' = Purged \ {t}
  /\ choices' = [choices EXCEPT ![t] = Append(@, [by |-> u, at |-> now])]

(* pop() returns None, "This menu expired": the entry is gone, or belongs  *)
(* to somebody else, who will not find it any more either.                 *)
Miss(u, t) ==
  /\ Pressed(u, t)
  /\ t \notin Purged \/ u \notin sender[t]
  /\ entries' = Purged \ {t}
  /\ UNCHANGED choices

SlowDown(u) ==
  /\ \E kind \in EventKinds : Refuse(u, kind)
  /\ UNCHANGED menuVars

TimePasses == now < Horizon /\ Tick /\ UNCHANGED menuVars

Next ==
  \/ \E u \in Users, t \in Tokens : SendLink(u, t) \/ Redeem(u, t) \/ Miss(u, t)
  \/ \E t \in Tokens : ShowMenu(t)
  \/ \E u \in Users : SlowDown(u)
  \/ TimePasses

Spec == Init /\ [][Next]_vars

MenuTypeOK ==
  /\ RateTypeOK
  /\ entries \subseteq Tokens
  /\ sender \in [Tokens -> {{}} \union {{u} : u \in Users}]
  /\ sentAt \in [Tokens -> 0..now]
  /\ shown \subseteq Tokens
  /\ choices \in [Tokens -> Seq([by : Users, at : 0..now])]

(* However often and by whomever its buttons are pressed, a menu starts    *)
(* one download at most, for the one who sent the link, and not after its  *)
(* time to live.                                                           *)
MenuUsedOnce ==
  \A t \in Tokens :
    /\ Len(choices[t]) <= 1
    /\ \A i \in DOMAIN choices[t] :
         choices[t][i].by \in sender[t] /\ choices[t][i].at <= sentAt[t] + Ttl
=============================================================================
