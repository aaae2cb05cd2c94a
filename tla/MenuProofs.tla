------------------------------ MODULE MenuProofs ------------------------------
(***************************************************************************)
(* For any number of users and menus and any limits: a menu is used once,  *)
(* in time and by its owner; the rate limit, called with events that have  *)
(* a user, holds in every window and refuses nobody without reason, and    *)
(* called as app.py registers it, it limits nothing.                       *)
(***************************************************************************)
EXTENDS LinkMenu, FiniteSetTheorems, TLAPS

-----------------------------------------------------------------------------
(* Menus.  What the rate limit counts plays no part in it: the proof rests *)
(* on pop taking the entry out and on tokens that are never stored twice.  *)

(* A choice that is stored has not been redeemed, and one that has not     *)
(* been sent is neither.                                                   *)
MenuInv ==
  /\ sentAt \in [Tokens -> Nat] /\ now \in Nat
  /\ sender \in [Tokens -> SUBSET Users]
  /\ choices \in [Tokens -> Seq([by : Users, at : Nat])]
  /\ \A t \in Tokens : t \in entries => choices[t] = <<>> /\ sender[t] # {}
  /\ \A t \in Tokens : sender[t] = {} => choices[t] = <<>>
  /\ MenuUsedOnce

LEMMA InitMenu == Init => MenuInv
<1> SUFFICES ASSUME Init PROVE MenuInv
  OBVIOUS
<1>1. \A t \in Tokens : Len(choices[t]) = 0 /\ DOMAIN choices[t] = {}
  BY DEF Init
<1>2. choices \in [Tokens -> Seq([by : Users, at : Nat])]
  <2>1. <<>> \in Seq([by : Users, at : Nat])
    OBVIOUS
  <2> QED
    BY <2>1 DEF Init
<1> QED
  BY <1>1, <1>2 DEF Init, RateInit, MenuInv, MenuUsedOnce

(* Steps that neither send nor redeem.                                     *)
LEMMA OtherMenu ==
  ASSUME MenuInv, entries' \subseteq entries, now' \in Nat, UNCHANGED <<sender, sentAt, choices>>
  PROVE  MenuInv'
BY DEF MenuInv, MenuUsedOnce

LEMMA SendMenu ==
  ASSUME MenuInv, NEW u \in Users, NEW t \in Tokens, SendLink(u, t)
  PROVE  MenuInv'
<1>1. /\ sender[t] = {} /\ now' = now /\ choices' = choices
      /\ entries' \subseteq entries \union {t}
      /\ sender' = [sender EXCEPT ![t] = {u}]
      /\ sentAt' = [sentAt EXCEPT ![t] = now]
  BY DEF SendLink, Admit, Purged
<1>2. choices[t] = <<>>
  BY <1>1 DEF MenuInv
<1>3. /\ sender' \in [Tokens -> SUBSET Users] /\ sentAt' \in [Tokens -> Nat]
      /\ \A s \in Tokens : s # t => sender'[s] = sender[s] /\ sentAt'[s] = sentAt[s]
      /\ sender'[t] # {}
  BY <1>1 DEF MenuInv
<1>4. MenuUsedOnce'
  <2>1. Len(<<>>) = 0 /\ DOMAIN <<>> = {}
    OBVIOUS
  <2> QED
    BY <1>1, <1>2, <1>3, <2>1 DEF MenuInv, MenuUsedOnce
<1> QED
  BY <1>1, <1>2, <1>3, <1>4 DEF MenuInv

LEMMA RedeemMenu ==
  ASSUME MenuInv, NEW u \in Users, NEW t \in Tokens, Redeem(u, t)
  PROVE  MenuInv'
<1> DEFINE c == [by |-> u, at |-> now]
<1>1. /\ t \in entries /\ ~Expired(t) /\ u \in sender[t]
      /\ entries' \subseteq entries \ {t}
      /\ choices' = [choices EXCEPT ![t] = Append(choices[t], c)]
      /\ UNCHANGED <<sender, sentAt, now>>
  BY DEF Redeem, Pressed, Admit, Purged
<1>2. choices[t] = <<>> /\ c \in [by : Users, at : Nat]
  BY <1>1 DEF MenuInv
<1>3. choices'[t] = <<c>> /\ \A s \in Tokens : s # t => choices'[s] = choices[s]
  BY <1>1, <1>2 DEF MenuInv
<1>4. <<c>> \in Seq([by : Users, at : Nat]) /\ Len(<<c>>) = 1 /\ DOMAIN <<c>> = {1} /\ <<c>>[1] = c
  BY <1>2
<1>5. c.by \in sender[t] /\ c.at <= sentAt[t] + Ttl
  BY <1>1, MenuAssumption DEF MenuInv, Expired
<1> HIDE DEF c
<1>6. choices' \in [Tokens -> Seq([by : Users, at : Nat])]
  BY <1>1, <1>3, <1>4 DEF MenuInv
<1>7. MenuUsedOnce'
  <2> SUFFICES ASSUME NEW s \in Tokens
               PROVE  /\ Len(choices'[s]) <= 1
                      /\ \A i \in DOMAIN choices'[s] :
                           choices'[s][i].by \in sender'[s] /\ choices'[s][i].at <= sentAt'[s] + Ttl
    BY DEF MenuUsedOnce
  <2>1. CASE s = t
    <3>1. Len(choices'[s]) = 1 /\ DOMAIN choices'[s] = {1} /\ choices'[s][1] = c
      BY <1>3, <1>4, <2>1
    <3>2. \A i \in DOMAIN choices'[s] : choices'[s][i] = c
      BY <3>1
    <3>3. c.by \in sender'[s] /\ c.at <= sentAt'[s] + Ttl
      BY <1>1, <1>5, <2>1
    <3>4. \A i \in DOMAIN choices'[s] :
            choices'[s][i].by \in sender'[s] /\ choices'[s][i].at <= sentAt'[s] + Ttl
      BY <3>2, <3>3, Zenon
    <3> QED
      BY <3>1, <3>4
  <2>2. CASE s # t
    BY <1>1, <1>3, <2>2 DEF MenuInv, MenuUsedOnce
  <2> QED
    BY <2>1, <2>2
<1> QED
  BY <1>1, <1>3, <1>6, <1>7 DEF MenuInv

LEMMA StepMenu == MenuInv /\ [Next]_vars => MenuInv'
<1> SUFFICES ASSUME MenuInv, [Next]_vars PROVE MenuInv'
  OBVIOUS
<1>1. ASSUME NEW u \in Users, NEW t \in Tokens, Miss(u, t) PROVE MenuInv'
  BY <1>1, OtherMenu DEF Miss, Pressed, Admit, Purged, MenuInv
<1>2. ASSUME NEW t \in Tokens, ShowMenu(t) PROVE MenuInv'
  BY <1>2, OtherMenu DEF ShowMenu, rateVars, MenuInv
<1>3. ASSUME NEW u \in Users, SlowDown(u) PROVE MenuInv'
  BY <1>3, OtherMenu DEF SlowDown, Refuse, menuVars, MenuInv
<1>4. CASE TimePasses
  <2>1. now' = now + 1 /\ UNCHANGED menuVars
    BY <1>4 DEF TimePasses, Tick
  <2>2. now' \in Nat
    BY <2>1 DEF MenuInv
  <2> QED
    BY <2>1, <2>2, OtherMenu DEF menuVars
<1>5. CASE UNCHANGED vars
  BY <1>5, OtherMenu DEF vars, rateVars, menuVars, MenuInv
<1> QED
  BY <1>1, <1>2, <1>3, <1>4, <1>5, SendMenu, RedeemMenu DEF Next

(* However often and by whomever its buttons are pressed, a menu starts    *)
(* one download at most, for its owner and in time (pop, create).          *)
THEOREM MenusAreUsedOnce == Spec => []MenuUsedOnce
<1>1. MenuInv => MenuUsedOnce
  BY DEF MenuInv
<1> QED
  BY <1>1, InitMenu, StepMenu, PTL DEF Spec

-----------------------------------------------------------------------------
(* The rate limit                                                          *)

(* A set of numbers has a least one.                                       *)
LEMMA LeastOne ==
  ASSUME NEW S \in SUBSET Nat, S # {}
  PROVE  \E m \in S : \A n \in S : m <= n
<1> DEFINE T == {0..n : n \in S}
<1>1. IsWellFoundedOn(StrictSubsetOrdering(Nat), FiniteSubsetsOf(Nat))
  BY FS_StrictSubsetOrderingWellFounded
<1>2. T \subseteq FiniteSubsetsOf(Nat) /\ T # {}
  <2>1. ASSUME NEW n \in S PROVE 0..n \in FiniteSubsetsOf(Nat)
    <3>1. IsFiniteSet(0..n)
      BY FS_Interval
    <3>2. 0..n \in SUBSET Nat
      OBVIOUS
    <3> QED
      BY <3>1, <3>2 DEF FiniteSubsetsOf
  <2> QED
    BY <2>1
<1>3. \E x \in T : \A y \in T : <<y, x>> \notin StrictSubsetOrdering(Nat)
  BY <1>1, <1>2, WFMin
<1>4. PICK m \in S : \A n \in S : <<0..n, 0..m>> \notin StrictSubsetOrdering(Nat)
  BY <1>3
<1>5. ASSUME NEW n \in S, n < m PROVE FALSE
  <2>1. 0..n \in SUBSET Nat /\ 0..m \in SUBSET Nat /\ 0..n \subseteq 0..m
    BY <1>5
  <2>2. m \in 0..m /\ m \notin 0..n
    BY <1>5
  <2>3. <<0..n, 0..m>> \in StrictSubsetOrdering(Nat)
    BY <2>1, <2>2 DEF StrictSubsetOrdering
  <2> QED
    BY <1>4, <2>3
<1> QED
  BY <1>5

LEMMA LimitPositive == Limit \in Nat \ {0}
<1>1. \E x \in {1, MaxEvents} : \A y \in {1, MaxEvents} : x >= y
  BY RateAssumption
<1>2. Limit \in {1, MaxEvents} /\ Limit >= 1
  BY <1>1, RateAssumption DEF Limit, Max
<1> QED
  BY <1>2, RateAssumption

(* What is left of a sequence without its first m elements.                *)
LEMMA WithoutFirst ==
  ASSUME NEW d \in Seq(Nat), NEW m \in 0..Len(d)
  PROVE  /\ SubSeq(d, m + 1, Len(d)) \in Seq(Nat)
         /\ Len(SubSeq(d, m + 1, Len(d))) = Len(d) - m
         /\ \A i \in 1..(Len(d) - m) : SubSeq(d, m + 1, Len(d))[i] = d[m + i]
<1>1. Len(d) \in Nat /\ m \in Nat /\ m <= Len(d)
  OBVIOUS
<1>2. /\ SubSeq(d, m + 1, Len(d)) \in Seq(Nat)
      /\ Len(SubSeq(d, m + 1, Len(d))) = Len(d) - m
  BY <1>1
<1>3. ASSUME NEW i \in 1..(Len(d) - m) PROVE SubSeq(d, m + 1, Len(d))[i] = d[m + i]
  <2>1. (m + 1) + i - 1 = m + i /\ i \in 1..((Len(d) - (m + 1)) + 1)
    BY <1>1
  <2> QED
    BY <1>1, <2>1
<1> QED
  BY <1>2, <1>3

(* How many of the handled events have left the deque.                     *)
Gone(u) == Len(handled[u]) - Len(hits[u])

(* The deque is the end of what was handled, and what is no longer in it   *)
(* has left the window.                                                    *)
HitsKept(u) ==
  /\ Len(hits[u]) <= Len(handled[u])
  /\ \A i \in 1..Len(hits[u]) : hits[u][i] = handled[u][Gone(u) + i]
  /\ \A i \in 1..Gone(u) : now - handled[u][i] > Window

(* Events are handled in the order of time, and each one more than Window  *)
(* after the one Limit places before it.                                   *)
HandledKept(u) ==
  /\ \A i \in 1..Len(handled[u]) : handled[u][i] <= now
  /\ \A i, n \in 1..Len(handled[u]) : i <= n => handled[u][i] <= handled[u][n]
  /\ \A i \in 1..Len(handled[u]) :
       i + Limit <= Len(handled[u]) => handled[u][i + Limit] - handled[u][i] > Window

RateInv ==
  /\ now \in Nat /\ refused \subseteq Users
  /\ hits \in [Users -> Seq(Nat)] /\ handled \in [Users -> Seq(Nat)]
  /\ \A u \in Users : HitsKept(u) /\ HandledKept(u)

(* popleft stops before the first hit that is still in the window.         *)
LEMMA LapsedHits ==
  ASSUME RateInv, NEW u \in Users
  PROVE  /\ Lapsed(u) \in 0..Len(hits[u])
         /\ \A i \in 1..Lapsed(u) : now - hits[u][i] > Window
         /\ Lapsed(u) < Len(hits[u]) => now - hits[u][Lapsed(u) + 1] <= Window
<1> DEFINE d == hits[u]
           S == {n \in 0..Len(d) : n < Len(d) => now - d[n + 1] <= Window}
<1>1. d \in Seq(Nat) /\ Len(d) \in Nat /\ now \in Nat /\ Window \in Nat
  BY RateAssumption DEF RateInv
<1>2. S \in SUBSET Nat /\ Len(d) \in S
  BY <1>1
<1>3. PICK m \in S : \A n \in S : m <= n
  BY <1>2, LeastOne
<1> HIDE DEF S
<1>4. ASSUME NEW i \in 1..m PROVE now - d[i] > Window
  <2>1. i - 1 \in 0..Len(d) /\ i - 1 < m /\ (i - 1) + 1 = i /\ i \in 1..Len(d)
    BY <1>1, <1>3 DEF S
  <2>2. i - 1 \notin S
    BY <1>1, <1>2, <1>3, <2>1
  <2>3. ~(i - 1 < Len(d) => now - d[(i - 1) + 1] <= Window)
    BY <2>1, <2>2 DEF S
  <2>4. d[i] \in Nat
    BY <1>1, <2>1
  <2> QED
    BY <1>1, <2>1, <2>3, <2>4
<1>5. /\ m \in 0..Len(d)
      /\ \A i \in 1..m : now - d[i] > Window
      /\ m < Len(d) => now - d[m + 1] <= Window
  BY <1>3, <1>4 DEF S
<1> QED
  BY <1>5 DEF Lapsed

(* What is left of the deque: the end of what was handled again, all of it *)
(* in the window, and the rest out of it.                                  *)
LEMMA RecentHits ==
  ASSUME RateInv, NEW u \in Users
  PROVE  /\ Recent(u) \in Seq(Nat)
         /\ Len(Recent(u)) <= Len(handled[u])
         /\ \A i \in 1..Len(Recent(u)) :
              /\ Recent(u)[i] = handled[u][(Len(handled[u]) - Len(Recent(u))) + i]
              /\ now - Recent(u)[i] <= Window
         /\ \A i \in 1..(Len(handled[u]) - Len(Recent(u))) : now - handled[u][i] > Window
<1> DEFINE d == hits[u]  h == handled[u]  m == Lapsed(u)  r == Recent(u)
<1>1. /\ d \in Seq(Nat) /\ Len(d) \in Nat /\ h \in Seq(Nat) /\ Len(h) \in Nat
      /\ now \in Nat /\ Window \in Nat
  BY RateAssumption DEF RateInv
<1>2. /\ m \in 0..Len(d)
      /\ \A i \in 1..m : now - d[i] > Window
      /\ m < Len(d) => now - d[m + 1] <= Window
  BY LapsedHits
<1>3. /\ r \in Seq(Nat) /\ Len(r) = Len(d) - m
      /\ \A i \in 1..Len(r) : r[i] = d[m + i]
  BY <1>1, <1>2, WithoutFirst DEF Recent
<1>4. /\ Len(d) <= Len(h)
      /\ \A i \in 1..Len(d) : d[i] = h[(Len(h) - Len(d)) + i]
      /\ \A i \in 1..(Len(h) - Len(d)) : now - h[i] > Window
      /\ \A i, n \in 1..Len(h) : i <= n => h[i] <= h[n]
  BY DEF RateInv, HitsKept, HandledKept, Gone
<1> HIDE DEF d, h, m, r
<1>5. ASSUME NEW i \in 1..Len(r)
      PROVE  r[i] = h[(Len(h) - Len(r)) + i] /\ now - r[i] <= Window
  <2>1. m + i \in 1..Len(d) /\ r[i] = d[m + i] /\ m < Len(d)
    BY <1>1, <1>2, <1>3
  <2>2. d[m + i] = h[(Len(h) - Len(d)) + (m + i)] /\ d[m + 1] = h[(Len(h) - Len(d)) + (m + 1)]
    BY <1>1, <1>2, <1>4, <2>1
  <2>3. (Len(h) - Len(d)) + (m + i) = (Len(h) - Len(r)) + i
    BY <1>1, <1>2, <1>3
  <2>4. /\ (Len(h) - Len(d)) + (m + 1) \in 1..Len(h)
        /\ (Len(h) - Len(d)) + (m + i) \in 1..Len(h)
        /\ (Len(h) - Len(d)) + (m + 1) <= (Len(h) - Len(d)) + (m + i)
    <3>1. m \in Nat /\ i \in Nat \ {0} /\ m + i <= Len(d) /\ Len(d) <= Len(h)
      BY <1>1, <1>2, <1>3, <1>4, <2>1
    <3> QED
      BY <1>1, <3>1
  <2>5. d[m + 1] <= d[m + i]
    BY <1>4, <2>2, <2>4
  <2>6. d[m + 1] \in Nat /\ d[m + i] \in Nat
    <3>1. d \in Seq(Nat) /\ m + 1 \in 1..Len(d) /\ m + i \in 1..Len(d)
      BY <1>1, <1>2, <2>1
    <3> QED
      BY <3>1
  <2>7. now - d[m + 1] <= Window
    BY <1>2, <2>1
  <2>8. now - d[m + i] <= Window
    <3>1. now \in Int /\ Window \in Int
      BY <1>1
    <3>2. ASSUME NEW a \in Int, NEW b \in Int, a <= b, now - a <= Window
          PROVE  now - b <= Window
      BY <3>1, <3>2
    <3> HIDE DEF d, m
    <3> QED
      BY <2>5, <2>6, <2>7, <3>2
  <2>9. r[i] = h[(Len(h) - Len(r)) + i]
    BY <2>1, <2>2, <2>3
  <2> QED
    BY <2>1, <2>8, <2>9
<1>6. ASSUME NEW i \in 1..(Len(h) - Len(r)) PROVE now - h[i] > Window
  <2>1. CASE i \in 1..(Len(h) - Len(d))
    BY <1>4, <2>1
  <2>2. CASE i \notin 1..(Len(h) - Len(d))
    <3>1. i - (Len(h) - Len(d)) \in 1..m
      BY <1>1, <1>2, <1>3, <1>4, <2>2
    <3>2. d[i - (Len(h) - Len(d))] = h[(Len(h) - Len(d)) + (i - (Len(h) - Len(d)))]
      BY <1>1, <1>2, <1>4, <3>1
    <3>3. (Len(h) - Len(d)) + (i - (Len(h) - Len(d))) = i
      BY <1>1
    <3> QED
      BY <1>2, <3>1, <3>2, <3>3
  <2> QED
    BY <2>1, <2>2
<1> QED
  BY <1>1, <1>2, <1>3, <1>4, <1>5, <1>6 DEF d, h, m, r

(* The time of an event that is handled goes to the end of both, and fewer *)
(* than Limit of the events before it are still in the window.             *)
LEMMA AdmitRate ==
  ASSUME RateInv, NEW u \in Users, NEW kind, HasUser(kind), Admit(u, kind)
  PROVE  RateInv'
<1> DEFINE h == handled[u]  r == Recent(u)  H == handled'[u]  R == hits'[u]
<1>1. /\ now \in Nat /\ h \in Seq(Nat) /\ Len(h) \in Nat /\ Limit \in Nat \ {0} /\ Window \in Nat
      /\ hits \in [Users -> Seq(Nat)] /\ handled \in [Users -> Seq(Nat)]
  BY LimitPositive, RateAssumption DEF RateInv
<1>2. /\ r \in Seq(Nat) /\ Len(r) \in Nat /\ Len(r) <= Len(h)
      /\ \A i \in 1..Len(r) : r[i] = h[(Len(h) - Len(r)) + i] /\ now - r[i] <= Window
      /\ \A i \in 1..(Len(h) - Len(r)) : now - h[i] > Window
  BY RecentHits
<1>3. /\ Len(r) < Limit /\ now' = now /\ refused' = {}
      /\ hits' = [hits EXCEPT ![u] = Append(r, now)]
      /\ handled' = [handled EXCEPT ![u] = Append(h, now)]
  BY DEF Admit
<1>4. /\ HitsKept(u) /\ HandledKept(u)
      /\ \A i \in 1..Len(h) : h[i] <= now
      /\ \A i, n \in 1..Len(h) : i <= n => h[i] <= h[n]
      /\ \A i \in 1..Len(h) : i + Limit <= Len(h) => h[i + Limit] - h[i] > Window
  BY DEF RateInv, HandledKept
<1> HIDE DEF h, r
<1>5. /\ H = Append(h, now) /\ R = Append(r, now) /\ H \in Seq(Nat) /\ R \in Seq(Nat)
      /\ hits' \in [Users -> Seq(Nat)] /\ handled' \in [Users -> Seq(Nat)]
  BY <1>1, <1>2, <1>3
<1>6. /\ Len(H) = Len(h) + 1 /\ Len(R) = Len(r) + 1
      /\ \A i \in 1..Len(h) : H[i] = h[i]
      /\ \A i \in 1..Len(r) : R[i] = r[i]
      /\ H[Len(h) + 1] = now /\ R[Len(r) + 1] = now
  BY <1>1, <1>2, <1>5
<1>7. /\ Len(H) - Len(R) = Len(h) - Len(r) /\ Len(h) - Len(r) \in Nat /\ Len(R) <= Len(H)
      /\ \A i \in 1..Len(R) : i \in 1..Len(r) \/ i = Len(r) + 1
      /\ \A i \in 1..Len(H) : i \in 1..Len(h) \/ i = Len(h) + 1
  <2>1. Len(H) = Len(h) + 1 /\ Len(R) = Len(r) + 1
    BY <1>6
  <2>2. Len(h) \in Nat /\ Len(r) \in Nat /\ Len(r) <= Len(h)
    BY <1>1, <1>2
  <2> QED
    BY <2>1, <2>2
<1> HIDE DEF H, R
<1>8. /\ Len(R) <= Len(H)
      /\ \A i \in 1..Len(R) : R[i] = H[(Len(H) - Len(R)) + i]
      /\ \A i \in 1..(Len(H) - Len(R)) : now - H[i] > Window
  <2>1. ASSUME NEW i \in 1..Len(R) PROVE R[i] = H[(Len(h) - Len(r)) + i]
    <3>1. CASE i \in 1..Len(r)
      <4>1. (Len(h) - Len(r)) + i \in 1..Len(h)
        BY <1>1, <1>2, <3>1
      <4> QED
        BY <1>2, <1>6, <3>1, <4>1
    <3>2. CASE i = Len(r) + 1
      <4>1. (Len(h) - Len(r)) + i = Len(h) + 1
        BY <1>1, <1>2, <3>2
      <4> QED
        BY <1>6, <3>2, <4>1
    <3> QED
      BY <1>7, <3>1, <3>2
  <2>2. ASSUME NEW i \in 1..(Len(h) - Len(r)) PROVE now - H[i] > Window
    <3>1. i \in 1..Len(h)
      BY <1>1, <1>2
    <3> QED
      BY <1>2, <1>6, <3>1
  <2> QED
    BY <1>7, <2>1, <2>2
<1>9. /\ \A i \in 1..Len(H) : H[i] <= now
      /\ \A i, n \in 1..Len(H) : i <= n => H[i] <= H[n]
  <2>1. ASSUME NEW i \in 1..Len(H) PROVE i \in 1..Len(h) \/ i = Len(h) + 1
    BY <1>7
  <2>2. ASSUME NEW i \in 1..Len(H) PROVE H[i] <= now
    <3>1. CASE i \in 1..Len(h)
      BY <1>4, <1>6, <3>1
    <3>2. CASE i = Len(h) + 1
      BY <1>1, <1>6, <3>2
    <3> QED
      BY <2>1, <3>1, <3>2
  <2>3. ASSUME NEW i \in 1..Len(H), NEW n \in 1..Len(H), i <= n PROVE H[i] <= H[n]
    <3>1. CASE n = Len(h) + 1
      BY <1>6, <2>2, <3>1
    <3>2. CASE n \in 1..Len(h)
      <4>1. i \in 1..Len(h)
        BY <1>1, <2>3, <3>2
      <4> QED
        BY <1>4, <1>6, <2>3, <3>2, <4>1
    <3> QED
      BY <2>1, <3>1, <3>2
  <2> QED
    BY <2>2, <2>3
<1>10. ASSUME NEW i \in 1..Len(H), i + Limit <= Len(H) PROVE H[i + Limit] - H[i] > Window
  <2>1. i \in 1..Len(h) /\ H[i] = h[i]
    BY <1>1, <1>6, <1>10
  <2>2. CASE i + Limit <= Len(h)
    <3>1. i + Limit \in 1..Len(h) /\ H[i + Limit] = h[i + Limit]
      BY <1>1, <1>6, <2>2
    <3> QED
      BY <1>4, <2>1, <2>2, <3>1
  <2>3. CASE i + Limit = Len(h) + 1
    <3>1. i \in 1..(Len(h) - Len(r)) /\ H[i + Limit] = now
      BY <1>1, <1>2, <1>3, <1>6, <2>3
    <3> QED
      BY <1>2, <2>1, <3>1
  <2>4. i \in Nat /\ (i + Limit <= Len(h) \/ i + Limit = Len(h) + 1)
    <3>1. Len(H) = Len(h) + 1
      BY <1>6
    <3>2. i \in Nat /\ i + Limit <= Len(h) + 1
      BY <1>1, <1>7, <1>10, <3>1
    <3>3. Limit \in Nat /\ Len(h) \in Nat
      BY <1>1
    <3> QED
      BY <3>2, <3>3
  <2> QED
    BY <2>2, <2>3, <2>4
<1>11. HitsKept(u)' /\ HandledKept(u)'
  <2>1. HitsKept(u)'
    BY <1>3, <1>8 DEF HitsKept, Gone, H, R
  <2>2. HandledKept(u)'
    BY <1>3, <1>9, <1>10 DEF HandledKept, H, Limit
  <2> QED
    BY <2>1, <2>2
<1>12. ASSUME NEW v \in Users, v # u PROVE HitsKept(v)' /\ HandledKept(v)'
  <2>1. hits'[v] = hits[v] /\ handled'[v] = handled[v]
    BY <1>1, <1>3, <1>12
  <2>2. HitsKept(v) /\ HandledKept(v)
    BY DEF RateInv
  <2>3. HitsKept(v)'
    BY <1>3, <2>1, <2>2 DEF HitsKept, Gone
  <2>4. HandledKept(v)'
    BY <1>3, <2>1, <2>2 DEF HandledKept, Limit
  <2> QED
    BY <2>3, <2>4
<1> QED
  BY <1>1, <1>3, <1>5, <1>11, <1>12 DEF RateInv

(* What is refused leaves no trace.                                        *)
LEMMA RefuseRate ==
  ASSUME RateInv, NEW u \in Users, NEW kind, Refuse(u, kind)
  PROVE  RateInv'
<1>1. /\ now \in Nat /\ hits \in [Users -> Seq(Nat)] /\ handled \in [Users -> Seq(Nat)]
      /\ now' = now /\ handled' = handled /\ refused' = {u}
      /\ hits' = [hits EXCEPT ![u] = Recent(u)]
  BY DEF RateInv, Refuse
<1>2. /\ Recent(u) \in Seq(Nat)
      /\ Len(Recent(u)) <= Len(handled[u])
      /\ \A i \in 1..Len(Recent(u)) :
           Recent(u)[i] = handled[u][(Len(handled[u]) - Len(Recent(u))) + i]
      /\ \A i \in 1..(Len(handled[u]) - Len(Recent(u))) : now - handled[u][i] > Window
  BY RecentHits
<1>3. hits' \in [Users -> Seq(Nat)] /\ hits'[u] = Recent(u)
  BY <1>1, <1>2
<1>4. HitsKept(u)'
  BY <1>1, <1>2, <1>3 DEF HitsKept, Gone
<1>5. ASSUME NEW v \in Users PROVE HandledKept(v)'
  BY <1>1 DEF RateInv, HandledKept, Limit
<1>6. ASSUME NEW v \in Users, v # u PROVE HitsKept(v)'
  <2>1. hits'[v] = hits[v]
    BY <1>1, <1>6
  <2>2. HitsKept(v)
    BY DEF RateInv
  <2> QED
    BY <1>1, <2>1, <2>2 DEF HitsKept, Gone
<1> QED
  BY <1>1, <1>3, <1>4, <1>5, <1>6 DEF RateInv

(* What has left the window stays out of it.                               *)
LEMMA TickRate ==
  ASSUME RateInv, Tick
  PROVE  RateInv'
<1>1. /\ now \in Nat /\ Window \in Nat /\ now' = now + 1
      /\ hits' = hits /\ handled' = handled /\ refused' = {}
      /\ hits \in [Users -> Seq(Nat)] /\ handled \in [Users -> Seq(Nat)]
  BY RateAssumption DEF RateInv, Tick
<1>2. ASSUME NEW v \in Users PROVE HitsKept(v)'
  <2>1. HitsKept(v) /\ handled[v] \in Seq(Nat) /\ hits[v] \in Seq(Nat)
    BY <1>1 DEF RateInv
  <2>2. Gone(v)' = Gone(v) /\ Gone(v) \in 0..Len(handled[v])
    BY <1>1, <2>1 DEF Gone, HitsKept
  <2>3. ASSUME NEW i \in 1..Gone(v) PROVE now' - handled'[v][i] > Window
    <3>1. handled[v][i] \in Nat /\ now - handled[v][i] > Window
      BY <2>1, <2>2 DEF HitsKept
    <3> QED
      BY <1>1, <3>1
  <2> QED
    BY <1>1, <2>1, <2>2, <2>3 DEF HitsKept
<1>3. ASSUME NEW v \in Users PROVE HandledKept(v)'
  <2>1. HandledKept(v) /\ handled[v] \in Seq(Nat)
    BY <1>1 DEF RateInv
  <2>2. ASSUME NEW i \in 1..Len(handled[v]) PROVE handled[v][i] <= now'
    <3>1. handled[v][i] \in Nat /\ handled[v][i] <= now
      BY <2>1 DEF HandledKept
    <3> QED
      BY <1>1, <3>1
  <2> QED
    BY <1>1, <2>1, <2>2 DEF HandledKept, Limit
<1> QED
  BY <1>1, <1>2, <1>3 DEF RateInv

(* The middleware is registered where events have a user: on messages and  *)
(* callback queries, as its tests call it, and not on updates, as app.py   *)
(* registers it, where it counts nothing (run rate_limited).               *)
EventsHaveUsers == \A kind \in EventKinds : HasUser(kind)

LEMMA InitRate == Init => RateInv /\ RefusedWithReason
<1> SUFFICES ASSUME Init PROVE RateInv /\ RefusedWithReason
  OBVIOUS
<1>1. <<>> \in Seq(Nat) /\ Len(<<>>) = 0
  OBVIOUS
<1>2. \A u \in Users : hits[u] = <<>> /\ handled[u] = <<>>
  BY DEF Init, RateInit
<1>3. hits \in [Users -> Seq(Nat)] /\ handled \in [Users -> Seq(Nat)] /\ now \in Nat
  BY <1>1 DEF Init, RateInit
<1>4. ASSUME NEW u \in Users PROVE HitsKept(u) /\ HandledKept(u)
  <2>1. Len(hits[u]) = 0 /\ Len(handled[u]) = 0 /\ Gone(u) = 0
    BY <1>1, <1>2 DEF Gone
  <2> QED
    BY <2>1 DEF HitsKept, HandledKept
<1> QED
  BY <1>3, <1>4 DEF RateInv, RefusedWithReason, Init, RateInit

LEMMA StepRate ==
  ASSUME EventsHaveUsers, RateInv, [Next]_vars
  PROVE  RateInv'
<1>1. ASSUME NEW u \in Users, NEW kind \in EventKinds, Admit(u, kind) PROVE RateInv'
  BY <1>1, AdmitRate DEF EventsHaveUsers
<1>2. ASSUME NEW u \in Users, NEW kind \in EventKinds, Refuse(u, kind) PROVE RateInv'
  BY <1>2, RefuseRate
<1>3. ASSUME UNCHANGED rateVars PROVE RateInv'
  BY <1>3 DEF rateVars, RateInv, HitsKept, HandledKept, Gone, Limit
<1>4. ASSUME NEW u \in Users, NEW t \in Tokens, SendLink(u, t) PROVE RateInv'
  BY <1>1, <1>4 DEF SendLink
<1>5. ASSUME NEW u \in Users, NEW t \in Tokens, Redeem(u, t) \/ Miss(u, t) PROVE RateInv'
  BY <1>1, <1>5 DEF Redeem, Miss, Pressed
<1>6. ASSUME NEW t \in Tokens, ShowMenu(t) PROVE RateInv'
  BY <1>3, <1>6 DEF ShowMenu
<1>7. ASSUME NEW u \in Users, SlowDown(u) PROVE RateInv'
  BY <1>2, <1>7 DEF SlowDown
<1>8. ASSUME TimePasses PROVE RateInv'
  BY <1>8, TickRate DEF TimePasses
<1>9. ASSUME UNCHANGED vars PROVE RateInv'
  BY <1>3, <1>9 DEF vars
<1> QED
  BY <1>4, <1>5, <1>6, <1>7, <1>8, <1>9 DEF Next

(* Of the events handled in a window the earliest and the Limit-1 after it *)
(* are all: the next one is more than Window later.                        *)
LEMMA WindowBounded ==
  ASSUME RateInv, NEW u \in Users, NEW t \in 0..now
  PROVE  Within(u, t) <= Limit
<1> DEFINE h == handled[u]
           S == {i \in DOMAIN h : h[i] \in (t - Window)..t}
<1>1. /\ now \in Nat /\ h \in Seq(Nat) /\ Len(h) \in Nat /\ DOMAIN h = 1..Len(h)
      /\ Limit \in Nat \ {0} /\ Window \in Nat /\ t \in Nat
  BY LimitPositive, RateAssumption DEF RateInv
<1>2. /\ \A i, n \in 1..Len(h) : i <= n => h[i] <= h[n]
      /\ \A i \in 1..Len(h) : i + Limit <= Len(h) => h[i + Limit] - h[i] > Window
  BY DEF RateInv, HandledKept
<1> HIDE DEF h
<1>3. S \in SUBSET Nat
  BY <1>1
<1>4. CASE S = {}
  <2>1. Within(u, t) = 0
    BY <1>4, FS_EmptySet DEF Within, Quantify, h
  <2> QED
    BY <1>1, <2>1
<1>5. CASE S # {}
  <2>1. PICK m \in S : \A n \in S : m <= n
    BY <1>3, <1>5, LeastOne
  <2>2. m \in 1..Len(h) /\ h[m] \in Nat /\ h[m] >= t - Window
    BY <1>1, <2>1
  <2>3. ASSUME NEW n \in S, n >= m + Limit PROVE FALSE
    <3>1. n \in 1..Len(h) /\ h[n] \in Nat /\ h[n] <= t
      BY <1>1, <2>3
    <3>2. m + Limit \in 1..Len(h) /\ m + Limit <= Len(h)
      BY <1>1, <2>2, <2>3, <3>1
    <3>3. h[m + Limit] - h[m] > Window
      BY <1>2, <2>2, <3>2
    <3>4. h[m + Limit] <= h[n]
      BY <1>2, <2>3, <3>1, <3>2
    <3>5. /\ h[m] \in Nat /\ h[n] \in Nat /\ h[m + Limit] \in Nat /\ t \in Nat /\ Window \in Nat
          /\ h[m] >= t - Window /\ h[n] <= t
      BY <1>1, <2>2, <3>1, <3>2
    <3> QED
      BY <3>3, <3>4, <3>5
  <2>4. S \subseteq m..(m + Limit - 1)
    <3>1. ASSUME NEW n \in S PROVE n \in m..(m + Limit - 1)
      <4>1. n \in Nat /\ m \in Nat /\ m <= n /\ ~(n >= m + Limit)
        BY <1>3, <2>1, <2>3
      <4> QED
        BY <1>1, <4>1
    <3> QED
      BY <3>1
  <2>5. IsFiniteSet(m..(m + Limit - 1)) /\ Cardinality(m..(m + Limit - 1)) = Limit
    <3>1. m \in Int /\ m + Limit - 1 \in Int /\ ~(m > m + Limit - 1)
          /\ (m + Limit - 1) - m + 1 = Limit
      BY <1>1, <2>2
    <3> QED
      BY <3>1, FS_Interval
  <2>6. Cardinality(S) <= Limit
    <3> HIDE DEF S
    <3> DEFINE T == m..(m + Limit - 1)
    <3>1. S \in SUBSET T /\ IsFiniteSet(T) /\ Cardinality(T) = Limit
      BY <2>4, <2>5
    <3> HIDE DEF T
    <3> QED
      BY <3>1, FS_Subset
  <2> QED
    BY <2>6 DEF Within, Quantify, h
<1> QED
  BY <1>4, <1>5

(* What Refuse leaves in the deque, Limit events or more, is the end of    *)
(* what was handled and all of it in the window.                           *)
LEMMA RefusedFull ==
  ASSUME RateInv, NEW u \in Users, NEW kind, Refuse(u, kind)
  PROVE  Within(u, now)' >= Limit
<1> DEFINE h == handled[u]  r == Recent(u)
           I == (Len(h) - Len(r) + 1)..Len(h)
           S == {i \in DOMAIN h : h[i] \in (now - Window)..now}
<1>1. /\ now \in Nat /\ h \in Seq(Nat) /\ Len(h) \in Nat /\ DOMAIN h = 1..Len(h)
      /\ Limit \in Nat \ {0} /\ Window \in Nat
      /\ \A i \in 1..Len(h) : h[i] <= now
  BY LimitPositive, RateAssumption DEF RateInv, HandledKept
<1>2. /\ r \in Seq(Nat) /\ Len(r) \in Nat /\ Len(r) <= Len(h)
      /\ \A i \in 1..Len(r) : r[i] = h[(Len(h) - Len(r)) + i] /\ now - r[i] <= Window
  BY RecentHits
<1>3. Len(r) >= Limit /\ now' = now /\ handled' = handled
  BY DEF Refuse
<1> HIDE DEF h, r
<1>4. I \subseteq S
  <2>1. ASSUME NEW i \in I PROVE i \in S
    <3>1. /\ i - (Len(h) - Len(r)) \in 1..Len(r) /\ i \in 1..Len(h)
          /\ (Len(h) - Len(r)) + (i - (Len(h) - Len(r))) = i
      BY <1>1, <1>2
    <3>2. h[i] \in Nat /\ h[i] <= now
      BY <1>1, <3>1
    <3>3. now - h[i] <= Window
      <4>1. r[i - (Len(h) - Len(r))] = h[i]
        BY <1>2, <3>1
      <4> QED
        BY <1>2, <3>1, <4>1
    <3> QED
      BY <1>1, <3>1, <3>2, <3>3
  <2> QED
    BY <2>1
<1>5. IsFiniteSet(I) /\ Cardinality(I) = Len(r)
  <2>1. /\ Len(h) - Len(r) + 1 \in Int /\ Len(h) \in Int
        /\ ~(Len(h) - Len(r) + 1 > Len(h))
        /\ Len(h) - (Len(h) - Len(r) + 1) + 1 = Len(r)
    BY <1>1, <1>2, <1>3
  <2> QED
    BY <2>1, FS_Interval
<1>6. IsFiniteSet(S)
  <2>1. IsFiniteSet(1..Len(h)) /\ S \subseteq 1..Len(h)
    BY <1>1, FS_Interval
  <2> QED
    BY <2>1, FS_Subset
<1>7. Cardinality(S) >= Len(r) /\ Cardinality(S) \in Nat
  <2> HIDE DEF S, I
  <2> QED
    BY <1>2, <1>4, <1>5, <1>6, FS_Subset, FS_CardinalityType
<1>8. Within(u, now)' = Cardinality(S)
  BY <1>3 DEF Within, Quantify, h
<1> QED
  BY <1>1, <1>2, <1>3, <1>7, <1>8

LEMMA StepRefused ==
  ASSUME RateInv, RefusedWithReason, [Next]_vars
  PROVE  RefusedWithReason'
<1>1. ASSUME refused' = {} PROVE RefusedWithReason'
  BY <1>1 DEF RefusedWithReason
<1>2. ASSUME UNCHANGED rateVars PROVE RefusedWithReason'
  BY <1>2 DEF RefusedWithReason, Within, Quantify, Limit, rateVars
<1>3. ASSUME NEW u \in Users, SlowDown(u) PROVE RefusedWithReason'
  <2>1. PICK kind \in EventKinds : Refuse(u, kind)
    BY <1>3 DEF SlowDown
  <2>2. refused' = {u} /\ Within(u, now)' >= Limit
    BY <2>1, RefusedFull DEF Refuse
  <2> QED
    BY <2>2 DEF RefusedWithReason, Limit
<1>4. \/ refused' = {} \/ UNCHANGED rateVars \/ \E u \in Users : SlowDown(u)
  BY DEF Next, SendLink, ShowMenu, Redeem, Miss, Pressed, Admit, TimePasses, Tick, vars
<1> QED
  BY <1>1, <1>2, <1>3, <1>4

(* Wherever a window is laid over what was handled, it holds no more than  *)
(* the limit: the events the middleware drops from the deque are ones that *)
(* no later window can share with what it admits.                          *)
THEOREM WindowsAreKept == EventsHaveUsers => (Spec => []WindowKept)
<1> SUFFICES ASSUME EventsHaveUsers PROVE Spec => []WindowKept
  OBVIOUS
<1>1. Init => RateInv
  BY InitRate
<1>2. RateInv /\ [Next]_vars => RateInv'
  BY StepRate
<1>3. RateInv => WindowKept
  BY WindowBounded DEF WindowKept
<1> QED
  BY <1>1, <1>2, <1>3, PTL DEF Spec

(* Nobody is told to slow down who has not used up the window that ends    *)
(* now: refused events and lapsed ones do not count.                       *)
THEOREM RefusalsHaveReason == EventsHaveUsers => (Spec => []RefusedWithReason)
<1> SUFFICES ASSUME EventsHaveUsers PROVE Spec => []RefusedWithReason
  OBVIOUS
<1>1. Init => RateInv /\ RefusedWithReason
  BY InitRate
<1>2. RateInv /\ RefusedWithReason /\ [Next]_vars => (RateInv /\ RefusedWithReason)'
  BY StepRate, StepRefused
<1> QED
  BY <1>1, <1>2, PTL DEF Spec

(* What app.py registers it for: the middleware of dp.update is called     *)
(* with updates, which have no from_user.                                  *)
EventsHaveNoUsers == \A kind \in EventKinds : ~HasUser(kind)

NeverCounted == refused = {} /\ hits = [u \in Users |-> <<>>]

LEMMA StepUncounted ==
  ASSUME EventsHaveNoUsers, NeverCounted, [Next]_vars
  PROVE  NeverCounted'
<1>1. ASSUME NEW u \in Users, NEW kind \in EventKinds, Admit(u, kind) PROVE NeverCounted'
  BY <1>1 DEF Admit, EventsHaveNoUsers, NeverCounted
<1>2. ASSUME NEW u \in Users, NEW t \in Tokens, SendLink(u, t) PROVE NeverCounted'
  BY <1>1, <1>2 DEF SendLink
<1>3. ASSUME NEW u \in Users, NEW t \in Tokens, Pressed(u, t) PROVE NeverCounted'
  BY <1>1, <1>3 DEF Pressed
<1>4. ASSUME NEW u \in Users PROVE ~SlowDown(u)
  BY DEF SlowDown, Refuse, EventsHaveNoUsers
<1>5. ASSUME TimePasses PROVE NeverCounted'
  BY <1>5 DEF TimePasses, Tick, NeverCounted
<1>6. ASSUME UNCHANGED rateVars PROVE NeverCounted'
  BY <1>6 DEF rateVars, NeverCounted
<1> QED
  BY <1>2, <1>3, <1>4, <1>5, <1>6 DEF Next, Redeem, Miss, ShowMenu, vars

(* Called as it is registered, the middleware never slows anybody down and *)
(* keeps no count, whatever the limit and however many events there are    *)
(* (rate_limit.py, user is None): the run rate_limited is no accident of   *)
(* its bounds.                                                             *)
THEOREM UpdatesAreNeverLimited ==
  EventsHaveNoUsers => (Spec => [](refused = {} /\ \A u \in Users : hits[u] = <<>>))
<1> SUFFICES ASSUME EventsHaveNoUsers
             PROVE  Spec => [](refused = {} /\ \A u \in Users : hits[u] = <<>>)
  OBVIOUS
<1>1. Init => NeverCounted
  BY DEF Init, RateInit, NeverCounted
<1>2. NeverCounted /\ [Next]_vars => NeverCounted'
  BY StepUncounted
<1>3. NeverCounted => refused = {} /\ \A u \in Users : hits[u] = <<>>
  BY DEF NeverCounted
<1> QED
  BY <1>1, <1>2, <1>3, PTL DEF Spec
=============================================================================
