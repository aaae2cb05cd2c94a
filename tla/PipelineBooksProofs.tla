------------------------- MODULE PipelineBooksProofs -------------------------
(***************************************************************************)
(* What the kinds of step of TaskPipeline do to the books of the queue     *)
(* manager: a job is put, taken, dropped, put back, recovered, or stays.   *)
(***************************************************************************)
EXTENDS PipelineInvariant, FiniteSetTheorems, TLAPS

(* The table and the queue agree in type and in number.                    *)
TableTyped ==
  /\ pending \in Seq(Jobs)
  /\ unfinished \in Nat
  /\ inFlight \subseteq Jobs
  /\ stale \subseteq inFlight
  /\ hand \in [Workers -> Jobs \union {None}]

LEMMA TypedTable == TypeOK => TableTyped
BY DEF TypeOK, ManagerTypeOK, PoolTypeOK, TableTyped

(* As long as the count is right it is positive while a job is in flight:  *)
(* task_done does not raise.                                               *)
LEMMA CountedWork ==
  ASSUME TableTyped, BooksInv, Balanced, inFlight # {}
  PROVE  unfinished > 0
<1>1. Cardinality(inFlight) \in Nat /\ Cardinality(inFlight) # 0
  BY FS_CardinalityType, FS_EmptySet DEF BooksInv
<1>2. Len(pending) \in Nat
  BY DEF TableTyped
<1> QED
  BY <1>1, <1>2 DEF Balanced

(* A new job at the end of the queue.                                      *)
LEMMA PutBooks ==
  ASSUME TableTyped, BooksInv, NEW j \in Jobs, j \notin Load,
         pending' = Append(pending, j), unfinished' = unfinished + 1,
         UNCHANGED <<inFlight, stale, hand>>
  PROVE  TableTyped' /\ BooksInv' /\ (Balanced => Balanced') /\ Load' = Load \union {j}
<1>1. Len(pending') = Len(pending) + 1 /\ pending' \in Seq(Jobs)
  BY DEF TableTyped
<1>2. \A i \in DOMAIN pending' :
        \/ i \in DOMAIN pending /\ pending'[i] = pending[i]
        \/ i = Len(pending) + 1 /\ pending'[i] = j
  BY <1>1 DEF TableTyped
<1>3. \A i \in DOMAIN pending : i \in DOMAIN pending' /\ pending'[i] = pending[i]
  BY <1>1 DEF TableTyped
<1>4. Len(pending) + 1 \in DOMAIN pending' /\ pending'[Len(pending) + 1] = j
  BY <1>1 DEF TableTyped
<1>5. \A x : Queued(x)' <=> Queued(x) \/ x = j
  BY <1>2, <1>3, <1>4 DEF Queued
<1>6. Load' = Load \union {j}
  BY <1>5 DEF Load
<1>7. ~Queued(j) /\ j \notin inFlight
  BY DEF Load
<1>8. OnePlace'
  <2>1. \A i, n \in DOMAIN pending' : pending'[i] = pending'[n] => i = n
    BY <1>2, <1>7 DEF BooksInv, OnePlace, Queued
  <2> QED
    BY <2>1, <1>5, <1>7 DEF BooksInv, OnePlace
<1>9. Balanced => Balanced'
  <2>1. Cardinality(inFlight) \in Nat /\ Len(pending) \in Nat
    BY FS_CardinalityType DEF BooksInv, TableTyped
  <2> QED
    BY <2>1, <1>1 DEF BooksInv, Balanced, TableTyped
<1> QED
  BY <1>1, <1>6, <1>8, <1>9 DEF BooksInv, TableTyped, StaleIsOrphan

(* A worker gets the oldest job.                                           *)
LEMMA TakeBooks ==
  ASSUME TableTyped, BooksInv, NEW w \in Workers, NEW j \in Jobs, Dequeue(j),
         hand' = [hand EXCEPT ![w] = j]
  PROVE  TableTyped' /\ BooksInv' /\ (Balanced => Balanced') /\ Load' = Load
<1>1. /\ pending # <<>> /\ Len(pending) \in Nat \ {0}
      /\ pending' \in Seq(Jobs) /\ Len(pending') = Len(pending) - 1
      /\ j = pending[1]
  BY DEF TableTyped, Dequeue
<1>2. \A i \in DOMAIN pending' : i + 1 \in DOMAIN pending /\ pending'[i] = pending[i + 1]
  BY <1>1 DEF TableTyped, Dequeue
<1>3. \A i \in DOMAIN pending : i # 1 => i - 1 \in DOMAIN pending' /\ pending'[i - 1] = pending[i]
  BY <1>1 DEF TableTyped, Dequeue
<1>4. 1 \in DOMAIN pending /\ DOMAIN pending \subseteq Nat /\ DOMAIN pending' \subseteq Nat \ {0}
  BY <1>1 DEF TableTyped
<1>5. \A i, n \in DOMAIN pending : pending[i] = pending[n] => i = n
  BY DEF BooksInv, OnePlace
<1>6. Queued(j) /\ j \notin inFlight
  BY <1>1, <1>4 DEF Queued, BooksInv, OnePlace
<1>7. \A x : Queued(x)' <=> Queued(x) /\ x # j
  <2>1. ASSUME NEW x, Queued(x)' PROVE Queued(x) /\ x # j
    <3>1. PICK i \in DOMAIN pending' : pending'[i] = x
      BY <2>1 DEF Queued
    <3>2. i + 1 \in DOMAIN pending /\ pending[i + 1] = x
      BY <1>2, <3>1
    <3>3. i + 1 # 1
      BY <1>4, <3>1
    <3>4. pending[i + 1] # pending[1]
      BY <1>4, <1>5, <3>2, <3>3
    <3> QED
      BY <1>1, <3>2, <3>4 DEF Queued
  <2>2. ASSUME NEW x, Queued(x), x # j PROVE Queued(x)'
    <3>1. PICK i \in DOMAIN pending : pending[i] = x
      BY <2>2 DEF Queued
    <3>2. i # 1
      BY <1>1, <2>2, <3>1
    <3> QED
      BY <1>3, <3>1, <3>2 DEF Queued
  <2> QED
    BY <2>1, <2>2
<1>8. inFlight' = inFlight \union {j} /\ stale' = stale \ {j} /\ unfinished' = unfinished
  BY DEF Dequeue
<1>9. Load' = Load
  BY <1>6, <1>7, <1>8 DEF Load
<1>10. OnePlace'
  <2>1. \A i, n \in DOMAIN pending' : pending'[i] = pending'[n] => i = n
    BY <1>2, <1>4, <1>5
  <2>2. \A v \in Workers : hand[v] # j
    BY <1>6, ManagerAssumption DEF BooksInv, OnePlace, TableTyped
  <2>3. \A v, u \in Workers : hand'[v] = hand'[u] /\ hand'[v] # None => v = u
    BY <2>2 DEF BooksInv, OnePlace, TableTyped
  <2>4. \A v \in Workers : hand'[v] # None => hand'[v] \in inFlight'
    BY <1>8 DEF BooksInv, OnePlace, TableTyped
  <2>5. \A x \in inFlight' : ~Queued(x)'
    BY <1>7, <1>8 DEF BooksInv, OnePlace
  <2> QED
    BY <2>1, <2>3, <2>4, <2>5 DEF OnePlace
<1>11. IsFiniteSet(inFlight') /\ Cardinality(inFlight') = Cardinality(inFlight) + 1
  BY <1>6, <1>8, FS_AddElement DEF BooksInv
<1>12. Balanced => Balanced'
  BY <1>1, <1>8, <1>11, FS_CardinalityType DEF BooksInv, Balanced, TableTyped
<1>13. StaleIsOrphan'
  BY <1>8 DEF BooksInv, StaleIsOrphan, TableTyped
<1>14. TableTyped'
  BY <1>1, <1>8 DEF TableTyped
<1> QED
  BY <1>9, <1>10, <1>11, <1>12, <1>13, <1>14 DEF BooksInv

(* A worker lets its job go, and it is counted as done.                    *)
LEMMA DropBooks ==
  ASSUME TableTyped, BooksInv, NEW w \in Workers, NEW j \in Jobs, hand[w] = j,
         Land(j), unfinished' \in Nat, pending' = pending,
         hand' = [hand EXCEPT ![w] = None]
  PROVE  TableTyped' /\ BooksInv' /\ (Balanced /\ TaskDone => Balanced') /\ Load' = Load \ {j}
<1>1. /\ j \in inFlight /\ ~Queued(j)
      /\ inFlight' = inFlight \ {j} /\ stale' = stale \ {j}
  BY ManagerAssumption DEF BooksInv, OnePlace, Land
<1>2. \A x : Queued(x)' <=> Queued(x)
  BY DEF Queued
<1>3. Load' = Load \ {j}
  BY <1>1, <1>2 DEF Load
<1>4. TableTyped'
  BY <1>1 DEF TableTyped, TaskDone
<1>5. OnePlace'
  <2>1. \A v \in Workers : hand'[v] # None => v # w /\ hand'[v] = hand[v] /\ hand[v] # j
    BY DEF BooksInv, OnePlace, TableTyped
  <2> QED
    BY <1>1, <1>2, <2>1 DEF BooksInv, OnePlace
<1>6. IsFiniteSet(inFlight') /\ Cardinality(inFlight') = Cardinality(inFlight) - 1
  BY <1>1, FS_RemoveElement DEF BooksInv
<1>7. Balanced /\ TaskDone => Balanced'
  BY <1>6, FS_CardinalityType DEF BooksInv, Balanced, TableTyped, TaskDone
<1>8. StaleIsOrphan'
  BY <1>1, ManagerAssumption DEF BooksInv, StaleIsOrphan, TableTyped
<1> QED
  BY <1>3, <1>4, <1>5, <1>6, <1>7, <1>8 DEF BooksInv

(* A worker gives its job back to the queue.                               *)
LEMMA RequeueBooks ==
  ASSUME TableTyped, BooksInv, NEW w \in Workers, NEW j \in Jobs, hand[w] = j,
         Land(j), pending' = Append(pending, j), unfinished' = unfinished,
         hand' = [hand EXCEPT ![w] = None]
  PROVE  TableTyped' /\ BooksInv' /\ (Balanced => Balanced') /\ Load' = Load
<1>1. /\ j \in inFlight /\ ~Queued(j)
      /\ inFlight' = inFlight \ {j} /\ stale' = stale \ {j}
  BY ManagerAssumption DEF BooksInv, OnePlace, Land
<1>2. Len(pending') = Len(pending) + 1 /\ pending' \in Seq(Jobs) /\ Len(pending) \in Nat
  BY DEF TableTyped
<1>3. \A i \in DOMAIN pending' :
        \/ i \in DOMAIN pending /\ pending'[i] = pending[i]
        \/ i = Len(pending) + 1 /\ pending'[i] = j
  BY <1>2 DEF TableTyped
<1>4. \A i \in DOMAIN pending : i \in DOMAIN pending' /\ pending'[i] = pending[i]
  BY <1>2 DEF TableTyped
<1>5. Len(pending) + 1 \in DOMAIN pending' /\ pending'[Len(pending) + 1] = j
  BY <1>2 DEF TableTyped
<1>6. \A x : Queued(x)' <=> Queued(x) \/ x = j
  BY <1>3, <1>4, <1>5 DEF Queued
<1>7. Load' = Load
  BY <1>1, <1>6 DEF Load
<1>8. TableTyped'
  BY <1>1, <1>2 DEF TableTyped
<1>9. OnePlace'
  <2>1. \A i, n \in DOMAIN pending' : pending'[i] = pending'[n] => i = n
    BY <1>1, <1>3 DEF BooksInv, OnePlace, Queued
  <2>2. \A v \in Workers : hand'[v] # None => v # w /\ hand'[v] = hand[v] /\ hand[v] # j
    BY DEF BooksInv, OnePlace, TableTyped
  <2> QED
    BY <1>1, <1>6, <2>1, <2>2 DEF BooksInv, OnePlace
<1>10. IsFiniteSet(inFlight') /\ Cardinality(inFlight') = Cardinality(inFlight) - 1
  BY <1>1, FS_RemoveElement DEF BooksInv
<1>11. Balanced => Balanced'
  BY <1>2, <1>10, FS_CardinalityType DEF BooksInv, Balanced, TableTyped
<1>12. StaleIsOrphan'
  BY <1>1, ManagerAssumption DEF BooksInv, StaleIsOrphan, TableTyped
<1> QED
  BY <1>7, <1>8, <1>9, <1>10, <1>11, <1>12 DEF BooksInv

(* An order of a finite set names each of its members.                     *)
LEMMA OrderIsOnto ==
  ASSUME NEW S, IsFiniteSet(S), NEW order \in SetToSeqs(S)
  PROVE  /\ Cardinality(S) \in Nat
         /\ order \in [1 .. Cardinality(S) -> S]
         /\ \A i, n \in 1 .. Cardinality(S) : order[i] = order[n] => i = n
         /\ \A x \in S : \E i \in 1 .. Cardinality(S) : order[i] = x
<1> DEFINE D == 1 .. Cardinality(S)
           R == {order[i] : i \in D}
<1>1. Cardinality(S) \in Nat
  BY FS_CardinalityType
<1>2. order \in [D -> S] /\ \A i, n \in D : order[i] = order[n] => i = n
  BY DEF SetToSeqs
<1>3. IsFiniteSet(D) /\ Cardinality(D) = Cardinality(S)
  BY <1>1, FS_Interval
<1>4. order \in Bijection(D, R)
  BY <1>2 DEF Bijection, Injection, Surjection, IsInjective
<1>5. IsFiniteSet(R) /\ Cardinality(R) = Cardinality(S)
  BY <1>3, <1>4, FS_Bijection DEF ExistsBijection
<1>6. R \in SUBSET S
  BY <1>2
<1>7. R = S
  <2> HIDE DEF R
  <2> QED
    BY <1>5, <1>6, FS_Subset
<1> QED
  BY <1>1, <1>2, <1>7

(* Some of the stale jobs at the end of the queue.                         *)
LEMMA BackInQueue ==
  ASSUME TableTyped, BooksInv, NEW n \in Nat, NEW order \in [1 .. n -> stale],
         \A i, k \in 1 .. n : order[i] = order[k] => i = k,
         pending' = pending \o order
  PROVE  /\ pending' \in Seq(Jobs) /\ Len(pending') = Len(pending) + n
         /\ \A i, k \in DOMAIN pending' : pending'[i] = pending'[k] => i = k
         /\ \A x : Queued(x)' <=> Queued(x) \/ \E i \in 1 .. n : order[i] = x
<1>1. order \in Seq(Jobs) /\ Len(order) = n /\ pending \in Seq(Jobs) /\ Len(pending) \in Nat
  BY DEF TableTyped
<1>2. pending' \in Seq(Jobs) /\ Len(pending') = Len(pending) + n
  <2>1. pending \o order \in Seq(Jobs)
    BY <1>1
  <2>2. Len(pending \o order) = Len(pending) + Len(order)
    <3>1. \A s, t \in Seq(Jobs) : Len(s \o t) = Len(s) + Len(t)
      OBVIOUS
    <3> QED
      BY <1>1, <3>1, Zenon
  <2> QED
    BY <1>1, <2>1, <2>2
<1>3. \A i \in DOMAIN pending' :
        \/ i \in DOMAIN pending /\ pending'[i] = pending[i]
        \/ i - Len(pending) \in 1 .. n /\ pending'[i] = order[i - Len(pending)]
  <2> SUFFICES ASSUME NEW i \in DOMAIN pending', i \notin DOMAIN pending
               PROVE  i - Len(pending) \in 1 .. n /\ pending'[i] = order[i - Len(pending)]
    BY <1>1
  <2>1. i \in Nat /\ i - Len(pending) \in 1 .. n
    BY <1>1, <1>2
  <2> QED
    BY <1>1, <2>1
<1>4. \A i \in DOMAIN pending : i \in DOMAIN pending' /\ pending'[i] = pending[i]
  BY <1>1
<1>5. \A i \in 1 .. n :
        i + Len(pending) \in DOMAIN pending' /\ pending'[i + Len(pending)] = order[i]
  BY <1>1
<1>6. \A x : Queued(x)' <=> Queued(x) \/ \E i \in 1 .. n : order[i] = x
  <2>1. \A x : Queued(x)' => Queued(x) \/ \E i \in 1 .. n : order[i] = x
    BY <1>3 DEF Queued
  <2>2. \A x : Queued(x) => Queued(x)'
    BY <1>4 DEF Queued
  <2>3. \A i \in 1 .. n : Queued(order[i])'
    BY <1>5 DEF Queued
  <2> QED
    BY <2>1, <2>2, <2>3
<1>7. \A i, k \in DOMAIN pending' : pending'[i] = pending'[k] => i = k
  <2> SUFFICES ASSUME NEW i \in DOMAIN pending', NEW k \in DOMAIN pending',
                      pending'[i] = pending'[k]
               PROVE  i = k
    OBVIOUS
  <2>1. \A x \in stale : ~Queued(x)
    BY DEF TableTyped, BooksInv, OnePlace
  <2>2. CASE i \in DOMAIN pending /\ pending'[i] = pending[i]
    <3>1. Queued(pending'[i])
      BY <2>2 DEF Queued
    <3>2. pending'[k] \notin stale
      BY <2>1, <3>1
    <3>3. k \in DOMAIN pending /\ pending'[k] = pending[k]
      BY <1>3, <3>2
    <3> QED
      BY <2>2, <3>3 DEF BooksInv, OnePlace
  <2>3. CASE i - Len(pending) \in 1 .. n /\ pending'[i] = order[i - Len(pending)]
    <3>1. pending'[i] \in stale
      BY <2>3
    <3>2. k - Len(pending) \in 1 .. n /\ pending'[k] = order[k - Len(pending)]
      BY <1>3, <2>1, <3>1 DEF Queued
    <3>3. i - Len(pending) = k - Len(pending)
      BY <2>3, <3>2
    <3>4. i \in Nat /\ k \in Nat
      BY <1>2
    <3> QED
      BY <1>1, <3>3, <3>4
  <2> QED
    BY <1>3, <2>2, <2>3
<1> QED
  BY <1>2, <1>6, <1>7

(* The stale jobs are put back into the queue.                             *)
LEMMA RecoverBooks ==
  ASSUME TableTyped, BooksInv, Recover, hand' = hand
  PROVE  TableTyped' /\ BooksInv' /\ (Balanced => Balanced') /\ Load' = Load
<1>1. PICK order \in SetToSeqs(stale) : pending' = pending \o order
  BY DEF Recover
<1> DEFINE n == Cardinality(stale)
<1>2. IsFiniteSet(stale) /\ stale \in SUBSET inFlight
  BY FS_Subset DEF TableTyped, BooksInv
<1>3. /\ n \in Nat /\ order \in [1 .. n -> stale]
      /\ \A i, k \in 1 .. n : order[i] = order[k] => i = k
      /\ \A x \in stale : \E i \in 1 .. n : order[i] = x
  BY <1>2, OrderIsOnto
<1> HIDE DEF n
<1>4. /\ pending' \in Seq(Jobs) /\ Len(pending') = Len(pending) + n
      /\ \A i, k \in DOMAIN pending' : pending'[i] = pending'[k] => i = k
      /\ \A x : Queued(x)' <=> Queued(x) \/ \E i \in 1 .. n : order[i] = x
  BY <1>1, <1>3, BackInQueue
<1>5. \A x : Queued(x)' <=> Queued(x) \/ x \in stale
  BY <1>3, <1>4
<1>6. inFlight' = inFlight \ stale /\ stale' = {} /\ unfinished' = unfinished
  BY DEF Recover
<1>7. Load' = Load
  BY <1>2, <1>5, <1>6 DEF Load, TableTyped
<1>8. TableTyped'
  BY <1>4, <1>6 DEF TableTyped
<1>9. OnePlace'
  <2>1. \A v \in Workers : hand[v] # None => hand[v] \in inFlight \ stale
    BY DEF BooksInv, OnePlace, StaleIsOrphan
  <2> QED
    BY <1>4, <1>5, <1>6, <2>1 DEF BooksInv, OnePlace
<1>10. IsFiniteSet(inFlight') /\ Cardinality(inFlight') = Cardinality(inFlight) - n
  <2>1. inFlight \intersect stale = stale
    BY <1>2
  <2>2. /\ IsFiniteSet(inFlight \ stale)
        /\ Cardinality(inFlight \ stale)
             = Cardinality(inFlight) - Cardinality(inFlight \intersect stale)
    BY FS_Difference DEF BooksInv
  <2> QED
    BY <1>6, <2>1, <2>2 DEF n
<1>11. Balanced => Balanced'
  <2>1. Len(pending) \in Nat /\ Cardinality(inFlight) \in Nat
    BY FS_CardinalityType DEF BooksInv, TableTyped
  <2> QED
    BY <1>3, <1>4, <1>6, <1>10, <2>1 DEF Balanced
<1>12. StaleIsOrphan'
  BY <1>6 DEF StaleIsOrphan
<1> QED
  BY <1>7, <1>8, <1>9, <1>10, <1>11, <1>12 DEF BooksInv

(* As many of them as there is room for are; one of the others goes back   *)
(* into the table, the rest are gone.                                      *)
LEMMA RecoverOverflowBooks ==
  ASSUME TableTyped, BooksInv, QueueStands, RecoverOverflow, hand' = hand
  PROVE  TableTyped' /\ BooksInv' /\ Load' \subseteq Load
<1> DEFINE n == Cardinality(stale)
<1>1. IsFiniteSet(stale) /\ stale \in SUBSET inFlight
  BY FS_Subset DEF TableTyped, BooksInv
<1>2. PICK order \in SetToSeqs(stale) :
        /\ pending' = pending \o SubSeq(order, 1, Room)
        /\ inFlight' = (inFlight \ stale) \union {order[Room + 1]}
  BY DEF RecoverOverflow
<1>3. /\ n \in Nat /\ order \in [1 .. n -> stale]
      /\ \A i, k \in 1 .. n : order[i] = order[k] => i = k
  BY <1>1, OrderIsOnto
<1>4. n > Room /\ stale' = {} /\ unfinished' = unfinished - 1 /\ unfinished > 0
  BY DEF RecoverOverflow
<1> HIDE DEF n
<1>5. Room \in Nat /\ Len(pending) \in Nat
  BY ManagerAssumption DEF Room, QueueStands, TableTyped
<1> DEFINE part == SubSeq(order, 1, Room)
<1>6. /\ part \in [1 .. Room -> stale]
      /\ \A i \in 1 .. Room : i \in 1 .. n /\ part[i] = order[i]
  <2>1. order \in Seq(stale) /\ Len(order) = n
    BY <1>3
  <2>2. \A i \in 1 .. Room : i \in 1 .. n
    BY <1>3, <1>4, <1>5
  <2>3. part = [i \in 1 .. Room |-> order[i]]
    BY <1>3, <1>4, <1>5, <2>1
  <2> QED
    BY <1>3, <2>2, <2>3
<1>7. Room + 1 \in 1 .. n /\ order[Room + 1] \in stale
  BY <1>3, <1>4, <1>5
<1>8. \A i \in 1 .. Room : part[i] # order[Room + 1]
  <2>1. \A i \in 1 .. Room : i # Room + 1
    BY <1>5
  <2> QED
    BY <1>3, <1>6, <1>7, <2>1
<1>9. \A i, k \in 1 .. Room : part[i] = part[k] => i = k
  BY <1>3, <1>6
<1> HIDE DEF part
<1>10. /\ pending' \in Seq(Jobs)
       /\ \A i, k \in DOMAIN pending' : pending'[i] = pending'[k] => i = k
       /\ \A x : Queued(x)' <=> Queued(x) \/ \E i \in 1 .. Room : part[i] = x
  BY <1>2, <1>5, <1>6, <1>9, BackInQueue DEF part
<1>11. TableTyped'
  BY <1>1, <1>2, <1>4, <1>7, <1>10 DEF TableTyped
<1>12. Load' \subseteq Load
  <2>1. \A x : Queued(x)' => Queued(x) \/ x \in stale
    BY <1>6, <1>10
  <2>2. inFlight' \subseteq inFlight
    BY <1>1, <1>2, <1>7
  <2> QED
    BY <1>1, <2>1, <2>2 DEF Load
<1>13. OnePlace'
  <2>1. \A v \in Workers : hand[v] # None => hand[v] \in inFlight \ stale
    BY DEF BooksInv, OnePlace, StaleIsOrphan
  <2>2. ASSUME NEW x \in inFlight' PROVE ~Queued(x)'
    <3>1. ~Queued(x)
      BY <1>1, <1>2, <1>7 DEF BooksInv, OnePlace
    <3>2. x \notin stale \/ x = order[Room + 1]
      BY <1>2
    <3>3. \A i \in 1 .. Room : part[i] # x
      BY <1>6, <1>8, <3>2
    <3> QED
      BY <1>10, <3>1, <3>3
  <2>3. \A v \in Workers : hand'[v] # None => hand'[v] \in inFlight'
    BY <1>2, <2>1
  <2>4. \A u, v \in Workers : hand'[u] = hand'[v] /\ hand'[u] # None => u = v
    BY DEF BooksInv, OnePlace
  <2> QED
    BY <1>10, <2>2, <2>3, <2>4 DEF OnePlace
<1>14. IsFiniteSet(inFlight')
  <2>1. inFlight' \in SUBSET inFlight
    BY <1>1, <1>2, <1>7
  <2>2. IsFiniteSet(inFlight)
    BY DEF BooksInv
  <2> QED
    BY <2>1, <2>2, FS_Subset
<1>15. StaleIsOrphan'
  BY <1>4 DEF StaleIsOrphan
<1> QED
  BY <1>11, <1>12, <1>13, <1>14, <1>15 DEF BooksInv

(* The first task_done raises: the stale jobs have left the table.         *)
LEMMA UncountedBooks ==
  ASSUME TableTyped, BooksInv, RecoverUncounted, hand' = hand
  PROVE  TableTyped' /\ BooksInv' /\ Load' \subseteq Load
<1>1. /\ inFlight' = inFlight \ stale /\ stale' = {}
      /\ UNCHANGED <<pending, unfinished>>
  BY DEF RecoverUncounted, TaskDoneRaises
<1>2. \A x : Queued(x)' <=> Queued(x)
  BY <1>1 DEF Queued
<1>3. IsFiniteSet(inFlight')
  <2>1. inFlight' \in SUBSET inFlight /\ IsFiniteSet(inFlight)
    BY <1>1 DEF BooksInv
  <2> QED
    BY <2>1, FS_Subset
<1>4. OnePlace'
  BY <1>1, <1>2 DEF BooksInv, OnePlace, StaleIsOrphan
<1> QED
  BY <1>1, <1>2, <1>3, <1>4 DEF BooksInv, TableTyped, StaleIsOrphan, Load

(* Workers leave their jobs where they are, and orphans become stale.      *)
LEMMA LeaveBooks ==
  ASSUME TableTyped, BooksInv, UNCHANGED <<pending, unfinished, inFlight>>,
         stale' \subseteq inFlight, hand' \in [Workers -> Jobs \union {None}],
         \A w \in Workers : hand'[w] \in {hand[w], None} /\ hand'[w] \notin stale'
  PROVE  TableTyped' /\ BooksInv' /\ (Balanced => Balanced') /\ Load' = Load
<1>1. \A x : Queued(x)' <=> Queued(x)
  BY DEF Queued
<1>2. Load' = Load
  BY <1>1 DEF Load
<1>3. OnePlace'
  BY <1>1 DEF BooksInv, OnePlace
<1> QED
  BY <1>2, <1>3 DEF BooksInv, Balanced, StaleIsOrphan, TableTyped
=============================================================================
