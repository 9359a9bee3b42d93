-------------------------- MODULE DropRandomProofs --------------------------
(***************************************************************************)
(* Proof about drop_random: for a ring of any size, anywhere in the array, *)
(* and for every sequence of random numbers the two loops keep half of the *)
(* requests in their old order and close the others, which is what module  *)
(* Server takes them to do in one step.                                    *)
(*                                                                         *)
(* The first loop picks no offset twice because the picked ones are the    *)
(* last i of indexes; the second never overwrites a request that it has    *)
(* still to look at because it has kept no more than it has looked at.     *)
(***************************************************************************)
EXTENDS DropRandom, FiniteSetTheorems, SequenceTheorems, TLAPS

Ring == capacity \in Nat \ {0} /\ head \in 0..(capacity - 1) /\ n \in 1..capacity

TypeOK ==
  /\ before \in [0..(capacity - 1) -> Nat]
  /\ items \in [0..(capacity - 1) -> Nat]
  /\ indexes \in [0..(n - 1) -> 0..(n - 1)]
  /\ rand_indexes \in [0..(n - 1) -> BOOLEAN]
  /\ i \in 0..n
  /\ pc \in {"pick", "compact", "done"}
  /\ closed \in Seq(Nat)

(* The offsets at the end of indexes are the picked ones. *)
Picking ==
  /\ items = before /\ closed = <<>>
  /\ i <= limit /\ Cardinality(Picked) = i
  /\ \A j, k \in 0..(n - 1) : indexes[j] = indexes[k] => j = k
  /\ \A k \in 0..(n - 1) : rand_indexes[indexes[k]] <=> k >= n - i

(* The picked offsets among the first j *)
PickedBelow(j) == {k \in 0..(n - 1) : rand_indexes[k] /\ k < j}

DroppedBelow(j) == {k \in 0..(n - 1) : ~rand_indexes[k] /\ k < j}

(* Of the first i requests the m picked ones, at the offsets that pick     *)
(* lists, are kept from the head of the ring on, and the others closed;    *)
(* the rest of the ring is as it was.                                      *)
Compacted(m, pick) ==
  /\ \A j, k \in 0..(m - 1) : j < k => pick[j] < pick[k]
  /\ \A k \in 0..(n - 1) : k \in PickedBelow(i) <=> \E j \in 0..(m - 1) : pick[j] = k
  /\ Cardinality(PickedBelow(i)) = m
  /\ tail = Slot(m)
  /\ \A j \in 0..(m - 1) : items[Slot(j)] = before[Slot(pick[j])]
  /\ \A k \in 0..(n - 1) : k >= i => items[Slot(k)] = before[Slot(k)]
  /\ Len(closed) = i - m
  /\ \A x : (\E j \in DOMAIN closed : closed[j] = x) <=>
             \E k \in DroppedBelow(i) : before[Slot(k)] = x

(* m and pick grow with the second loop, and are n/2 offsets at its end.   *)
Inv ==
  /\ Ring /\ TypeOK
  /\ pc = "pick" => Picking
  /\ pc \in {"compact", "done"} =>
       /\ Cardinality(Picked) = limit
       /\ \E m \in 0..i : \E pick \in [0..(m - 1) -> 0..(n - 1)] : Compacted(m, pick)
  /\ pc = "done" => i = n /\ size = limit

-----------------------------------------------------------------------------
(* The ring                                                                *)

(* limit = size / 2 is less than size.                                     *)
LEMMA Halves ==
  ASSUME Ring
  PROVE  limit \in Nat /\ limit < n /\ limit <= n /\ n \in Nat /\ n > 0
<1>1. n \in Nat /\ n > 0
  BY DEF Ring
<1>2. \A k \in Nat : k \div 2 \in Nat /\ k \div 2 <= k /\ (k > 0 => k \div 2 < k)
  OBVIOUS
<1> QED BY <1>1, <1>2 DEF limit

(* One turn around an array                                                *)
LEMMA Wraps ==
  ASSUME NEW m \in Nat \ {0}, NEW a \in 0..(2 * m - 1)
  PROVE  a % m = IF a < m THEN a ELSE a - m
  OBVIOUS

(* The slot k after h in an array of m *)
At(m, h, k) == (h + k) % m

(* Positions of an array, their successors, and how far they are from h    *)
LEMMA Positions ==
  ASSUME NEW m \in Nat \ {0}, NEW h \in 0..(m - 1), NEW k \in 0..(m - 1)
  PROVE  /\ At(m, h, k) = IF h + k < m THEN h + k ELSE h + k - m
         /\ At(m, h, k) \in 0..(m - 1)
         /\ At(m, At(m, h, k), 1) = At(m, h, k + 1)
         /\ At(m, At(m, h, k), m - h) = k
         /\ k = 0 => At(m, h, k) = h
<1>a. PICK a, b : a = h + k /\ b = h + (k + 1)
  OBVIOUS
<1>1. a \in 0..(2 * m - 1) /\ b \in 0..(2 * m - 1)
  BY <1>a
<1>2. a % m = IF a < m THEN a ELSE a - m
  BY <1>1, Wraps
<1>3. b % m = IF b < m THEN b ELSE b - m
  BY <1>1, Wraps
<1>b. PICK c, d, p : p = a % m /\ c = p + 1 /\ d = p + (m - h)
  OBVIOUS
<1>4. p \in 0..(m - 1) /\ c \in 0..(2 * m - 1) /\ d \in 0..(2 * m - 1)
  BY <1>a, <1>b, <1>1, <1>2
<1>5. c % m = IF c < m THEN c ELSE c - m
  BY <1>4, Wraps
<1>6. d % m = IF d < m THEN d ELSE d - m
  BY <1>4, Wraps
<1>7. c % m = b % m /\ d % m = k /\ (k = 0 => p = h)
  BY <1>a, <1>b, <1>1, <1>2, <1>3, <1>5, <1>6
<1>8. /\ At(m, h, k) = p /\ At(m, h, k + 1) = b % m
      /\ At(m, p, 1) = c % m /\ At(m, p, m - h) = d % m
  BY <1>a, <1>b DEF At
<1> QED BY <1>a, <1>b, <1>2, <1>4, <1>7, <1>8

(* Different offsets of the ring are different slots, and the slot after   *)
(* one is the slot of the next offset.                                     *)
LEMMA Slots ==
  ASSUME Ring, NEW k \in 0..(n - 1)
  PROVE  /\ Slot(k) \in 0..(capacity - 1)
         /\ \A j \in 0..(n - 1) : Slot(j) = Slot(k) => j = k
         /\ (Slot(k) + 1) % capacity = Slot(k + 1)
         /\ (Slot(k) + capacity - head) % capacity = k
         /\ k = 0 => Slot(k) = head
<1>a. PICK m, h : m = capacity /\ h = head
  OBVIOUS
<1>1. m \in Nat \ {0} /\ h \in 0..(m - 1) /\ n \in 1..m /\ k \in 0..(m - 1)
      /\ \A j \in 0..(n - 1) : j \in 0..(m - 1)
  BY <1>a DEF Ring
<1>2. \A j : Slot(j) = At(m, h, j)
  BY <1>a DEF Slot, At
<1>3. \A j \in 0..(m - 1) : At(m, h, j) = IF h + j < m THEN h + j ELSE h + j - m
  BY <1>1, Positions
<1>4. /\ At(m, h, k) \in 0..(m - 1)
      /\ At(m, At(m, h, k), 1) = At(m, h, k + 1)
      /\ At(m, At(m, h, k), m - h) = k
      /\ k = 0 => At(m, h, k) = h
  <2>1. m \in Nat \ {0} /\ h \in 0..(m - 1) /\ k \in 0..(m - 1)
    BY <1>1
  <2>2. At(m, h, k) \in 0..(m - 1) /\ (k = 0 => At(m, h, k) = h)
    BY <2>1, Positions
  <2>3. At(m, At(m, h, k), 1) = At(m, h, k + 1)
    BY <2>1, Positions
  <2>4. At(m, At(m, h, k), m - h) = k
    BY <2>1, Positions
  <2> QED BY <2>2, <2>3, <2>4
<1>5. \A j \in 0..(m - 1) : At(m, h, j) = At(m, h, k) => j = k
  BY <1>1, <1>3
<1>6. \A j \in 0..(n - 1) : Slot(j) = Slot(k) => j = k
  BY <1>1, <1>2, <1>5
<1>b. PICK p : p = At(m, h, k)
  OBVIOUS
<1>7. (p + 1) % m = At(m, h, k + 1) /\ (p + (m - h)) % m = k
  BY <1>4, <1>b DEF At
<1>8. p + (m - h) = p + m - h
  BY <1>1, <1>4, <1>b
<1>9. /\ Slot(k) = p /\ Slot(k + 1) = At(m, h, k + 1)
      /\ (p + 1) % m = At(m, h, k + 1) /\ (p + m - h) % m = k
  BY <1>2, <1>b, <1>7, <1>8
<1> QED BY <1>a, <1>2, <1>4, <1>6, <1>9

(* Sets of offsets are finite.                                             *)
LEMMA Offsets ==
  ASSUME Ring
  PROVE  /\ IsFiniteSet(Picked)
         /\ \A j : IsFiniteSet(PickedBelow(j))
<1>1. IsFiniteSet(0..(n - 1))
  BY FS_Interval DEF Ring
<1>2. Picked \subseteq 0..(n - 1) /\ \A j : PickedBelow(j) \subseteq 0..(n - 1)
  BY DEF Picked, PickedBelow
<1> QED BY <1>1, <1>2, FS_Subset

-----------------------------------------------------------------------------
(* The first loop                                                          *)

(* The ring on entry, with nothing picked                                  *)
LEMMA InvInit ==
  ASSUME Init
  PROVE  Inv
<1>1. /\ capacity \in 1..MaxCapacity /\ head \in 0..(capacity - 1) /\ n \in 1..capacity
      /\ before = [s \in 0..(capacity - 1) |-> IF Offset(s) < n THEN Offset(s) + 1 ELSE 0]
      /\ items = before /\ indexes = [k \in 0..(n - 1) |-> k]
      /\ rand_indexes = [k \in 0..(n - 1) |-> FALSE]
      /\ i = 0 /\ pc = "pick" /\ closed = <<>>
  BY DEF Init
<1>2. Ring
  BY <1>1, MaxCapacityAssumption DEF Ring
<1>3. before \in [0..(capacity - 1) -> Nat]
  <2> SUFFICES ASSUME NEW s \in 0..(capacity - 1) PROVE Offset(s) \in Nat
    BY <1>1
  <2>1. PICK m, a : m = capacity /\ a = s + capacity - head
    OBVIOUS
  <2>2. m \in Nat \ {0} /\ a \in 0..(2 * m - 1)
    BY <1>2, <2>1 DEF Ring
  <2>3. a % m = IF a < m THEN a ELSE a - m
    BY <2>2, Wraps
  <2> QED BY <2>1, <2>2, <2>3 DEF Offset
<1>4. TypeOK
  BY <1>1, <1>2, <1>3 DEF TypeOK, Ring
<1>5. Picking
  <2>1. Picked = {}
    BY <1>1 DEF Picked
  <2>2. Cardinality(Picked) = 0
    BY <2>1, FS_EmptySet
  <2>3. 0 <= limit /\ n \in Nat
    BY <1>2, Halves
  <2> QED BY <1>1, <2>2, <2>3 DEF Picking
<1> QED BY <1>1, <1>2, <1>4, <1>5 DEF Inv

(* No offset is picked twice.                                              *)
LEMMA PickNext ==
  ASSUME Inv, Pick
  PROVE  Inv'
<1>1. /\ pc = "pick" /\ i < limit /\ i' = i + 1
      /\ UNCHANGED <<capacity, head, n, before, items, tail, size, pc, closed>>
  BY DEF Pick
<1>2. PICK index \in 0..(n - i - 1) :
        /\ rand_indexes' = [rand_indexes EXCEPT ![indexes[index]] = TRUE]
        /\ indexes' = [indexes EXCEPT ![index] = indexes[n - i - 1],
                                      ![n - i - 1] = indexes[index]]
  BY DEF Pick
<1>3. Ring /\ TypeOK /\ Picking
  BY <1>1 DEF Inv
<1>4. i \in Nat /\ n \in Nat /\ limit \in Nat /\ limit < n
  BY <1>3, Halves DEF TypeOK
<1>5. PICK end : end = n - i - 1
  OBVIOUS
<1>6. end \in 0..(n - 1) /\ index \in 0..end /\ index \in 0..(n - 1)
  BY <1>1, <1>4, <1>5
<1>7. PICK x : x = indexes[index]
  OBVIOUS
<1>8. /\ indexes \in [0..(n - 1) -> 0..(n - 1)] /\ rand_indexes \in [0..(n - 1) -> BOOLEAN]
      /\ \A j, k \in 0..(n - 1) : indexes[j] = indexes[k] => j = k
      /\ \A k \in 0..(n - 1) : rand_indexes[indexes[k]] <=> k >= n - i
  BY <1>3 DEF TypeOK, Picking
<1>9. x \in 0..(n - 1) /\ ~rand_indexes[x]
  <2>1. ~(index >= n - i)
    BY <1>4, <1>5, <1>6
  <2> QED BY <1>6, <1>7, <1>8, <2>1
<1>10. \A k \in 0..(n - 1) : rand_indexes'[k] = IF k = x THEN TRUE ELSE rand_indexes[k]
  BY <1>2, <1>7, <1>8
<1>11. \A k \in 0..(n - 1) : indexes'[k] = IF k = end THEN x
                                           ELSE IF k = index THEN indexes[end] ELSE indexes[k]
  BY <1>2, <1>5, <1>6, <1>7, <1>8
<1>12. /\ rand_indexes' \in [0..(n - 1) -> BOOLEAN]
       /\ indexes' \in [0..(n - 1) -> 0..(n - 1)]
  <2>1. indexes[index] \in 0..(n - 1) /\ indexes[end] \in 0..(n - 1)
    BY <1>6, <1>8
  <2> QED BY <1>2, <1>5, <1>8, <2>1
<1>13. TypeOK'
  <2>1. i' \in 0..n
    BY <1>1, <1>4
  <2> QED BY <1>1, <1>3, <1>12, <2>1 DEF TypeOK
<1>14. \A j, k \in 0..(n - 1) : indexes'[j] = indexes'[k] => j = k
  <2>1. \A k \in 0..(n - 1) : indexes[k] = x => k = index
    BY <1>6, <1>7, <1>8
  <2> QED BY <1>6, <1>8, <1>11, <2>1
<1>15. \A k \in 0..(n - 1) : rand_indexes'[indexes'[k]] <=> k >= n - i'
  <2> SUFFICES ASSUME NEW k \in 0..(n - 1)
               PROVE  rand_indexes'[indexes'[k]] <=> k >= n - i'
    OBVIOUS
  <2>1. k >= n - i' <=> k >= n - i \/ k = end
    BY <1>1, <1>4, <1>5
  <2>2. end >= n - i <=> FALSE
    BY <1>4, <1>5
  <2>3. CASE k = end
    <3>1. indexes'[k] = x
      BY <1>11, <2>3
    <3> QED BY <1>9, <1>10, <2>1, <2>3, <3>1
  <2>4. CASE k # end /\ k = index
    <3>1. indexes'[k] = indexes[end] /\ indexes[end] \in 0..(n - 1) /\ indexes[end] # x
      BY <1>6, <1>7, <1>8, <1>11, <2>4
    <3>2. ~rand_indexes[indexes[end]]
      BY <1>6, <1>8, <2>2
    <3>3. ~(k >= n - i)
      BY <1>4, <1>5, <1>6, <2>4
    <3> QED BY <1>10, <2>1, <2>4, <3>1, <3>2, <3>3
  <2>5. CASE k # end /\ k # index
    <3>1. indexes'[k] = indexes[k] /\ indexes[k] \in 0..(n - 1) /\ indexes[k] # x
      BY <1>6, <1>7, <1>8, <1>11, <2>5
    <3> QED BY <1>8, <1>10, <2>1, <2>5, <3>1
  <2> QED BY <2>3, <2>4, <2>5
<1>16. Cardinality(Picked') = i'
  <2>1. Picked' = Picked \cup {x} /\ x \notin Picked
    BY <1>1, <1>9, <1>10 DEF Picked
  <2>2. IsFiniteSet(Picked) /\ Cardinality(Picked) = i
    BY <1>3, Offsets DEF Picking
  <2>3. Cardinality(Picked \cup {x}) = Cardinality(Picked) + 1
    BY <2>1, <2>2, FS_AddElement
  <2> QED BY <1>1, <2>1, <2>2, <2>3
<1>17. Picking'
  <2>1. limit' = limit /\ i' <= limit
    BY <1>1, <1>4 DEF limit
  <2> QED BY <1>1, <1>3, <1>14, <1>15, <1>16, <2>1 DEF Picking
<1>18. Ring'
  BY <1>1, <1>3 DEF Ring
<1> QED BY <1>1, <1>13, <1>17, <1>18 DEF Inv

(* The second loop starts from a ring that no request has moved in.        *)
LEMMA PickDoneNext ==
  ASSUME Inv, PickDone
  PROVE  Inv'
<1>1. /\ pc = "pick" /\ i = limit /\ pc' = "compact" /\ i' = 0 /\ tail' = head
      /\ UNCHANGED <<capacity, head, n, before, items, size, indexes, rand_indexes, closed>>
  BY DEF PickDone
<1>2. Ring /\ TypeOK /\ Picking
  BY <1>1 DEF Inv
<1>3. n \in Nat /\ n > 0 /\ 0 \in 0..(n - 1) /\ 0 \in 0..i'
  BY <1>1, <1>2, Halves
<1>4. Ring' /\ TypeOK'
  <2>1. i' \in 0..n
    BY <1>1, <1>3
  <2> QED BY <1>1, <1>2, <2>1 DEF Ring, TypeOK
<1>5. Cardinality(Picked') = limit'
  BY <1>1, <1>2 DEF Picking, Picked, limit
<1>6. 0..(0 - 1) = {}
  OBVIOUS
<1>7. PICK pick : pick = [j \in 0..(0 - 1) |-> 0]
  OBVIOUS
<1>8. pick \in [0..(0 - 1) -> 0..(n - 1)]
  BY <1>6, <1>7
<1>9. PickedBelow(i)' = {} /\ DroppedBelow(i)' = {}
  BY <1>1, <1>3 DEF PickedBelow, DroppedBelow
<1>10. Compacted(0, pick)'
  <2>1. Cardinality({}) = 0
    BY FS_EmptySet
  <2>2. tail' = Slot(0)'
    BY <1>1, <1>2, <1>3, Slots DEF Slot
  <2>3. Len(closed') = i' - 0 /\ DOMAIN closed' = {}
    BY <1>1, <1>2 DEF Picking
  <2>5. items' = before'
    BY <1>1, <1>2 DEF Picking
  <2> QED BY <1>6, <1>9, <2>1, <2>2, <2>3, <2>5 DEF Compacted
<1> QED BY <1>1, <1>3, <1>4, <1>5, <1>8, <1>10 DEF Inv

-----------------------------------------------------------------------------
(* The second loop                                                         *)

(* What the two kinds of turn have in common                               *)
LEMMA CompactTurn ==
  ASSUME Inv, pc = "compact", i < n, i' = i + 1,
         UNCHANGED <<capacity, head, n, before, size, indexes, rand_indexes, pc>>
  PROVE  /\ Ring /\ Ring' /\ i \in 0..(n - 1) /\ i' \in 0..n
         /\ n \in Nat /\ n <= capacity
         /\ Slot(i) \in 0..(capacity - 1)
         /\ \A k : Slot(k)' = Slot(k)
         /\ Cardinality(Picked') = limit'
<1>1. Ring /\ TypeOK /\ Cardinality(Picked) = limit
  BY DEF Inv
<1>2. i \in 0..(n - 1) /\ i' \in 0..n /\ n \in Nat /\ n <= capacity
  BY <1>1 DEF Ring, TypeOK
<1>3. Slot(i) \in 0..(capacity - 1)
  BY <1>1, <1>2, Slots
<1> QED BY <1>1, <1>2, <1>3 DEF Ring, Slot, Picked, limit

(* A picked request moves to slot m, which is at or behind the one it      *)
(* leaves: nothing that is still to be looked at is overwritten.           *)
LEMMA KeepNext ==
  ASSUME Inv, Keep
  PROVE  Inv'
<1>1. /\ pc = "compact" /\ i < n /\ rand_indexes[i] /\ i' = i + 1
      /\ items' = [items EXCEPT ![tail] = items[Slot(i)]]
      /\ tail' = (tail + 1) % capacity
      /\ UNCHANGED <<capacity, head, n, before, size, indexes, rand_indexes, pc, closed>>
  BY DEF Keep
<1>2. /\ Ring /\ Ring' /\ i \in 0..(n - 1) /\ i' \in 0..n
      /\ n \in Nat /\ n <= capacity
      /\ Slot(i) \in 0..(capacity - 1)
      /\ \A k : Slot(k)' = Slot(k)
      /\ Cardinality(Picked') = limit'
  BY <1>1, CompactTurn
<1>3. PICK m \in 0..i : \E pick \in [0..(m - 1) -> 0..(n - 1)] : Compacted(m, pick)
  BY <1>1 DEF Inv
<1>4. PICK pick \in [0..(m - 1) -> 0..(n - 1)] : Compacted(m, pick)
  BY <1>3
<1>5. /\ m \in 0..(n - 1) /\ m \in Nat /\ m <= i /\ m + 1 \in 0..i'
      /\ \A j \in 0..(m - 1) : j \in 0..(n - 1) /\ j # m
      /\ \A j : j \in 0..m <=> j \in 0..(m - 1) \/ j = m
      /\ (m + 1) - 1 = m
  BY <1>1, <1>2
<1>6. /\ \A j \in 0..(m - 1), k \in 0..(m - 1) : j < k => pick[j] < pick[k]
      /\ \A k \in 0..(n - 1) : k \in PickedBelow(i) <=> \E j \in 0..(m - 1) : pick[j] = k
      /\ Cardinality(PickedBelow(i)) = m
      /\ tail = Slot(m)
      /\ \A j \in 0..(m - 1) : items[Slot(j)] = before[Slot(pick[j])]
      /\ \A k \in 0..(n - 1) : k >= i => items[Slot(k)] = before[Slot(k)]
      /\ Len(closed) = i - m
      /\ \A x : (\E j \in DOMAIN closed : closed[j] = x) <=>
                 \E k \in DroppedBelow(i) : before[Slot(k)] = x
  BY <1>4 DEF Compacted
<1>7. PICK grown : grown = [j \in 0..m |-> IF j = m THEN i ELSE pick[j]]
  OBVIOUS
<1>8. /\ grown \in [0..m -> 0..(n - 1)] /\ grown[m] = i
      /\ \A j \in 0..(m - 1) : grown[j] = pick[j] /\ pick[j] \in 0..(n - 1)
  BY <1>2, <1>4, <1>5, <1>7
<1>9. \A j \in 0..(m - 1) : pick[j] < i
  <2> SUFFICES ASSUME NEW j \in 0..(m - 1) PROVE pick[j] < i
    OBVIOUS
  <2>1. pick[j] \in PickedBelow(i)
    BY <1>6, <1>8
  <2> QED BY <2>1 DEF PickedBelow
<1>10. TypeOK /\ items \in [0..(capacity - 1) -> Nat] /\ tail \in 0..(capacity - 1)
  BY <1>2, <1>5, <1>6, Slots DEF Inv, TypeOK
<1>11. TypeOK'
  <2>1. items' \in [0..(capacity - 1) -> Nat]
    BY <1>1, <1>2, <1>10
  <2> QED BY <1>1, <1>2, <1>10, <2>1 DEF TypeOK
<1>12. \A k \in 0..(n - 1) : items'[Slot(k)] = IF k = m THEN before[Slot(i)] ELSE items[Slot(k)]
  <2> SUFFICES ASSUME NEW k \in 0..(n - 1)
               PROVE  items'[Slot(k)] = IF k = m THEN before[Slot(i)] ELSE items[Slot(k)]
    OBVIOUS
  <2>1. Slot(k) \in 0..(capacity - 1) /\ (Slot(m) = Slot(k) <=> k = m)
    BY <1>2, <1>5, Slots
  <2>2. items[Slot(i)] = before[Slot(i)]
    BY <1>2, <1>6
  <2> QED BY <1>1, <1>6, <1>10, <2>1, <2>2
<1>13. /\ \A k : k \in PickedBelow(i)' <=> k \in PickedBelow(i) \/ k = i
       /\ i \notin PickedBelow(i)
       /\ DroppedBelow(i)' = DroppedBelow(i)
  <2>1. \A k \in 0..(n - 1) : k < i' <=> k < i \/ k = i
    BY <1>1, <1>2
  <2> QED BY <1>1, <1>2, <2>1 DEF PickedBelow, DroppedBelow
<1>14. Compacted(m + 1, grown)'
  <2>1. \A j, k \in 0..m : j < k => grown[j] < grown[k]
    <3> SUFFICES ASSUME NEW j \in 0..m, NEW k \in 0..m, j < k PROVE grown[j] < grown[k]
      OBVIOUS
    <3>1. j \in 0..(m - 1)
      BY <1>5
    <3>2. CASE k = m
      BY <1>8, <1>9, <3>1, <3>2
    <3>3. CASE k # m
      BY <1>5, <1>6, <1>8, <3>1, <3>3
    <3> QED BY <3>2, <3>3
  <2>2. \A k \in 0..(n - 1) : k \in PickedBelow(i)' <=> \E j \in 0..m : grown[j] = k
    BY <1>5, <1>6, <1>8, <1>13
  <2>3. Cardinality(PickedBelow(i)') = m + 1
    <3>1. PickedBelow(i)' = PickedBelow(i) \cup {i}
      BY <1>13
    <3>2. IsFiniteSet(PickedBelow(i))
      BY <1>2, Offsets
    <3>3. Cardinality(PickedBelow(i) \cup {i}) = Cardinality(PickedBelow(i)) + 1
      BY <1>13, <3>2, FS_AddElement
    <3> QED BY <1>6, <3>1, <3>3
  <2>4. tail' = Slot(m + 1)
    BY <1>1, <1>2, <1>5, <1>6, Slots
  <2>5. \A j \in 0..m : items'[Slot(j)] = before[Slot(grown[j])]
    <3> SUFFICES ASSUME NEW j \in 0..m PROVE items'[Slot(j)] = before[Slot(grown[j])]
      OBVIOUS
    <3>1. CASE j = m
      BY <1>5, <1>8, <1>12, <3>1
    <3>2. CASE j \in 0..(m - 1)
      BY <1>5, <1>6, <1>8, <1>12, <3>2
    <3> QED BY <1>5, <3>1, <3>2
  <2>6. \A k \in 0..(n - 1) : k >= i' => items'[Slot(k)] = before[Slot(k)]
    <3> SUFFICES ASSUME NEW k \in 0..(n - 1), k >= i' PROVE items'[Slot(k)] = before[Slot(k)]
      OBVIOUS
    <3>1. k >= i /\ k # m
      BY <1>1, <1>2, <1>5
    <3> QED BY <1>6, <1>12, <3>1
  <2>7. Len(closed') = i' - (m + 1)
    BY <1>1, <1>2, <1>5, <1>6
  <2>8. /\ n' = n /\ before' = before /\ (m + 1) - 1 = m
        /\ \A k : Slot(k)' = Slot(k)
    BY <1>1, <1>2, <1>5
  <2>9. \A j, k \in 0..((m + 1) - 1) : j < k => grown[j] < grown[k]
    BY <2>1, <2>8
  <2>10. \A k \in 0..(n' - 1) : k \in PickedBelow(i)' <=> \E j \in 0..((m + 1) - 1) : grown[j] = k
    BY <2>2, <2>8
  <2>11. tail' = Slot(m + 1)'
    BY <2>4, <2>8
  <2>12. \A j \in 0..((m + 1) - 1) : items'[Slot(j)'] = before'[Slot(grown[j])']
    BY <2>5, <2>8
  <2>13. \A k \in 0..(n' - 1) : k >= i' => items'[Slot(k)'] = before'[Slot(k)']
    BY <2>6, <2>8
  <2>14. \A x : (\E j \in DOMAIN closed' : closed'[j] = x) <=>
                \E k \in DroppedBelow(i)' : before'[Slot(k)'] = x
    <3>1. closed' = closed /\ DroppedBelow(i)' = DroppedBelow(i)
      BY <1>1, <1>13
    <3>2. \A x : (\E j \in DOMAIN closed : closed[j] = x) <=>
                 \E k \in DroppedBelow(i) : before'[Slot(k)'] = x
      BY <1>6, <2>8
    <3> QED BY <3>1, <3>2
  <2> QED BY <2>3, <2>7, <2>9, <2>10, <2>11, <2>12, <2>13, <2>14 DEF Compacted
<1>15. grown \in [0..((m + 1) - 1) -> 0..(n' - 1)] /\ m + 1 \in 0..i'
  BY <1>1, <1>5, <1>8
<1> QED BY <1>1, <1>2, <1>11, <1>14, <1>15 DEF Inv

(* A request that was not picked is still in its slot when it is closed.   *)
LEMMA DropNext ==
  ASSUME Inv, Drop
  PROVE  Inv'
<1>1. /\ pc = "compact" /\ i < n /\ ~rand_indexes[i] /\ i' = i + 1
      /\ closed' = Append(closed, items[Slot(i)])
      /\ UNCHANGED <<capacity, head, n, before, items, tail, size, indexes, rand_indexes, pc>>
  BY DEF Drop
<1>2. /\ Ring /\ Ring' /\ i \in 0..(n - 1) /\ i' \in 0..n
      /\ n \in Nat /\ n <= capacity
      /\ Slot(i) \in 0..(capacity - 1)
      /\ \A k : Slot(k)' = Slot(k)
      /\ Cardinality(Picked') = limit'
  BY <1>1, CompactTurn
<1>3. PICK m \in 0..i : \E pick \in [0..(m - 1) -> 0..(n - 1)] : Compacted(m, pick)
  BY <1>1 DEF Inv
<1>4. PICK pick \in [0..(m - 1) -> 0..(n - 1)] : Compacted(m, pick)
  BY <1>3
<1>5. /\ \A j \in 0..(m - 1), k \in 0..(m - 1) : j < k => pick[j] < pick[k]
      /\ \A k \in 0..(n - 1) : k \in PickedBelow(i) <=> \E j \in 0..(m - 1) : pick[j] = k
      /\ Cardinality(PickedBelow(i)) = m
      /\ tail = Slot(m)
      /\ \A j \in 0..(m - 1) : items[Slot(j)] = before[Slot(pick[j])]
      /\ \A k \in 0..(n - 1) : k >= i => items[Slot(k)] = before[Slot(k)]
      /\ Len(closed) = i - m
      /\ \A x : (\E j \in DOMAIN closed : closed[j] = x) <=>
                 \E k \in DroppedBelow(i) : before[Slot(k)] = x
  BY <1>4 DEF Compacted
<1>6. TypeOK /\ closed \in Seq(Nat) /\ items[Slot(i)] \in Nat
  BY <1>2 DEF Inv, TypeOK
<1>7. PICK d : d = items[Slot(i)]
  OBVIOUS
<1>8. /\ closed' \in Seq(Nat) /\ Len(closed') = Len(closed) + 1
      /\ DOMAIN closed = 1..Len(closed) /\ DOMAIN closed' = 1..(Len(closed) + 1)
      /\ \A j \in 1..Len(closed) : closed'[j] = closed[j]
      /\ closed'[Len(closed) + 1] = d /\ Len(closed) \in Nat
  BY <1>1, <1>6, <1>7, AppendProperties, LenProperties
<1>9. TypeOK'
  BY <1>1, <1>2, <1>6, <1>8 DEF TypeOK
<1>10. /\ PickedBelow(i)' = PickedBelow(i)
       /\ \A k : k \in DroppedBelow(i)' <=> k \in DroppedBelow(i) \/ k = i
  <2>1. \A k \in 0..(n - 1) : k < i' <=> k < i \/ k = i
    BY <1>1, <1>2
  <2> QED BY <1>1, <1>2, <2>1 DEF PickedBelow, DroppedBelow
<1>11. d = before[Slot(i)]
  BY <1>2, <1>5, <1>7
<1>12. \A x : (\E j \in DOMAIN closed' : closed'[j] = x) <=>
               \E k \in DroppedBelow(i)' : before[Slot(k)] = x
  <2> SUFFICES ASSUME NEW x
               PROVE  (\E j \in DOMAIN closed' : closed'[j] = x) <=>
                        \E k \in DroppedBelow(i)' : before[Slot(k)] = x
    OBVIOUS
  <2>1. (\E j \in DOMAIN closed' : closed'[j] = x) <=> (\E j \in DOMAIN closed : closed[j] = x) \/ x = d
    <3>1. \A j : j \in DOMAIN closed' <=> j \in DOMAIN closed \/ j = Len(closed) + 1
      BY <1>8
    <3> QED BY <1>8, <3>1
  <2>2. (\E k \in DroppedBelow(i)' : before[Slot(k)] = x)
          <=> (\E k \in DroppedBelow(i) : before[Slot(k)] = x) \/ x = d
    BY <1>10, <1>11
  <2> QED BY <1>5, <2>1, <2>2
<1>13. Compacted(m, pick)'
  <2>1. Len(closed') = i' - m
    BY <1>1, <1>2, <1>5, <1>8
  <2>2. \A k \in 0..(n - 1) : k >= i' => items[Slot(k)] = before[Slot(k)]
    BY <1>1, <1>2, <1>5
  <2>3. n' = n /\ before' = before /\ items' = items /\ tail' = tail /\ \A k : Slot(k)' = Slot(k)
    BY <1>1, <1>2
  <2>4. \A k \in 0..(n' - 1) : k \in PickedBelow(i)' <=> \E j \in 0..(m - 1) : pick[j] = k
    BY <1>5, <1>10, <2>3
  <2>5. Cardinality(PickedBelow(i)') = m /\ tail' = Slot(m)'
    BY <1>5, <1>10, <2>3
  <2>6. \A j \in 0..(m - 1) : items'[Slot(j)'] = before'[Slot(pick[j])']
    BY <1>5, <2>3
  <2>7. \A k \in 0..(n' - 1) : k >= i' => items'[Slot(k)'] = before'[Slot(k)']
    BY <2>2, <2>3
  <2>8. \A x : (\E j \in DOMAIN closed' : closed'[j] = x) <=>
               \E k \in DroppedBelow(i)' : before'[Slot(k)'] = x
    BY <1>12, <2>3
  <2> QED BY <1>5, <2>1, <2>4, <2>5, <2>6, <2>7, <2>8 DEF Compacted
<1>14. m \in 0..i'
  BY <1>1, <1>2
<1> QED BY <1>1, <1>2, <1>4, <1>9, <1>13, <1>14 DEF Inv

(* A step that leaves the ring alone, at the end of the loop or after it   *)
LEMMA ReturnNext ==
  ASSUME Inv, Return \/ UNCHANGED vars
  PROVE  Inv'
<1>1. UNCHANGED <<capacity, head, n, before, items, tail, indexes, rand_indexes, i, closed>>
  BY DEF Return, vars
<1>2. \A k : Slot(k)' = Slot(k)
  BY <1>1 DEF Slot
<1>3. Picked' = Picked /\ limit' = limit /\ PickedBelow(i)' = PickedBelow(i)
      /\ DroppedBelow(i)' = DroppedBelow(i)
  BY <1>1 DEF Picked, limit, PickedBelow, DroppedBelow
<1>4. \A m, pick : Compacted(m, pick) => Compacted(m, pick)'
  BY <1>1, <1>3 DEF Compacted, Slot
<1>5. CASE Return
  <2>1. pc = "compact" /\ i = n /\ size' = limit /\ pc' = "done"
    BY <1>5 DEF Return
  <2>2. Ring' /\ TypeOK'
    BY <1>1, <2>1 DEF Inv, Ring, TypeOK
  <2>3. PICK m \in 0..i : \E pick \in [0..(m - 1) -> 0..(n - 1)] : Compacted(m, pick)
    BY <2>1 DEF Inv
  <2>4. PICK pick \in [0..(m - 1) -> 0..(n - 1)] : Compacted(m, pick)
    BY <2>3
  <2>5. Compacted(m, pick)'
    BY <1>4, <2>4
  <2>6. Cardinality(Picked') = limit'
    BY <1>3, <2>1 DEF Inv
  <2> QED BY <1>1, <1>3, <2>1, <2>2, <2>4, <2>5, <2>6 DEF Inv
<1>6. CASE UNCHANGED vars
  <2>1. pc' = pc /\ size' = size
    BY <1>6 DEF vars
  <2>2. Ring' /\ TypeOK' /\ (Picking => Picking')
    BY <1>1, <1>3, <2>1 DEF Inv, Ring, TypeOK, Picking
  <2>3. CASE pc = "pick"
    BY <2>1, <2>2, <2>3 DEF Inv
  <2>4. CASE pc # "pick"
    <3>1. pc \in {"compact", "done"}
      BY <2>4 DEF Inv, TypeOK
    <3>2. PICK m \in 0..i : \E pick \in [0..(m - 1) -> 0..(n - 1)] : Compacted(m, pick)
      BY <3>1 DEF Inv
    <3>3. PICK pick \in [0..(m - 1) -> 0..(n - 1)] : Compacted(m, pick)
      BY <3>2
    <3>4. Compacted(m, pick)'
      BY <1>4, <3>3
    <3>5. Cardinality(Picked') = limit'
      BY <1>3, <3>1 DEF Inv
    <3>6. pc' = "done" => i' = n' /\ size' = limit'
      BY <1>1, <1>3, <2>1 DEF Inv
    <3> QED BY <1>1, <2>1, <2>2, <2>4, <3>1, <3>3, <3>4, <3>5, <3>6 DEF Inv
  <2> QED BY <2>3, <2>4
<1> QED BY <1>5, <1>6

(* One case for each action                                                *)
LEMMA InvNext ==
  ASSUME Inv, [Next]_vars
  PROVE  Inv'
<1>1. CASE Pick
  BY <1>1, PickNext
<1>2. CASE PickDone
  BY <1>2, PickDoneNext
<1>3. CASE Keep
  BY <1>3, KeepNext
<1>4. CASE Drop
  BY <1>4, DropNext
<1>5. CASE Return \/ UNCHANGED vars
  BY <1>5, ReturnNext
<1> QED BY <1>1, <1>2, <1>3, <1>4, <1>5 DEF Next, Done

(* At every point of the two loops                                         *)
LEMMA Invariant == Spec => []Inv
<1>1. Init => Inv
  BY InvInit
<1>2. Inv /\ [Next]_vars => Inv'
  BY InvNext
<1> QED BY <1>1, <1>2, PTL DEF Spec

-----------------------------------------------------------------------------
(* When the loops are done m is n/2, and the offsets picked are the choice *)
(* of Server.drop_random.                                                  *)
LEMMA InvSame ==
  ASSUME Inv
  PROVE  SameAsOneStep
<1> SUFFICES ASSUME pc = "done"
             PROVE  /\ \E pick \in [0..(limit - 1) -> 0..(n - 1)] :
                         /\ \A j, k \in 0..(limit - 1) : j < k => pick[j] < pick[k]
                         /\ \A j \in 0..(limit - 1) : items[Slot(j)] = before[Slot(pick[j])]
                         /\ {closed[j] : j \in DOMAIN closed} =
                              {before[Slot(k)] : k \in (0..(n - 1)) \ {pick[j] : j \in 0..(limit - 1)}}
                    /\ Len(closed) = n - limit
                    /\ size = limit
                    /\ \/ head = tail /\ size \in {0, capacity}
                       \/ (tail + capacity - head) % capacity = size
  BY DEF SameAsOneStep
<1>1. /\ Ring /\ i = n /\ size = limit /\ Cardinality(Picked) = limit
      /\ \E m \in 0..i : \E pick \in [0..(m - 1) -> 0..(n - 1)] : Compacted(m, pick)
  BY DEF Inv
<1>2. PICK m \in 0..i : \E pick \in [0..(m - 1) -> 0..(n - 1)] : Compacted(m, pick)
  BY <1>1
<1>3. PICK pick \in [0..(m - 1) -> 0..(n - 1)] : Compacted(m, pick)
  BY <1>2
<1>4. /\ \A j \in 0..(m - 1), k \in 0..(m - 1) : j < k => pick[j] < pick[k]
      /\ \A k \in 0..(n - 1) : k \in PickedBelow(i) <=> \E j \in 0..(m - 1) : pick[j] = k
      /\ Cardinality(PickedBelow(i)) = m
      /\ tail = Slot(m)
      /\ \A j \in 0..(m - 1) : items[Slot(j)] = before[Slot(pick[j])]
      /\ Len(closed) = i - m
      /\ \A x : (\E j \in DOMAIN closed : closed[j] = x) <=>
                 \E k \in DroppedBelow(i) : before[Slot(k)] = x
  BY <1>3 DEF Compacted
<1>5. limit \in Nat /\ limit < n /\ n \in Nat /\ limit \in 0..(n - 1)
  BY <1>1, Halves
<1>6. \A k \in 0..(n - 1) : k < i
  BY <1>1, <1>5
<1>7. PickedBelow(i) = Picked /\ m = limit
  <2>1. PickedBelow(i) = Picked
    BY <1>6 DEF PickedBelow, Picked
  <2> QED BY <1>1, <1>4, <2>1
<1>8. \A k : k \in DroppedBelow(i)
                <=> k \in (0..(n - 1)) \ {pick[j] : j \in 0..(m - 1)}
  BY <1>4, <1>6 DEF DroppedBelow, PickedBelow
<1>9. {closed[j] : j \in DOMAIN closed} =
        {before[Slot(k)] : k \in (0..(n - 1)) \ {pick[j] : j \in 0..(m - 1)}}
  <2>1. \A x : (\E j \in DOMAIN closed : closed[j] = x) <=>
               \E k \in (0..(n - 1)) \ {pick[j] : j \in 0..(m - 1)} : before[Slot(k)] = x
    BY <1>4, <1>8
  <2> QED BY <2>1
<1>10. (tail + capacity - head) % capacity = limit
  BY <1>1, <1>4, <1>5, <1>7, Slots
<1>11. Len(closed) = n - limit
  BY <1>1, <1>4, <1>7
<1>12. \E pk \in [0..(limit - 1) -> 0..(n - 1)] :
         /\ \A j, k \in 0..(limit - 1) : j < k => pk[j] < pk[k]
         /\ \A j \in 0..(limit - 1) : items[Slot(j)] = before[Slot(pk[j])]
         /\ {closed[j] : j \in DOMAIN closed} =
              {before[Slot(k)] : k \in (0..(n - 1)) \ {pk[j] : j \in 0..(limit - 1)}}
  <2>1. pick \in [0..(limit - 1) -> 0..(n - 1)]
    BY <1>3, <1>7
  <2>2. /\ \A j, k \in 0..(limit - 1) : j < k => pick[j] < pick[k]
        /\ \A j \in 0..(limit - 1) : items[Slot(j)] = before[Slot(pick[j])]
        /\ {closed[j] : j \in DOMAIN closed} =
              {before[Slot(k)] : k \in (0..(n - 1)) \ {pick[j] : j \in 0..(limit - 1)}}
    BY <1>4, <1>7, <1>9
  <2> WITNESS pick \in [0..(limit - 1) -> 0..(n - 1)]
  <2> QED BY <2>2
<1> QED BY <1>1, <1>10, <1>11, <1>12

(* The two loops do, for a ring of any size anywhere in the array and for  *)
(* every sequence of random numbers, what module Server takes drop_random  *)
(* to do in one step.                                                      *)
THEOREM LoopsAreOneStep == Spec => []SameAsOneStep
<1>1. Inv => SameAsOneStep
  BY InvSame
<1> QED BY <1>1, Invariant, PTL
=============================================================================
