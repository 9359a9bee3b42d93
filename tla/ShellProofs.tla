---------------------------- MODULE ShellProofs -----------------------------
(***************************************************************************)
(* Proofs about Shell, for every line, directory and length of the arrays: *)
(* where the parts of a line end, which of them the shell executes itself, *)
(* and that the loop which takes a line apart, a letter at a time, finds   *)
(* the words that stand on it.  Then about Pipe, for every length of a     *)
(* line and every size of a pipe.                                          *)
(***************************************************************************)
EXTENDS Shell, Pipe, SequenceTheorems, FiniteSetTheorems, WellFoundedInduction, TLAPS

(* The smallest and the largest of a set of positions                      *)
LEMMA Least ==
  ASSUME NEW S, S \subseteq Nat, S # {}
  PROVE  Min(S) \in S /\ \A x \in S : Min(S) <= x
<1>1. PICK m \in S : \A x \in S : ~(<<x, m>> \in OpToRel(<, Nat))
  BY NatLessThanWellFounded, WFMin, Zenon
<1>2. ASSUME NEW x \in S PROVE m <= x
  <2>1. OpToRel(<, Nat) = {ss \in Nat \X Nat : ss[1] < ss[2]}
    BY Zenon DEF OpToRel
  <2>2. m \in Nat /\ x \in Nat /\ <<x, m>> \in Nat \X Nat
    OBVIOUS
  <2>3. x < m => <<x, m>> \in {ss \in Nat \X Nat : ss[1] < ss[2]}
    BY <2>2
  <2>4. ~(x < m)
    BY <1>1, <2>1, <2>3
  <2> QED BY <2>2, <2>4
<1> QED BY <1>2 DEF Min

LEMMA Greatest ==
  ASSUME NEW n \in Nat, NEW S, S \subseteq 0..n, S # {}
  PROVE  Max(S) \in S /\ \A x \in S : x <= Max(S)
<1> DEFINE below == {n - x : x \in S}
<1>1. below \subseteq Nat /\ below # {}
  <2>1. \A x \in S : n - x \in Nat
    OBVIOUS
  <2> QED BY <2>1
<1>2. Min(below) \in below /\ \A y \in below : Min(below) <= y
  BY <1>1, Least
<1>3. PICK m \in S : Min(below) = n - m
  BY <1>2
<1>4. ASSUME NEW x \in S PROVE x <= m
  <2>1. n - x \in below
    OBVIOUS
  <2>2. n - m <= n - x
    BY <1>2, <1>3, <2>1
  <2> QED BY <2>2
<1> QED BY <1>4 DEF Max

LEMMA MinIs ==
  ASSUME NEW S, S \subseteq Nat, NEW m \in S, \A x \in S : m <= x
  PROVE  Min(S) = m
<1>1. Min(S) \in S /\ Min(S) <= m
  BY Least
<1>2. PICK x \in S : x = Min(S)
  BY <1>1
<1>3. x \in Nat /\ m \in Nat /\ x <= m /\ m <= x
  BY <1>1, <1>2
<1> QED BY <1>2, <1>3

LEMMA MaxIs ==
  ASSUME NEW S, S \subseteq Nat, NEW m \in S, \A x \in S : x <= m
  PROVE  Max(S) = m
<1>1. S \subseteq 0..m /\ m \in Nat
  OBVIOUS
<1>2. Max(S) \in S /\ m <= Max(S)
  BY <1>1, Greatest
<1>3. PICK x \in S : x = Max(S)
  BY <1>2
<1>4. x \in Nat /\ x <= m /\ m <= x
  BY <1>2, <1>3
<1> QED BY <1>1, <1>3, <1>4

(* A part of a line, by its letters                                        *)
LEMMA PartIs ==
  ASSUME NEW L, NEW s \in Seq(L), NEW i \in Nat, i >= 1, NEW j \in Nat, j <= Len(s)
  PROVE  /\ SubSeq(s, i, j) \in Seq(L)
         /\ Len(SubSeq(s, i, j)) = IF i <= j THEN j - i + 1 ELSE 0
         /\ \A k \in 1..Len(SubSeq(s, i, j)) : SubSeq(s, i, j)[k] = s[i + k - 1]
<1>1. \A k \in i..j : s[k] \in L
  BY ElementOfSeq
<1> QED BY <1>1, SubSeqProperties

LEMMA SameLetters ==
  ASSUME NEW L, NEW s \in Seq(L), NEW t \in Seq(L), Len(s) = Len(t),
         \A k \in 1..Len(s) : s[k] = t[k]
  PROVE  s = t
  BY SeqEqual

(* Where a letter stands                                                   *)
LEMMA PositionsAre ==
  ASSUME NEW L, NEW s \in Seq(L), NEW c
  PROVE  /\ Len(s) \in Nat
         /\ Positions(s, c) = {i \in 1..Len(s) : s[i] = c}
         /\ Positions(s, c) \subseteq Nat
         /\ Positions(s, c) \subseteq 0..Len(s)
  BY LenProperties DEF Positions

(* Trimming on the right, cutting and looking for a separator leave a      *)
(* beginning of the line.                                                  *)
Begins(t, s) == Len(t) \in 0..Len(s) /\ \A j \in 1..Len(t) : t[j] = s[j]

LEMMA BeginIs ==
  ASSUME NEW L, NEW s \in Seq(L), NEW n \in 0..Len(s)
  PROVE  SubSeq(s, 1, n) \in Seq(L) /\ Len(SubSeq(s, 1, n)) = n /\ Begins(SubSeq(s, 1, n), s)
<1>1. n \in Nat /\ n <= Len(s) /\ Len(s) \in Nat
  BY PositionsAre
<1>2. /\ SubSeq(s, 1, n) \in Seq(L) /\ Len(SubSeq(s, 1, n)) = n
      /\ \A k \in 1..n : SubSeq(s, 1, n)[k] = s[1 + k - 1]
  BY <1>1, PartIs
<1>3. \A k \in 1..n : 1 + k - 1 = k
  BY <1>1
<1> QED BY <1>1, <1>2, <1>3 DEF Begins

LEMMA BeginOfBegin ==
  ASSUME NEW L, NEW s \in Seq(L), NEW t \in Seq(L), NEW u \in Seq(L), Begins(u, t), Begins(t, s)
  PROVE  Begins(u, s)
<1>1. /\ Len(u) \in Nat /\ Len(t) \in Nat /\ Len(s) \in Nat
  BY PositionsAre
<1>2. \A k \in 1..Len(u) : k \in 1..Len(t)
  BY <1>1 DEF Begins
<1>3. \A k \in 1..Len(u) : u[k] = s[k]
  BY <1>2 DEF Begins
<1>4. Len(u) \in 0..Len(s)
  BY <1>1 DEF Begins
<1> QED BY <1>3, <1>4 DEF Begins

(* What stands in front of the first c                                     *)
LEMMA UpToIs ==
  ASSUME NEW L, NEW s \in Seq(L), NEW c
  PROVE  /\ UpTo(s, c) \in Seq(L)
         /\ Positions(s, c) = {} => UpTo(s, c) = s
         /\ Positions(s, c) # {} => UpTo(s, c) = SubSeq(s, 1, Min(Positions(s, c)) - 1)
         /\ Positions(UpTo(s, c), c) = {}
         /\ Begins(UpTo(s, c), s)
<1> DEFINE end == Min(Positions(s, c) \cup {Len(s) + 1})
<1>0. PICK n \in Nat : n = Len(s)
  BY PositionsAre
<1>1. Positions(s, c) = {i \in 1..n : s[i] = c}
  BY <1>0, PositionsAre
<1>2. end \in Positions(s, c) \cup {n + 1} /\ \A i \in Positions(s, c) \cup {n + 1} : end <= i
  <2>1. Positions(s, c) \cup {n + 1} \subseteq Nat
    BY <1>1
  <2> QED BY <1>0, <2>1, Least
<1>3. PICK e \in 1..(n + 1) : e = end
  <2>1. Positions(s, c) \cup {n + 1} \subseteq 1..(n + 1)
    BY <1>1
  <2> QED BY <1>2, <2>1
<1>4. UpTo(s, c) = SubSeq(s, 1, e - 1)
  BY <1>3 DEF UpTo
<1>5. /\ UpTo(s, c) \in Seq(L) /\ Len(UpTo(s, c)) = e - 1
      /\ \A k \in 1..(e - 1) : UpTo(s, c)[k] = s[k]
  BY <1>0, <1>4, PartIs, e - 1 \in Nat
<1>6. ASSUME Positions(s, c) = {} PROVE UpTo(s, c) = s
  BY <1>0, <1>2, <1>3, <1>4, <1>6, SubSeqFull
<1>7. ASSUME Positions(s, c) # {} PROVE UpTo(s, c) = SubSeq(s, 1, Min(Positions(s, c)) - 1)
  <2>1. PICK i \in Positions(s, c) : TRUE
    BY <1>7
  <2>2. e <= i /\ i \in 1..n
    BY <1>1, <1>2, <1>3
  <2>3. e \in Positions(s, c)
    BY <1>2, <1>3, <2>2
  <2>4. Min(Positions(s, c)) = e
    BY <1>1, <1>2, <1>3, <2>3, MinIs
  <2> QED BY <1>4, <2>4
<1>8. ASSUME NEW i \in Positions(UpTo(s, c), c) PROVE FALSE
  <2>1. i \in 1..(e - 1) /\ UpTo(s, c)[i] = c
    BY <1>5, PositionsAre
  <2>2. s[i] = c /\ i \in 1..n
    BY <1>5, <2>1
  <2> QED BY <1>1, <1>2, <1>3, <2>1, <2>2
<1>9. Begins(UpTo(s, c), s)
  BY <1>0, <1>5 DEF Begins
<1> QED BY <1>5, <1>6, <1>7, <1>8, <1>9

(* Where a separator ends, and what comes after it                         *)
EndOf(s, i) == IF i > 0 /\ i < Len(s) /\ s[i + 1] = "&" THEN i + 1 ELSE i

Behind(t, s, k) ==
  /\ k \in Nat /\ k <= Len(s) /\ Len(t) = Len(s) - k
  /\ \A j \in 1..(Len(s) - k) : t[j] = s[k + j]

LEMMA AfterIs ==
  ASSUME NEW L, NEW s \in Seq(L), NEW i \in 0..Len(s)
  PROVE  /\ After(s, i) \in Seq(L) /\ EndOf(s, i) \in i..Len(s)
         /\ Behind(After(s, i), s, EndOf(s, i))
<1>0. PICK n \in Nat : n = Len(s)
  BY PositionsAre
<1>1. PICK k \in Nat : k = EndOf(s, i) /\ i <= k /\ k <= n
  BY <1>0 DEF EndOf
<1>2. After(s, i) = SubSeq(s, k + 1, n)
  BY <1>0, <1>1 DEF After, EndOf
<1>3. k + 1 \in Nat /\ k + 1 >= 1
  BY <1>1
<1>4. After(s, i) \in Seq(L) /\ Len(After(s, i)) = n - k
  BY <1>0, <1>1, <1>2, <1>3, PartIs
<1>5. \A j \in 1..(n - k) : After(s, i)[j] = s[k + 1 + j - 1]
  BY <1>0, <1>2, <1>3, <1>4, PartIs
<1>6. \A j \in 1..(n - k) : k + 1 + j - 1 = k + j
  BY <1>1
<1>7. Behind(After(s, i), s, k)
  BY <1>0, <1>1, <1>4, <1>5, <1>6 DEF Behind
<1> QED BY <1>0, <1>1, <1>4, <1>7

(* What comes after a pipe sign of what comes after another                *)
LEMMA AfterOfAfter ==
  ASSUME NEW L, NEW s \in Seq(L), NEW i \in 0..Len(s), NEW p \in Positions(After(s, i), "|")
  PROVE  /\ EndOf(s, i) + p \in Positions(s, "|")
         /\ After(After(s, i), p) = After(s, EndOf(s, i) + p)
<1>0. PICK n, k, right : n = Len(s) /\ k = EndOf(s, i) /\ right = After(s, i)
  OBVIOUS
<1>1. /\ n \in Nat /\ k \in Nat /\ k <= n
      /\ right \in Seq(L) /\ Len(right) = n - k
      /\ \A j \in 1..(n - k) : right[j] = s[k + j]
  <2>1. After(s, i) \in Seq(L) /\ EndOf(s, i) \in i..Len(s) /\ Behind(After(s, i), s, EndOf(s, i))
    BY AfterIs
  <2>2. n \in Nat /\ i \in Nat
    BY <1>0, PositionsAre
  <2> QED BY <1>0, <2>1, <2>2 DEF Behind
<1>2. p \in 1..(n - k) /\ right[p] = "|"
  BY <1>0, <1>1, PositionsAre
<1>3. PICK m \in Nat : m = k + p /\ m <= n /\ m >= 1
  BY <1>1, <1>2
<1>4. m \in Positions(s, "|")
  <2>1. m \in 1..n /\ s[m] = "|"
    BY <1>1, <1>2, <1>3
  <2> QED BY <1>0, <2>1, PositionsAre
<1>5. PICK l \in Nat : l = n - k /\ p \in Nat /\ p >= 1 /\ p <= l
  BY <1>1, <1>2
<1>6. PICK k1 : k1 = EndOf(s, m)
  OBVIOUS
<1>7. /\ k1 \in Nat /\ m <= k1 /\ k1 <= n
      /\ After(s, m) \in Seq(L) /\ Len(After(s, m)) = n - k1
      /\ \A j \in 1..(n - k1) : After(s, m)[j] = s[k1 + j]
  <2>1. m \in 0..Len(s)
    BY <1>0, <1>1, <1>3
  <2>2. After(s, m) \in Seq(L) /\ k1 \in m..n /\ Behind(After(s, m), s, k1)
    BY <1>0, <1>6, <2>1, AfterIs
  <2>3. k1 \in Nat /\ m <= k1 /\ k1 <= n
    BY <1>1, <1>3, <2>2
  <2> QED BY <1>0, <2>2, <2>3 DEF Behind
<1>8. PICK k2 : k2 = EndOf(right, p)
  OBVIOUS
<1>9. /\ k2 \in Nat /\ p <= k2 /\ k2 <= l
      /\ After(right, p) \in Seq(L) /\ Len(After(right, p)) = l - k2
      /\ \A j \in 1..(l - k2) : After(right, p)[j] = right[k2 + j]
  <2>1. p \in 0..Len(right)
    BY <1>1, <1>5
  <2>2. After(right, p) \in Seq(L) /\ k2 \in p..l /\ Behind(After(right, p), right, k2)
    BY <1>1, <1>5, <1>8, <2>1, AfterIs
  <2> QED BY <1>1, <1>5, <2>2 DEF Behind
<1>10. k1 = k + k2 /\ n - k1 = l - k2
  <2>1. p < l => right[p + 1] = s[m + 1]
    <3>1. p < l => p + 1 \in 1..(n - k) /\ k + (p + 1) = m + 1
      BY <1>1, <1>3, <1>5
    <3> QED BY <1>1, <3>1
  <2>2. (p < l) <=> (m < n)
    BY <1>1, <1>3, <1>5
  <2>3. k2 = IF p < l /\ right[p + 1] = "&" THEN p + 1 ELSE p
    BY <1>1, <1>5, <1>8 DEF EndOf
  <2>4. k1 = IF m < n /\ s[m + 1] = "&" THEN m + 1 ELSE m
    BY <1>0, <1>3, <1>6 DEF EndOf
  <2>5. \/ k1 = m /\ k2 = p
        \/ k1 = m + 1 /\ k2 = p + 1
    BY <2>1, <2>2, <2>3, <2>4
  <2>6. CASE k1 = m /\ k2 = p
    BY <1>1, <1>3, <1>5, <2>6
  <2>7. CASE k1 = m + 1 /\ k2 = p + 1
    BY <1>1, <1>3, <1>5, <2>7
  <2> QED BY <2>5, <2>6, <2>7
<1>11. ASSUME NEW j \in 1..(n - k1) PROVE After(right, p)[j] = After(s, m)[j]
  <2>1. k2 + j \in 1..(n - k) /\ k + (k2 + j) = k1 + j
    BY <1>1, <1>5, <1>7, <1>9, <1>10
  <2>2. right[k2 + j] = s[k1 + j]
    BY <1>1, <2>1
  <2>3. After(right, p)[j] = right[k2 + j] /\ After(s, m)[j] = s[k1 + j]
    BY <1>7, <1>9, <1>10
  <2> QED BY <2>2, <2>3
<1>12. After(right, p) = After(s, m)
  BY <1>7, <1>9, <1>10, <1>11, SameLetters
<1> QED BY <1>0, <1>3, <1>4, <1>12

(* A line that is no pipe is its own last stage.                           *)
LEMMA OnlyStage ==
  ASSUME NEW L, NEW s \in Seq(L), Positions(s, "|") = {}
  PROVE  LastStage(s) = s
<1>1. Max(Starts(s)) = 0
  <2>1. Starts(s) = {0}
    BY DEF Starts
  <2> QED BY <2>1, MaxIs
<1>2. Len(s) \in Nat /\ 0 \in 0..Len(s)
  BY PositionsAre
<1>3. After(s, 0) = SubSeq(s, 1, Len(s))
  BY <1>2 DEF After
<1>4. After(s, 0) = s
  BY <1>3, SubSeqFull
<1> QED BY <1>1, <1>4, UpToIs DEF LastStage, StageAt

(* The right side of the first pipe sign has the last stage of the line.   *)
LEMMA LastStageToTheRight ==
  ASSUME NEW L, NEW s \in Seq(L), NEW i \in Positions(s, "|"),
         \A j \in Positions(s, "|") : i <= j
  PROVE  LastStage(After(s, i)) = LastStage(s)
<1> DEFINE right == After(s, i)
<1>0. PICK n \in Nat : n = Len(s)
  BY PositionsAre
<1>1. Positions(s, "|") = {j \in 1..n : s[j] = "|"}
  BY <1>0, PositionsAre
<1>2. i \in 1..n /\ s[i] = "|"
  BY <1>1
<1>3. PICK k : k = EndOf(s, i)
  OBVIOUS
<1>31. /\ k \in Nat /\ i <= k /\ k <= n
      /\ right \in Seq(L) /\ Len(right) = n - k
      /\ \A j \in 1..(n - k) : right[j] = s[k + j]
  <2>1. i \in 0..Len(s)
    BY <1>0, <1>2
  <2>2. right \in Seq(L) /\ k \in i..n /\ Behind(right, s, k)
    BY <1>0, <1>3, <2>1, AfterIs
  <2> QED BY <1>0, <1>2, <2>2 DEF Behind
<1>32. i \in Nat /\ i >= 1 /\ n \in Nat /\ k \in Nat /\ n - k \in Nat
  BY <1>2, <1>31
<1>33. k # i => k = i + 1 /\ s[k] # "|"
  <2>1. "&" # "|"
    OBVIOUS
  <2>2. k # i => k = i + 1 /\ s[i + 1] = "&"
    BY <1>3 DEF EndOf
  <2> QED BY <2>1, <2>2
<1>4. Positions(right, "|") = {j \in 1..(n - k) : s[k + j] = "|"}
  BY <1>31, PositionsAre
<1>5. \A j \in Positions(s, "|") : j = i \/ j > k
  BY <1>1, <1>32, <1>33
<1>6. PICK m \in Positions(s, "|") \cup {0} :
        m = Max(Starts(s)) /\ \A j \in Starts(s) : j <= m
  <2>1. Starts(s) \subseteq 0..n /\ Starts(s) # {}
    BY <1>1 DEF Starts
  <2> QED BY <2>1, Greatest DEF Starts
<1>7. m \in Positions(s, "|")
  <2>1. i <= m
    BY <1>6 DEF Starts
  <2> QED BY <1>2, <1>6, <2>1
<1> HIDE DEF right
<1>8. CASE m = i
  <2>1. Positions(right, "|") = {}
    <3>1. ASSUME NEW j \in 1..(n - k), s[k + j] = "|" PROVE FALSE
      <4>1. k + j \in 1..n /\ k + j > i
        BY <1>31, <1>32
      <4>2. k + j \in Positions(s, "|")
        BY <1>1, <3>1, <4>1
      <4>3. k + j <= i
        BY <1>6, <1>8, <4>2 DEF Starts
      <4> QED BY <1>32, <4>1, <4>3
    <3> QED BY <1>4, <3>1
  <2>2. LastStage(right) = right
    BY <1>31, <2>1, OnlyStage
  <2>3. LastStage(s) = UpTo(right, "|")
    BY <1>6, <1>8 DEF LastStage, StageAt, right
  <2>4. UpTo(right, "|") = right
    BY <1>31, <2>1, UpToIs
  <2> QED BY <2>2, <2>3, <2>4 DEF right
<1>9. CASE m # i
  <2>1. m \in Nat /\ m > k /\ m <= n /\ s[m] = "|"
    BY <1>1, <1>5, <1>7, <1>9, <1>32
  <2>2. PICK p \in Nat : p = m - k /\ p >= 1 /\ p <= n - k /\ k + p = m
    BY <1>32, <2>1
  <2>3. p \in Positions(right, "|")
    <3>1. p \in 1..(n - k)
      BY <1>32, <2>2
    <3> QED BY <1>4, <2>1, <2>2, <3>1
  <2>4. ASSUME NEW j \in Positions(right, "|") PROVE j \in Nat /\ j <= p
    <3>1. j \in 1..(n - k) /\ s[k + j] = "|"
      BY <1>4
    <3>2. k + j \in 1..n
      BY <1>32, <3>1
    <3>3. k + j \in Positions(s, "|")
      BY <1>1, <3>1, <3>2
    <3>4. k + j <= m
      BY <1>6, <3>3 DEF Starts
    <3> QED BY <1>32, <2>1, <2>2, <3>1, <3>4
  <2>5. Max(Starts(right)) = p
    <3>1. p \in Starts(right) /\ Starts(right) \subseteq Nat
      <4>1. Positions(right, "|") \subseteq Nat
        BY <2>4
      <4> QED BY <2>3, <4>1 DEF Starts
    <3>2. \A j \in Starts(right) : j <= p
      BY <2>2, <2>4 DEF Starts
    <3> QED BY <3>1, <3>2, MaxIs
  <2>6. After(right, p) = After(s, m)
    <3>1. i \in 0..Len(s) /\ k + p = m
      BY <1>0, <1>2, <2>2
    <3> QED BY <1>3, <2>3, <3>1, AfterOfAfter DEF right
  <2> QED BY <1>6, <2>5, <2>6 DEF LastStage, StageAt, right
<1> QED BY <1>8, <1>9

-----------------------------------------------------------------------------
(* The part of a line that the shell itself executes                       *)

Own(s) == Program(LastStage(s))

LEMMA OwnOfPipe ==
  ASSUME NEW L, NEW s \in Seq(L), Positions(s, "|") # {}
  PROVE  /\ _isSpecialCommand(s).kind = "|"
         /\ _isSpecialCommand(s).left = UpTo(s, "|") /\ UpTo(s, "|") \in Seq(L)
         /\ \E i \in Positions(s, "|") : _isSpecialCommand(s).right = After(s, i)
         /\ _isSpecialCommand(s).right \in Seq(L)
         /\ Own(_isSpecialCommand(s).right) = Own(s)
<1>1. PICK i \in Positions(s, "|") :
        i = Min(Positions(s, "|")) /\ \A j \in Positions(s, "|") : i <= j
  BY PositionsAre, Least
<1>2. i \in 0..Len(s) /\ i > 0 /\ i \in Nat
  BY PositionsAre
<1>3. _isSpecialCommand(s).right = After(s, i)
  <2>1. _isSpecialCommand(s).right =
          SubSeq(s, i + (IF i < Len(s) /\ s[i + 1] = "&" THEN 2 ELSE 1), Len(s))
    BY <1>1 DEF _isSpecialCommand
  <2>2. CASE i < Len(s) /\ s[i + 1] = "&"
    BY <1>2, <2>1, <2>2 DEF After
  <2>3. CASE ~(i < Len(s) /\ s[i + 1] = "&")
    BY <1>2, <2>1, <2>3 DEF After
  <2> QED BY <2>2, <2>3
<1>4. _isSpecialCommand(s).kind = "|"
  BY DEF _isSpecialCommand
<1>5. After(s, i) \in Seq(L)
  BY <1>2, AfterIs
<1>6. LastStage(After(s, i)) = LastStage(s)
  BY <1>1, LastStageToTheRight
<1>7. _isSpecialCommand(s).left = UpTo(s, "|") /\ UpTo(s, "|") \in Seq(L)
  BY UpToIs DEF _isSpecialCommand
<1> QED BY <1>3, <1>4, <1>5, <1>6, <1>7 DEF Own

LEMMA OwnOfPlain ==
  ASSUME NEW L, NEW s \in Seq(L), ~IsSpecial(s)
  PROVE  Own(s) = s
<1>1. Positions(s, "|") = {} /\ Positions(s, ">") = {}
  BY DEF IsSpecial
<1> QED BY <1>1, OnlyStage, UpToIs DEF Own, Program

LEMMA OwnOfRedirection ==
  ASSUME NEW L, NEW s \in Seq(L), IsSpecial(s), _isSpecialCommand(s).kind = ">"
  PROVE  /\ Positions(s, "|") = {} /\ Positions(s, ">") # {}
         /\ _isSpecialCommand(s).left = Own(s)
         /\ _isSpecialCommand(s).left \in Seq(L) /\ ~IsSpecial(_isSpecialCommand(s).left)
         /\ Own(_isSpecialCommand(s).left) = Own(s)
<1>1. Positions(s, "|") = {}
  <2>1. "|" # ">"
    OBVIOUS
  <2> QED BY <2>1, OwnOfPipe
<1>2. Positions(s, ">") # {}
  BY <1>1 DEF IsSpecial
<1>3. _isSpecialCommand(s).left = SubSeq(s, 1, Min(Positions(s, ">")) - 1)
  BY <1>1 DEF _isSpecialCommand
<1>4. PICK t \in Seq(L) : t = UpTo(s, ">") /\ Positions(t, ">") = {}
  BY UpToIs
<1>5. _isSpecialCommand(s).left = t /\ Own(s) = t
  BY <1>1, <1>2, <1>3, <1>4, UpToIs, OnlyStage DEF Own, Program
<1>6. Positions(t, "|") = {}
  <2>1. t = SubSeq(s, 1, Min(Positions(s, ">")) - 1)
    BY <1>3, <1>5
  <2>2. PICK m \in Positions(s, ">") : m = Min(Positions(s, ">"))
    BY <1>2, PositionsAre, Least
  <2>3. m \in 1..Len(s) /\ Len(s) \in Nat
    BY PositionsAre
  <2>4. PICK e \in Nat : e = m - 1 /\ e <= Len(s)
    BY <2>3
  <2>5. Len(t) = e /\ \A k \in 1..e : t[k] = s[1 + k - 1]
    BY <2>1, <2>2, <2>4, PartIs
  <2>6. \A k \in 1..e : t[k] = s[k] /\ k \in 1..Len(s)
    BY <2>3, <2>4, <2>5
  <2> QED BY <1>1, <2>5, <2>6, PositionsAre
<1>7. ~IsSpecial(t) /\ Own(t) = t
  BY <1>4, <1>6, OwnOfPlain DEF IsSpecial
<1> QED BY <1>1, <1>2, <1>5, <1>7

-----------------------------------------------------------------------------
(* What the shell executes is the last stage of what was typed.            *)

Alphabet == UNION {Range(given) : given \in Lines}

LEMMA LinesAre ==
  /\ Lines \subseteq Seq(Alphabet)
  /\ <<>> \in Seq(Alphabet)
<1>1. ASSUME NEW given \in Lines PROVE given \in Seq(Alphabet)
  <2>1. given \in Seq(Range(given)) /\ Range(given) \subseteq Alphabet
    BY ShellAssumption DEF Alphabet
  <2> QED BY <2>1, SeqMonotonic
<1> QED BY <1>1, EmptySeq

Typed ==
  /\ typed \in Seq(Alphabet) /\ todo \in Seq(Alphabet)
  /\ pc \in {"line", "ran"} => Own(todo) = Own(typed)
  /\ pc = "ran" => ~IsSpecial(todo)

LEMMA TypedInit == Init => Typed
  BY LinesAre DEF Init, Typed

LEMMA TypedReturn == Typed /\ Return => Typed'
<1> SUFFICES ASSUME Typed, Return PROVE Typed'
  OBVIOUS
<1>1. pc' \notin {"line", "ran"} /\ typed' = <<>> /\ todo' = <<>>
  BY DEF Return
<1> QED BY <1>1, LinesAre DEF Typed

LEMMA TypedNext == Typed /\ [Next]_vars => Typed'
<1> SUFFICES ASSUME Typed, [Next]_vars PROVE Typed'
  OBVIOUS
<1> USE DEF lineVars, ownVars, worldVars
<1>1. CASE ReadLine
  <2>1. typed' \in Seq(Alphabet) /\ todo' = typed' /\ pc' = "line"
    BY <1>1, LinesAre DEF ReadLine
  <2> QED BY <2>1 DEF Typed
<1>2. CASE EmptyLine \/ ExternalDone \/ ChangePrompt \/ Prints \/ QuitCommand \/ ChangeDirCommand
  BY <1>2, TypedReturn DEF EmptyLine, ExternalDone, ChangePrompt, Prints, QuitCommand, ChangeDirCommand
<1>3. ASSUME Fault PROVE Typed'
  BY <1>3 DEF Fault, Typed
<1>4. ASSUME NEW part \in Seq(Alphabet), Own(part) = Own(todo), pc = "line", Descend(part)
      PROVE  Typed'
  BY <1>4 DEF Descend, Typed
<1>5. CASE PipeExecute
  <2>1. /\ pc = "line" /\ _isSpecialCommand(todo).kind = "|" /\ IsSpecial(todo)
        /\ Return \/ Fault \/ Descend(_isSpecialCommand(todo).right)
    BY <1>5 DEF PipeExecute
  <2>2. Positions(todo, "|") # {}
    <3>1. "|" # ">"
      OBVIOUS
    <3> QED BY <2>1, <3>1 DEF _isSpecialCommand
  <2>3. /\ _isSpecialCommand(todo).right \in Seq(Alphabet)
        /\ Own(_isSpecialCommand(todo).right) = Own(todo)
    BY <2>2, OwnOfPipe DEF Typed
  <2> QED BY <1>3, <1>4, <2>1, <2>3, TypedReturn
<1>6. CASE RedirectionExecute
  <2>1. /\ pc = "line" /\ _isSpecialCommand(todo).kind = ">" /\ IsSpecial(todo)
        /\ Return \/ Fault \/ Descend(_isSpecialCommand(todo).left)
    BY <1>6 DEF RedirectionExecute
  <2>2. /\ _isSpecialCommand(todo).left \in Seq(Alphabet)
        /\ Own(_isSpecialCommand(todo).left) = Own(todo)
    BY <2>1, OwnOfRedirection DEF Typed
  <2> QED BY <1>3, <1>4, <2>1, <2>2, TypedReturn
<1>7. CASE CreateFaults
  BY <1>3, <1>7 DEF CreateFaults
<1>8. CASE ExternalExecute
  BY <1>8 DEF ExternalExecute, Executing, Typed
<1>9. CASE InputEnds \/ (\E d \in Dirs : RemoveDir(d) \/ MakeDir(d)) \/ Stopped \/ UNCHANGED vars
  <2>1. typed' = typed /\ todo' = todo /\ pc' = pc
    BY <1>9 DEF InputEnds, RemoveDir, MakeDir, Stopped, vars
  <2> QED BY <2>1 DEF Typed
<1> QED BY <1>1, <1>2, <1>5, <1>6, <1>7, <1>8, <1>9 DEF Next

LEMMA TypedInvariant == Spec => []Typed
  BY TypedInit, TypedNext, PTL DEF Spec

-----------------------------------------------------------------------------
(* The commands that act on the shell                                      *)

(* The blanks around a line                                                *)
LEMMA NotBlankAre ==
  ASSUME NEW L, NEW s \in Seq(L)
  PROVE  /\ NotBlank(s) = {i \in 1..Len(s) : s[i] \notin WHITESPACE}
         /\ NotBlank(s) \subseteq Nat /\ NotBlank(s) \subseteq 0..Len(s)
         /\ Len(s) \in Nat
  BY LenProperties DEF NotBlank

LEMMA LtrimIs ==
  ASSUME NEW L, NEW s \in Seq(L)
  PROVE  /\ _ltrim(s) \in Seq(L)
         /\ NotBlank(s) = {} => _ltrim(s) = <<>>
         /\ NotBlank(s) # {} =>
              \E k \in Nat : k + 1 = Min(NotBlank(s)) /\ Behind(_ltrim(s), s, k)
<1>1. CASE NotBlank(s) = {}
  BY <1>1, EmptySeq DEF _ltrim
<1>2. CASE NotBlank(s) # {}
  <2>0. PICK n \in Nat : n = Len(s)
    BY NotBlankAre
  <2>1. PICK m \in NotBlank(s) : m = Min(NotBlank(s))
    BY <1>2, NotBlankAre, Least
  <2>2. m \in Nat /\ m >= 1 /\ m <= n
    BY <2>0, NotBlankAre
  <2>3. PICK k \in Nat : k + 1 = m
    BY <2>2
  <2>4. _ltrim(s) = SubSeq(s, m, n)
    BY <1>2, <2>0, <2>1 DEF _ltrim
  <2>5. /\ _ltrim(s) \in Seq(L) /\ Len(_ltrim(s)) = n - k
        /\ \A j \in 1..(n - k) : _ltrim(s)[j] = s[m + j - 1]
    BY <2>0, <2>2, <2>3, <2>4, PartIs
  <2>6. \A j \in 1..(n - k) : m + j - 1 = k + j
    BY <2>3
  <2>7. k <= n /\ \A j \in 1..(n - k) : _ltrim(s)[j] = s[k + j]
    BY <2>2, <2>3, <2>5, <2>6
  <2>8. Behind(_ltrim(s), s, k)
    BY <2>0, <2>5, <2>7 DEF Behind
  <2> QED BY <1>2, <2>1, <2>3, <2>5, <2>8
<1> QED BY <1>1, <1>2

LEMMA RtrimIs ==
  ASSUME NEW L, NEW s \in Seq(L)
  PROVE  /\ _rtrim(s) \in Seq(L) /\ Begins(_rtrim(s), s)
         /\ NotBlank(s) = {} => _rtrim(s) = <<>>
         /\ NotBlank(s) # {} => Len(_rtrim(s)) = Max(NotBlank(s))
<1>1. CASE NotBlank(s) = {}
  <2>1. _rtrim(s) = <<>> /\ Len(<<>>) = 0 /\ Len(s) \in Nat
    BY <1>1, NotBlankAre DEF _rtrim
  <2> QED BY <1>1, <2>1, EmptySeq DEF Begins
<1>2. CASE NotBlank(s) # {}
  <2>1. PICK m \in NotBlank(s) : m = Max(NotBlank(s))
    BY <1>2, NotBlankAre, Greatest
  <2>2. m \in 0..Len(s)
    BY NotBlankAre
  <2>3. _rtrim(s) = SubSeq(s, 1, m)
    BY <1>2, <2>1 DEF _rtrim
  <2> QED BY <1>2, <2>1, <2>2, <2>3, BeginIs
<1> QED BY <1>1, <1>2

(* The word that selects a command is the beginning of its line.           *)
LEMMA FirstWordBegins ==
  ASSUME NEW L, NEW s \in Seq(L)
  PROVE  firstWord(s) \in Seq(L) /\ Begins(firstWord(s), _ltrim(s)) /\ _ltrim(s) \in Seq(L)
<1>1. PICK l \in Seq(L) : l = _ltrim(s)
  BY LtrimIs
<1>2. PICK t \in Seq(L) : t = _trim(s) /\ Begins(t, l)
  BY <1>1, RtrimIs DEF _trim
<1>3. firstWord(s) = UpTo(t, " ")
  BY <1>2, UpToIs, Zenon DEF firstWord
<1>4. PICK f \in Seq(L) : f = firstWord(s) /\ Begins(f, t)
  BY <1>3, UpToIs, Zenon
<1> QED BY <1>1, <1>2, <1>4, BeginOfBegin

LEMMA FirstWordIs ==
  ASSUME NEW L, NEW s \in Seq(L), NEW w, firstWord(s) = <<w>>
  PROVE  _ltrim(s) # <<>> /\ Head(_ltrim(s)) = w
<1>1. PICK l \in Seq(L) : l = _ltrim(s) /\ Begins(<<w>>, l)
  BY FirstWordBegins
<1>2. Len(<<w>>) = 1 /\ <<w>>[1] = w /\ 1 \in 1..1
  OBVIOUS
<1>3. 1 \in 0..Len(l) /\ l[1] = w
  BY <1>1, <1>2 DEF Begins
<1>4. l # <<>>
  BY <1>3, Len(<<>>) = 0
<1> QED BY <1>1, <1>3, <1>4

(* The prompt, the directory and the end of the shell are changed by the   *)
(* last stage of a line alone, by a command that is its first word.        *)
LastStageStep ==
  ownVars' # ownVars =>
    LET own == Program(LastStage(typed))
    IN  /\ _ltrim(own) # <<>>
        /\ \/ Head(_ltrim(own)) = "cd" /\ UNCHANGED <<quit, display_prompt>>
           \/ Head(_ltrim(own)) = "chprompt" /\ UNCHANGED <<quit, last_pwd, cwd>>
           \/ Head(_ltrim(own)) = "quit" /\ UNCHANGED <<display_prompt, last_pwd, cwd>>

LEMMA LastStageKept == Typed /\ [Next]_vars => LastStageStep
<1> SUFFICES ASSUME Typed, [Next]_vars PROVE LastStageStep
  OBVIOUS
<1>1. ASSUME NEW w, Executing(<<w>>)
      PROVE  LET own == Program(LastStage(typed)) IN _ltrim(own) # <<>> /\ Head(_ltrim(own)) = w
  <2>1. pc = "line" /\ ~IsSpecial(todo) /\ firstWord(todo) = <<w>>
    BY <1>1 DEF Executing
  <2>2. PICK own \in Seq(Alphabet) : own = todo /\ own = Program(LastStage(typed))
    BY <2>1, OwnOfPlain DEF Typed, Own
  <2>3. _ltrim(own) # <<>> /\ Head(_ltrim(own)) = w
    BY <2>1, <2>2, FirstWordIs
  <2> QED BY <2>2, <2>3
<1>2. CASE ChangeDirCommand
  BY <1>1, <1>2 DEF ChangeDirCommand, LastStageStep
<1>3. CASE ChangePrompt
  BY <1>1, <1>3 DEF ChangePrompt, LastStageStep
<1>4. CASE QuitCommand
  BY <1>1, <1>4 DEF QuitCommand, LastStageStep
<1>5. CASE \/ ReadLine \/ EmptyLine \/ CreateFaults \/ PipeExecute \/ RedirectionExecute
           \/ ExternalExecute \/ ExternalDone \/ Prints \/ InputEnds
           \/ (\E d \in Dirs : RemoveDir(d) \/ MakeDir(d)) \/ Stopped \/ UNCHANGED vars
  <2>1. ownVars' = ownVars
    BY <1>5 DEF ReadLine, EmptyLine, CreateFaults, PipeExecute, RedirectionExecute, Descend,
       Fault, ExternalExecute, ExternalDone, Prints, InputEnds, RemoveDir, MakeDir, Stopped, vars, ownVars
  <2> QED BY <2>1 DEF LastStageStep
<1> QED BY <1>2, <1>3, <1>4, <1>5 DEF Next

(* Whatever is typed: a stage that runs in a child, a redirection or an    *)
(* external command leaves the shell as it is.                             *)
THEOREM OnlyTheLastStageActs == Spec => LastStageOnly
<1>1. Spec => [][LastStageStep]_vars
  BY TypedInvariant, LastStageKept, PTL DEF Spec
<1>2. [][LastStageStep]_vars <=> LastStageOnly
  BY DEF LastStageStep, LastStageOnly
<1> QED BY <1>1, <1>2

(* cd goes from a directory that is still there to one that exists, and    *)
(* remembers the first; cd - goes to the one remembered.                   *)
BackStep ==
  cwd' # cwd => /\ last_pwd' = cwd /\ ~gone /\ cwd' \in dirs
                /\ args(todo)[2] = <<"-">> => cwd' = last_pwd

LEMMA BackKept == [Next]_vars => BackStep
<1> SUFFICES ASSUME [Next]_vars PROVE BackStep
  OBVIOUS
<1> USE DEF lineVars, ownVars, worldVars
<1>1. CASE ChangeDirCommand
  BY <1>1 DEF ChangeDirCommand, Moves, new_dir, BackStep
<1>2. CASE ~ChangeDirCommand
  <2>1. cwd' = cwd
    BY <1>2 DEF Next, ReadLine, EmptyLine, CreateFaults, PipeExecute, RedirectionExecute, Descend,
       Fault, ExternalExecute, ExternalDone, Prints, ChangePrompt, QuitCommand, InputEnds,
       RemoveDir, MakeDir, Stopped, vars
  <2> QED BY <2>1 DEF BackStep
<1> QED BY <1>1, <1>2

(* "last_pwd; // always absolute path": whatever is typed and whatever is  *)
(* removed or made while the prompt is on the screen, last_pwd is the      *)
(* directory that the shell last left, and a shell whose directory was     *)
(* removed never moves again.                                              *)
THEOREM CdGoesBack == Spec => BackWhereItWas
<1>1. Spec => [][BackStep]_vars
  BY BackKept, PTL DEF Spec
<1>2. [][BackStep]_vars <=> BackWhereItWas
  BY DEF BackStep, BackWhereItWas
<1> QED BY <1>1, <1>2

-----------------------------------------------------------------------------
(* Splitting into words                                                    *)

(* What one letter more makes of the words, and what the first n make      *)
NoWords == [in |-> FALSE, words |-> <<>>]

Splits(acc, t) ==
  acc = [n \in 0..Len(t) |-> IF n = 0 THEN NoWords ELSE Taken(acc[n - 1], t[n])]

SplitsTo(acc, t, m) ==
  acc = [n \in 0..m |-> IF n = 0 THEN NoWords ELSE Taken(acc[n - 1], t[n])]

LEMMA SplitExists ==
  ASSUME NEW t, NEW m \in Nat
  PROVE  \E acc : SplitsTo(acc, t, m)
<1> DEFINE Bad == {k \in Nat : ~\E acc : SplitsTo(acc, t, k)}
<1>1. SUFFICES ASSUME Bad # {} PROVE FALSE
  OBVIOUS
<1>2. PICK k \in Bad : k = Min(Bad) /\ \A x \in Bad : k <= x
  <2>1. Bad \subseteq Nat
    OBVIOUS
  <2> HIDE DEF Bad
  <2> QED BY <1>1, <2>1, Least
<1>3. k \in Nat /\ ~\E acc : SplitsTo(acc, t, k)
  OBVIOUS
<1>4. k # 0
  <2>1. SplitsTo([n \in 0..0 |-> NoWords], t, 0)
    BY DEF SplitsTo
  <2> QED BY <1>3, <2>1
<1>5. PICK j \in Nat : k = j + 1
  BY <1>3, <1>4
<1>6. j \notin Bad
  <2>1. ~(k <= j)
    BY <1>5
  <2> HIDE DEF Bad
  <2> QED BY <1>2, <2>1
<1>7. PICK old : SplitsTo(old, t, j)
  BY <1>6
<1>8. PICK new : new = [n \in 0..k |-> IF n = k THEN Taken(old[j], t[k]) ELSE old[n]]
  OBVIOUS
<1>9. ASSUME NEW n \in 0..k PROVE new[n] = IF n = 0 THEN NoWords ELSE Taken(new[n - 1], t[n])
  <2>1. CASE n = k
    <3>1. n - 1 = j /\ j \in 0..k /\ j # k
      BY <1>5, <2>1
    <3>2. new[j] = old[j] /\ new[n] = Taken(old[j], t[n])
      BY <1>8, <2>1, <3>1
    <3> QED BY <1>4, <2>1, <3>1, <3>2
  <2>2. CASE n # k
    <3>1. n \in 0..j /\ new[n] = old[n]
      BY <1>5, <1>8, <2>2
    <3>2. old[n] = IF n = 0 THEN NoWords ELSE Taken(old[n - 1], t[n])
      BY <1>7, <3>1 DEF SplitsTo
    <3>3. n # 0 => new[n - 1] = old[n - 1]
      BY <1>5, <1>8, <3>1
    <3> QED BY <3>1, <3>2, <3>3
  <2> QED BY <2>1, <2>2
<1>10. SplitsTo(new, t, k)
  BY <1>8, <1>9 DEF SplitsTo
<1> QED BY <1>3, <1>10

LEMMA SplitIs ==
  ASSUME NEW L, NEW s, _trim(s) \in Seq(L)
  PROVE  \E acc : /\ _parseCommandLine(s) = acc[Len(_trim(s))].words
                  /\ acc[0] = NoWords
                  /\ \A n \in 1..Len(_trim(s)) : acc[n] = Taken(acc[n - 1], _trim(s)[n])
<1>1. PICK t : t = _trim(s)
  OBVIOUS
<1>2. PICK m \in Nat : m = Len(t)
  BY <1>1, PositionsAre
<1> DEFINE acc == CHOOSE acc : SplitsTo(acc, t, m)
<1>3. SplitsTo(acc, t, m)
  BY SplitExists
<1>4. _parseCommandLine(s) = acc[m].words
  BY <1>1, <1>2 DEF _parseCommandLine, SplitsTo, NoWords
<1> HIDE DEF acc
<1>5. acc[0] = NoWords
  BY <1>3 DEF SplitsTo
<1>6. ASSUME NEW n \in 1..m PROVE acc[n] = Taken(acc[n - 1], t[n])
  BY <1>3, <1>6 DEF SplitsTo
<1> QED BY <1>1, <1>2, <1>4, <1>5, <1>6

(* The trimmed line goes from the first letter that is not blank to the    *)
(* last one.                                                               *)
LEMMA TrimIs ==
  ASSUME NEW L, NEW s \in Seq(L)
  PROVE  /\ _trim(s) \in Seq(L)
         /\ NotBlank(s) = {} => _trim(s) = <<>>
         /\ NotBlank(s) # {} =>
              \E d \in Nat, e \in Nat :
                /\ d + 1 = Min(NotBlank(s)) /\ e = Max(NotBlank(s)) /\ d < e /\ e <= Len(s)
                /\ d + 1 \in NotBlank(s) /\ e \in NotBlank(s)
                /\ \A i \in NotBlank(s) : d < i /\ i <= e
                /\ Len(_trim(s)) = e - d /\ \A j \in 1..(e - d) : _trim(s)[j] = s[d + j]
<1>1. PICK l \in Seq(L) : l = _ltrim(s)
  BY LtrimIs
<1>2. PICK t \in Seq(L) : t = _trim(s) /\ t = _rtrim(l)
  BY <1>1, RtrimIs DEF _trim
<1>3. CASE NotBlank(s) = {}
  <2>1. l = <<>>
    BY <1>1, <1>3, LtrimIs
  <2>2. NotBlank(l) = {}
    BY <2>1 DEF NotBlank
  <2> QED BY <1>1, <1>2, <1>3, <2>2, RtrimIs
<1>4. CASE NotBlank(s) # {}
  <2>0. PICK n \in Nat : n = Len(s)
    BY NotBlankAre
  <2>1. PICK d \in Nat : d + 1 = Min(NotBlank(s)) /\ Behind(l, s, d)
    BY <1>1, <1>4, LtrimIs
  <2>2. d <= n /\ Len(l) = n - d /\ \A j \in 1..(n - d) : l[j] = s[d + j]
    BY <2>0, <2>1 DEF Behind
  <2>3. PICK e \in NotBlank(s) : e = Max(NotBlank(s)) /\ \A i \in NotBlank(s) : i <= e
    BY <1>4, NotBlankAre, Greatest
  <2>4. d + 1 \in NotBlank(s) /\ \A i \in NotBlank(s) : d + 1 <= i
    BY <1>4, <2>1, NotBlankAre, Least
  <2>5. e \in 1..n /\ d + 1 <= e
    BY <2>0, <2>3, <2>4, NotBlankAre
  <2>6. NotBlank(s) = {i \in 1..n : s[i] \notin WHITESPACE}
    BY <2>0, NotBlankAre
  <2>7. NotBlank(l) = {j \in 1..(n - d) : l[j] \notin WHITESPACE}
    BY <2>2, NotBlankAre
  <2>8. PICK q \in Nat : q = e - d /\ q >= 1 /\ q <= n - d /\ d + q = e
    BY <2>5
  <2>9. q \in NotBlank(l)
    <3>1. q \in 1..(n - d) /\ l[q] = s[e]
      BY <2>2, <2>5, <2>8
    <3> QED BY <2>3, <2>6, <2>7, <3>1
  <2>10. ASSUME NEW j \in NotBlank(l) PROVE j \in Nat /\ j <= q
    <3>1. j \in 1..(n - d) /\ s[d + j] \notin WHITESPACE
      BY <2>2, <2>7
    <3>2. d + j \in 1..n
      BY <2>2, <3>1
    <3>3. d + j <= e
      BY <2>3, <2>6, <3>1, <3>2
    <3> QED BY <2>5, <2>8, <3>1, <3>3
  <2>11. Max(NotBlank(l)) = q
    <3>1. NotBlank(l) \subseteq Nat
      BY <2>10
    <3> QED BY <2>9, <2>10, <3>1, MaxIs
  <2>12. Len(t) = q /\ Begins(t, l)
    BY <1>2, <2>9, <2>11, RtrimIs
  <2>13. \A j \in 1..q : t[j] = s[d + j]
    <3>1. ASSUME NEW j \in 1..q PROVE t[j] = s[d + j]
      <4>1. j \in 1..(n - d)
        BY <2>2, <2>8
      <4>2. t[j] = l[j]
        BY <2>12 DEF Begins
      <4> QED BY <2>2, <4>1, <4>2
    <3> QED BY <3>1
  <2>14. d < e /\ e <= n /\ \A i \in NotBlank(s) : d < i /\ i <= e
    <3>1. \A i \in NotBlank(s) : i \in Nat /\ d + 1 <= i /\ i <= e
      BY <2>3, <2>4, NotBlankAre
    <3> QED BY <2>5, <3>1
  <2>15. e \in Nat /\ q = e - d
    BY <2>5, <2>8
  <2> QED BY <1>2, <1>4, <2>0, <2>1, <2>3, <2>4, <2>12, <2>13, <2>14, <2>15
<1> QED BY <1>3, <1>4

(* Where the words of a line start: full are the places of their letters   *)
Firsts(full) == {i \in full : i - 1 \notin full}

FirstsTo(full, n) == {i \in Firsts(full) : i <= n}

Rank(full, i) == Cardinality(FirstsTo(full, i))

LEMMA FirstsCount ==
  ASSUME NEW N \in Nat, NEW full, full \subseteq 1..N, NEW n \in Nat
  PROVE  /\ IsFiniteSet(FirstsTo(full, n)) /\ Cardinality(FirstsTo(full, n)) \in Nat
         /\ \A i \in FirstsTo(full, n) :
              Rank(full, i) \in Nat /\ 1 <= Rank(full, i)
              /\ Rank(full, i) <= Cardinality(FirstsTo(full, n))
<1>1. IsFiniteSet(full)
  <2>1. full \in SUBSET (1..N) /\ 1 \in Int /\ N \in Int
    OBVIOUS
  <2> QED BY <2>1, FS_Interval, FS_Subset
<1>2. \A m : IsFiniteSet(FirstsTo(full, m)) /\ Cardinality(FirstsTo(full, m)) \in Nat
  <2>1. \A m : FirstsTo(full, m) \subseteq full
    BY DEF FirstsTo, Firsts
  <2> QED BY <1>1, <2>1, FS_Subset, FS_CardinalityType
<1>3. ASSUME NEW i \in FirstsTo(full, n)
      PROVE  Rank(full, i) \in Nat /\ 1 <= Rank(full, i)
             /\ Rank(full, i) <= Cardinality(FirstsTo(full, n))
  <2>1. i \in Nat /\ i <= n /\ full \subseteq Nat
    BY DEF FirstsTo, Firsts
  <2>2. FirstsTo(full, i) \subseteq FirstsTo(full, n)
    <3>1. \A x \in Firsts(full) : x \in Nat
      BY <2>1 DEF Firsts
    <3>2. \A x \in Firsts(full) : x <= i => x <= n
      BY <2>1, <3>1
    <3> QED BY <3>2 DEF FirstsTo
  <2>3. i \in FirstsTo(full, i)
    BY <2>1 DEF FirstsTo
  <2>4. Cardinality(FirstsTo(full, i)) # 0
    BY <1>2, <2>3, FS_EmptySet
  <2>5. Cardinality(FirstsTo(full, i)) <= Cardinality(FirstsTo(full, n))
    BY <1>2, <2>2, FS_Subset
  <2> QED BY <1>2, <2>4, <2>5 DEF Rank
<1> QED BY <1>2, <1>3

LEMMA RankGrows ==
  ASSUME NEW N \in Nat, NEW full, full \subseteq 1..N,
         NEW i \in Firsts(full), NEW j \in Firsts(full), i < j
  PROVE  Rank(full, i) < Rank(full, j)
<1>1. i \in Nat /\ j \in Nat /\ full \subseteq Nat
  BY DEF Firsts
<1>2. /\ IsFiniteSet(FirstsTo(full, j)) /\ Cardinality(FirstsTo(full, j)) \in Nat
      /\ Cardinality(FirstsTo(full, i)) \in Nat
  BY <1>1, FirstsCount
<1>3. FirstsTo(full, i) \subseteq FirstsTo(full, j) /\ j \in FirstsTo(full, j)
      /\ j \notin FirstsTo(full, i)
  <2>1. \A x \in Firsts(full) : x \in Nat
    BY <1>1 DEF Firsts
  <2>2. \A x \in Firsts(full) : x <= i => x <= j
    BY <1>1, <2>1
  <2>3. j <= j /\ ~(j <= i)
    BY <1>1
  <2> QED BY <2>2, <2>3 DEF FirstsTo
<1>4. Cardinality(FirstsTo(full, i)) <= Cardinality(FirstsTo(full, j))
      /\ Cardinality(FirstsTo(full, i)) # Cardinality(FirstsTo(full, j))
  BY <1>2, <1>3, FS_Subset
<1> QED BY <1>2, <1>4 DEF Rank

(* A word, or as much of it as there is among the first n letters          *)
Word(full, i, j, n) ==
  i \in Firsts(full) /\ j \in i..n /\ i..j \subseteq full /\ (j = n \/ j + 1 \notin full)

(* What the loop has, after n letters of s                                 *)
SplitAt(L, full, s, n, a) ==
  /\ a = [in |-> n \in full, words |-> a.words]
  /\ a.words \in Seq(Seq(L)) /\ Len(a.words) = Cardinality(FirstsTo(full, n))
  /\ n \in full => \E i : Word(full, i, n, n)
  /\ \A i, j : Word(full, i, j, n) => a.words[Rank(full, i)] = SubSeq(s, i, j)

LEMMA SplitBlank ==
  ASSUME NEW L, NEW s \in Seq(L), NEW full, full \subseteq 1..Len(s),
         NEW n \in Nat, NEW a, SplitAt(L, full, s, n, a), n + 1 \notin full,
         NEW c \in WHITESPACE
  PROVE  SplitAt(L, full, s, n + 1, Taken(a, c))
<1>1. PICK w : w = a.words
  OBVIOUS
<1>2. a = [in |-> n \in full, words |-> w]
  BY <1>1 DEF SplitAt
<1>3. Taken(a, c) = [in |-> FALSE, words |-> w]
  BY <1>2 DEF Taken
<1>4. FirstsTo(full, n + 1) = FirstsTo(full, n)
  <2>1. \A i \in Firsts(full) : i \in Nat /\ i # n + 1
    BY DEF Firsts
  <2>2. \A i \in Firsts(full) : i <= n + 1 <=> i <= n
    BY <2>1
  <2> QED BY <2>2 DEF FirstsTo
<1>5. ASSUME NEW i, NEW j, Word(full, i, j, n + 1) PROVE Word(full, i, j, n)
  <2>1. i \in Nat /\ j \in i..(n + 1) /\ j \in full
    BY <1>5 DEF Word, Firsts
  <2>2. j # n + 1
    BY <2>1
  <2> QED BY <1>5, <2>1, <2>2 DEF Word
<1>6. Taken(a, c) = [in |-> n + 1 \in full, words |-> Taken(a, c).words] /\ Taken(a, c).words = w
  <2>1. (n + 1 \in full) = FALSE /\ Taken(a, c).words = w
    BY <1>3
  <2> QED BY <1>3, <2>1
<1> QED BY <1>1, <1>4, <1>5, <1>6 DEF SplitAt

LEMMA SplitFirst ==
  ASSUME NEW L, NEW s \in Seq(L), NEW full, full \subseteq 1..Len(s),
         NEW n \in Nat, NEW a, SplitAt(L, full, s, n, a), n + 1 \in full, n \notin full,
         s[n + 1] \notin WHITESPACE
  PROVE  SplitAt(L, full, s, n + 1, Taken(a, s[n + 1]))
<1>1. PICK w : w = a.words
  OBVIOUS
<1>2. /\ a = [in |-> FALSE, words |-> w] /\ w \in Seq(Seq(L))
      /\ Len(w) = Cardinality(FirstsTo(full, n))
      /\ \A i, j : Word(full, i, j, n) => w[Rank(full, i)] = SubSeq(s, i, j)
  <2>1. (n \in full) = FALSE
    OBVIOUS
  <2> QED BY <1>1, <2>1 DEF SplitAt
<1>3. Taken(a, s[n + 1]) = [in |-> TRUE, words |-> Append(w, <<s[n + 1]>>)]
  BY <1>2 DEF Taken
<1>4. n + 1 \in Firsts(full) /\ n + 1 \in 1..Len(s) /\ s[n + 1] \in L
  BY ElementOfSeq DEF Firsts
<1>5. FirstsTo(full, n + 1) = FirstsTo(full, n) \cup {n + 1} /\ n + 1 \notin FirstsTo(full, n)
  <2>1. \A i \in Firsts(full) : i \in Nat
    BY DEF Firsts
  <2>2. \A i \in Firsts(full) : i <= n + 1 <=> i <= n \/ i = n + 1
    BY <2>1
  <2>3. ~(n + 1 <= n)
    OBVIOUS
  <2> QED BY <1>4, <2>2, <2>3 DEF FirstsTo
<1>6. PICK m \in Nat : /\ m = Len(w) /\ Cardinality(FirstsTo(full, n + 1)) = m + 1
                       /\ Rank(full, n + 1) = m + 1
                       /\ \A i \in FirstsTo(full, n) : Rank(full, i) \in 1..m
  <2>1. Len(s) \in Nat
    BY PositionsAre
  <2>2. /\ IsFiniteSet(FirstsTo(full, n)) /\ Cardinality(FirstsTo(full, n)) \in Nat
        /\ \A i \in FirstsTo(full, n) :
             Rank(full, i) \in Nat /\ 1 <= Rank(full, i)
             /\ Rank(full, i) <= Cardinality(FirstsTo(full, n))
    BY <2>1, FirstsCount
  <2>3. Cardinality(FirstsTo(full, n + 1)) = Cardinality(FirstsTo(full, n)) + 1
    BY <1>5, <2>2, FS_AddElement
  <2> QED BY <1>2, <2>2, <2>3 DEF Rank
<1>7. PICK v : v = Append(w, <<s[n + 1]>>)
  OBVIOUS
<1>8. /\ v \in Seq(Seq(L)) /\ Len(v) = m + 1 /\ v[m + 1] = <<s[n + 1]>>
      /\ \A k \in 1..m : v[k] = w[k]
  <2>1. <<s[n + 1]>> \in Seq(L)
    BY <1>4
  <2> QED BY <1>2, <1>6, <1>7, <2>1, AppendProperties
<1>9. ASSUME NEW i, NEW j, Word(full, i, j, n + 1) PROVE v[Rank(full, i)] = SubSeq(s, i, j)
  <2>1. i \in Firsts(full) /\ i \in Nat /\ i >= 1 /\ j \in Nat /\ i <= j /\ j <= n + 1
        /\ i..j \subseteq full /\ (j = n + 1 \/ j + 1 \notin full)
    BY <1>9 DEF Word, Firsts
  <2>2. CASE i = n + 1
    <3>1. j = n + 1
      BY <2>1, <2>2
    <3>2. PICK u : u = SubSeq(s, n + 1, n + 1)
      OBVIOUS
    <3>3. u \in Seq(L) /\ Len(u) = 1 /\ u[1] = s[n + 1]
      <4>1. n + 1 \in Nat /\ n + 1 >= 1 /\ n + 1 <= Len(s) /\ Len(s) \in Nat
        BY <1>4, PositionsAre
      <4>2. /\ u \in Seq(L) /\ Len(u) = (n + 1) - (n + 1) + 1
            /\ \A k \in 1..Len(u) : u[k] = s[(n + 1) + k - 1]
        BY <3>2, <4>1, PartIs
      <4>3. (n + 1) - (n + 1) + 1 = 1 /\ (n + 1) + 1 - 1 = n + 1
        OBVIOUS
      <4>4. Len(u) = 1 /\ 1 \in 1..Len(u)
        BY <4>2, <4>3
      <4>5. u[1] = s[(n + 1) + 1 - 1]
        BY <4>2, <4>4
      <4>6. u[1] = s[n + 1]
        BY <4>3, <4>5
      <4> QED BY <4>2, <4>4, <4>6
    <3>4. u = <<s[n + 1]>>
      BY <3>3
    <3> QED BY <1>6, <1>8, <2>2, <3>1, <3>2, <3>4
  <2>3. CASE i # n + 1
    <3>1. i <= n
      BY <2>1, <2>3
    <3>2. n \notin i..j
      BY <2>1
    <3>3. j < n
      BY <2>1, <3>1, <3>2
    <3>4. Word(full, i, j, n)
      BY <2>1, <3>3 DEF Word
    <3>5. i \in FirstsTo(full, n)
      BY <2>1, <3>1 DEF FirstsTo
    <3> QED BY <1>2, <1>6, <1>8, <3>4, <3>5
  <2> QED BY <2>2, <2>3
<1>10. Word(full, n + 1, n + 1, n + 1)
  BY <1>4 DEF Word
<1>11. (n + 1 \in full) = TRUE /\ Taken(a, s[n + 1]).words = v
  BY <1>3, <1>7
<1>12. Taken(a, s[n + 1]) = [in |-> n + 1 \in full, words |-> Taken(a, s[n + 1]).words]
  BY <1>3, <1>7, <1>11
<1> QED BY <1>6, <1>8, <1>9, <1>10, <1>11, <1>12 DEF SplitAt

LEMMA SplitNext ==
  ASSUME NEW L, NEW s \in Seq(L), NEW full, full \subseteq 1..Len(s),
         NEW n \in Nat, NEW a, SplitAt(L, full, s, n, a), n + 1 \in full, n \in full,
         s[n + 1] \notin WHITESPACE
  PROVE  SplitAt(L, full, s, n + 1, Taken(a, s[n + 1]))
<1>1. PICK w : w = a.words
  OBVIOUS
<1>2. /\ a = [in |-> TRUE, words |-> w] /\ w \in Seq(Seq(L))
      /\ Len(w) = Cardinality(FirstsTo(full, n))
      /\ \A i, j : Word(full, i, j, n) => w[Rank(full, i)] = SubSeq(s, i, j)
      /\ \E i : Word(full, i, n, n)
  <2>1. (n \in full) = TRUE
    OBVIOUS
  <2> QED BY <1>1, <2>1 DEF SplitAt
<1>3. Taken(a, s[n + 1]) =
        [in |-> TRUE, words |-> Front(w) \o <<Append(Last(w), s[n + 1])>>]
  BY <1>2 DEF Taken
<1>4. n + 1 \notin Firsts(full) /\ n + 1 \in 1..Len(s) /\ n \in 1..Len(s) /\ s[n + 1] \in L
      /\ Len(s) \in Nat
  BY ElementOfSeq, PositionsAre DEF Firsts
<1>5. FirstsTo(full, n + 1) = FirstsTo(full, n)
  <2>1. \A i \in Firsts(full) : i \in Nat /\ i # n + 1
    BY <1>4 DEF Firsts
  <2>2. \A i \in Firsts(full) : i <= n + 1 <=> i <= n
    BY <2>1
  <2> QED BY <2>2 DEF FirstsTo
<1>6. PICK b : Word(full, b, n, n)
  BY <1>2
<1>7. b \in Firsts(full) /\ b \in Nat /\ b >= 1 /\ b <= n /\ b..n \subseteq full
  BY <1>6 DEF Word, Firsts
<1>8. FirstsTo(full, n) = FirstsTo(full, b)
  <2>1. ASSUME NEW i \in Firsts(full), i <= n PROVE i <= b
    <3>1. i \in Nat /\ i - 1 \notin full
      BY DEF Firsts
    <3>2. i - 1 \notin b..n
      BY <1>7, <3>1
    <3> QED BY <1>7, <2>1, <3>1, <3>2
  <2>2. \A i \in Firsts(full) : i \in Nat
    BY DEF Firsts
  <2>3. \A i \in Firsts(full) : i <= n <=> i <= b
    BY <1>7, <2>1, <2>2
  <2> QED BY <2>3 DEF FirstsTo
<1>9. PICK m \in Nat : /\ m = Len(w) /\ Rank(full, b) = m /\ m >= 1
                       /\ \A i \in FirstsTo(full, n) : Rank(full, i) \in 1..m
  <2>1. /\ Cardinality(FirstsTo(full, n)) \in Nat
        /\ \A i \in FirstsTo(full, n) :
             Rank(full, i) \in Nat /\ 1 <= Rank(full, i)
             /\ Rank(full, i) <= Cardinality(FirstsTo(full, n))
    BY <1>4, FirstsCount
  <2>2. b \in FirstsTo(full, n)
    BY <1>7 DEF FirstsTo
  <2>3. Rank(full, b) = Cardinality(FirstsTo(full, n))
    BY <1>8 DEF Rank
  <2> QED BY <1>2, <2>1, <2>2, <2>3
<1>10. PICK u : u = Append(Last(w), s[n + 1])
  OBVIOUS
<1>11. u = SubSeq(s, b, n + 1) /\ u \in Seq(L)
  <2>1. Last(w) = SubSeq(s, b, n)
    BY <1>2, <1>6, <1>9 DEF Last
  <2>2. PICK x, y : x = SubSeq(s, b, n) /\ y = SubSeq(s, b, n + 1)
    OBVIOUS
  <2>3. /\ x \in Seq(L) /\ Len(x) = n - b + 1
        /\ \A k \in 1..Len(x) : x[k] = s[b + k - 1]
    BY <1>4, <1>7, <2>2, PartIs
  <2>4. /\ y \in Seq(L) /\ Len(y) = (n + 1) - b + 1
        /\ \A k \in 1..Len(y) : y[k] = s[b + k - 1]
    <3>1. n + 1 \in Nat /\ n + 1 <= Len(s) /\ b <= n + 1
      BY <1>4, <1>7
    <3> QED BY <1>4, <1>7, <2>2, <3>1, PartIs
  <2>5. PICK l \in Nat : l = n - b + 1 /\ (n + 1) - b + 1 = l + 1 /\ b + (l + 1) - 1 = n + 1
    BY <1>7
  <2>6. u = Append(x, s[n + 1])
    BY <1>10, <2>1, <2>2
  <2>7. u \in Seq(L) /\ Len(u) = l + 1 /\ u[l + 1] = s[n + 1] /\ \A k \in 1..l : u[k] = x[k]
    BY <1>4, <2>3, <2>5, <2>6, AppendProperties
  <2>8. Len(y) = l + 1 /\ y[l + 1] = s[n + 1] /\ \A k \in 1..l : y[k] = x[k]
    <3>1. l + 1 \in 1..(l + 1) /\ \A k \in 1..l : k \in 1..(l + 1)
      BY <2>5
    <3> QED BY <2>3, <2>4, <2>5, <3>1
  <2>9. \A k \in 1..(l + 1) : u[k] = y[k]
    <3>1. \A k \in 1..(l + 1) : k \in 1..l \/ k = l + 1
      BY <2>5
    <3> QED BY <2>7, <2>8, <3>1
  <2> QED BY <2>2, <2>4, <2>7, <2>8, <2>9, SameLetters
<1>12. PICK v : v = Front(w) \o <<u>>
  OBVIOUS
<1>13. /\ v \in Seq(Seq(L)) /\ Len(v) = m /\ v[m] = u
       /\ \A k \in 1..m : k # m => v[k] = w[k]
  <2>0. PICK p \in Nat : p = m - 1 /\ p + 1 = m
    BY <1>9
  <2>1. PICK f : f = Front(w)
    OBVIOUS
  <2>2. f = SubSeq(w, 1, p) /\ p <= Len(w)
    BY <1>9, <2>0, <2>1 DEF Front
  <2>3. f \in Seq(Seq(L)) /\ Len(f) = p /\ \A k \in 1..p : f[k] = w[k]
    <3>1. p \in 0..Len(w)
      BY <1>9, <2>0
    <3>2. f \in Seq(Seq(L)) /\ Len(f) = p /\ Begins(f, w)
      BY <1>2, <2>2, <3>1, BeginIs
    <3> QED BY <3>2 DEF Begins
  <2>4. v = Append(f, u)
    BY <1>11, <1>12, <2>1, <2>3, AppendIsConcat
  <2>5. v \in Seq(Seq(L)) /\ Len(v) = p + 1 /\ v[p + 1] = u /\ \A k \in 1..p : v[k] = f[k]
    <3>1. PICK T : T = Seq(L)
      OBVIOUS
    <3>2. u \in T /\ f \in Seq(T)
      BY <1>11, <2>3, <3>1
    <3>3. v \in Seq(T) /\ Len(v) = Len(f) + 1 /\ v[Len(f) + 1] = u /\ \A k \in 1..Len(f) : v[k] = f[k]
      BY <2>4, <3>2, AppendProperties
    <3> QED BY <2>3, <3>1, <3>3
  <2>6. \A k \in 1..m : k # m => k \in 1..p
    BY <2>0
  <2> QED BY <2>0, <2>3, <2>5, <2>6
<1>14. ASSUME NEW i, NEW j, Word(full, i, j, n + 1) PROVE v[Rank(full, i)] = SubSeq(s, i, j)
  <2>1. i \in Firsts(full) /\ i \in Nat /\ i >= 1 /\ j \in Nat /\ i <= j /\ j <= n + 1
        /\ i..j \subseteq full /\ (j = n + 1 \/ j + 1 \notin full)
    BY <1>14 DEF Word, Firsts
  <2>2. i <= n
    BY <1>4, <2>1
  <2>3. i \in FirstsTo(full, n)
    BY <2>1, <2>2 DEF FirstsTo
  <2>4. CASE j = n + 1
    <3>1. Word(full, i, n, n)
      <4>1. n \in i..n /\ i..n \subseteq full
        BY <2>1, <2>2, <2>4
      <4> QED BY <2>1, <4>1 DEF Word
    <3>2. i = b
      <4>1. i - 1 \notin full /\ b - 1 \notin full /\ i..n \subseteq full
        BY <1>7, <2>1, <3>1 DEF Firsts, Word
      <4>2. i - 1 \notin b..n /\ b - 1 \notin i..n
        BY <1>7, <4>1
      <4> QED BY <1>7, <2>1, <2>2, <4>2
    <3> QED BY <1>9, <1>11, <1>13, <2>4, <3>2
  <2>5. CASE j # n + 1
    <3>1. j < n
      <4>1. j # n
        BY <2>1, <2>5
      <4> QED BY <2>1, <2>5, <4>1
    <3>2. Word(full, i, j, n)
      BY <2>1, <3>1 DEF Word
    <3>3. i < b
      <4>1. j + 1 \notin b..n
        BY <1>7, <2>1, <2>5
      <4> QED BY <1>7, <2>1, <3>1, <4>1
    <3>4. Rank(full, i) < Rank(full, b)
      BY <1>4, <1>7, <2>1, <3>3, RankGrows
    <3>5. Rank(full, i) \in 1..m /\ Rank(full, i) # m
      BY <1>9, <2>3, <3>4
    <3> QED BY <1>2, <1>13, <3>2, <3>5
  <2> QED BY <2>4, <2>5
<1>15. Word(full, b, n + 1, n + 1)
  <2>1. n + 1 \in b..(n + 1) /\ \A k \in b..(n + 1) : k \in b..n \/ k = n + 1
    BY <1>7
  <2> QED BY <1>7, <2>1 DEF Word
<1>16. (n + 1 \in full) = TRUE /\ Taken(a, s[n + 1]).words = v
  BY <1>3, <1>10, <1>12
<1>17. Taken(a, s[n + 1]) = [in |-> n + 1 \in full, words |-> Taken(a, s[n + 1]).words]
  BY <1>3, <1>10, <1>12, <1>16
<1> QED BY <1>2, <1>5, <1>9, <1>13, <1>14, <1>15, <1>16, <1>17 DEF SplitAt

(* All the words of a line                                                 *)
LEMMA SplitAll ==
  ASSUME NEW L, NEW s \in Seq(L)
  PROVE  LET full == NotBlank(s)
             w == _parseCommandLine(s)
         IN  /\ Len(w) = Cardinality(Firsts(full)) /\ w \in Seq(Seq(L))
             /\ \A i \in Firsts(full), j \in full :
                  i <= j /\ i..j \subseteq full /\ j + 1 \notin full
                  => w[Rank(full, i)] = SubSeq(s, i, j)
<1>0. PICK N, t, full : N \in Nat /\ N = Len(s) /\ t = _trim(s) /\ full = NotBlank(s)
  BY NotBlankAre
<1>1. t \in Seq(L) /\ full = {i \in 1..N : s[i] \notin WHITESPACE} /\ full \subseteq 1..N
  BY <1>0, TrimIs, NotBlankAre
<1>2. PICK acc : /\ _parseCommandLine(s) = acc[Len(t)].words /\ acc[0] = NoWords
                 /\ \A n \in 1..Len(t) : acc[n] = Taken(acc[n - 1], t[n])
  BY <1>0, <1>1, SplitIs
<1>3. CASE full = {}
  <2>1. t = <<>> /\ Len(<<>>) = 0
    BY <1>0, <1>3, TrimIs, EmptySeq
  <2>2. _parseCommandLine(s) = <<>> /\ Len(<<>>) = 0
    BY <1>2, <2>1 DEF NoWords
  <2>3. Firsts(full) = {} /\ Cardinality({}) = 0
    BY <1>3, FS_EmptySet DEF Firsts
  <2> QED BY <1>0, <1>3, <2>2, <2>3, EmptySeq
<1>4. CASE full # {}
  <2>1. PICK d \in Nat, e \in Nat :
          /\ d < e /\ e <= N /\ d + 1 \in full /\ e \in full
          /\ \A i \in full : d < i /\ i <= e
          /\ Len(t) = e - d /\ \A j \in 1..(e - d) : t[j] = s[d + j]
    BY <1>0, <1>4, TrimIs
  <2> DEFINE Bad == {n \in 0..(e - d) : ~SplitAt(L, full, s, d + n, acc[n])}
  <2>2. Bad = {}
    <3>1. SUFFICES ASSUME Bad # {} PROVE FALSE
      OBVIOUS
    <3>2. PICK n \in Bad : \A x \in Bad : n <= x
      <4>1. Bad \subseteq Nat
        BY <2>1
      <4> HIDE DEF Bad
      <4> QED BY <3>1, <4>1, Least
    <3>3. n \in Nat /\ n <= e - d /\ ~SplitAt(L, full, s, d + n, acc[n])
      BY <2>1
    <3>4. n # 0
      <4>1. d \notin full /\ FirstsTo(full, d) = {}
        <5>1. \A i \in full : i \in Nat /\ d < i /\ ~(i <= d)
          BY <1>1, <2>1
        <5>2. ~(d < d)
          BY <2>1
        <5> QED BY <5>1, <5>2 DEF FirstsTo, Firsts
      <4>2. \A i, j : ~Word(full, i, j, d)
        <5>1. \A i \in full : i \in Nat /\ d < i
          BY <1>1, <2>1
        <5>2. \A i \in full : i..d = {}
          BY <5>1
        <5> QED BY <5>2 DEF Word, Firsts
      <4>3. SplitAt(L, full, s, d, acc[0])
        <5>1. acc[0] = [in |-> FALSE, words |-> <<>>] /\ (d \in full) = FALSE
          BY <1>2, <4>1 DEF NoWords
        <5>2. acc[0].words = <<>> /\ <<>> \in Seq(Seq(L)) /\ Len(<<>>) = 0
          BY <5>1, EmptySeq
        <5>3. Cardinality(FirstsTo(full, d)) = 0
          BY <4>1, FS_EmptySet
        <5> QED BY <4>1, <4>2, <5>1, <5>2, <5>3 DEF SplitAt
      <4>4. d + 0 = d
        BY <2>1
      <4> QED BY <3>3, <4>3, <4>4
    <3>5. PICK p \in Nat : n = p + 1
      BY <3>3, <3>4
    <3>6. SplitAt(L, full, s, d + p, acc[p])
      <4>1. p \notin Bad
        <5>1. ~(n <= p)
          BY <3>5
        <5> HIDE DEF Bad
        <5> QED BY <3>2, <5>1
      <4>2. p \in 0..(e - d)
        BY <2>1, <3>3, <3>5
      <4> QED BY <4>1, <4>2
    <3>7. PICK q \in Nat : q = d + p /\ q + 1 = d + n /\ q + 1 \in 1..N
      <4>1. d + n <= e /\ d + n = (d + p) + 1 /\ e <= N
        BY <1>0, <2>1, <3>3, <3>5
      <4> QED BY <1>0, <2>1, <3>5, <4>1
    <3>8. acc[n] = Taken(acc[p], s[q + 1])
      <4>1. n \in 1..(e - d) /\ n - 1 = p
        BY <2>1, <3>3, <3>5
      <4>2. t[n] = s[q + 1]
        BY <2>1, <3>7, <4>1
      <4> QED BY <1>2, <2>1, <4>1, <4>2
    <3>9. full \subseteq 1..Len(s) /\ (q + 1 \in full <=> s[q + 1] \notin WHITESPACE)
      BY <1>0, <1>1, <3>7
    <3>10. SplitAt(L, full, s, q + 1, acc[n])
      <4>1. SplitAt(L, full, s, q, acc[p])
        BY <3>6, <3>7
      <4>2. CASE q + 1 \notin full
        BY <3>8, <3>9, <4>1, <4>2, SplitBlank
      <4>3. CASE q + 1 \in full /\ q \notin full
        BY <3>8, <3>9, <4>1, <4>3, SplitFirst
      <4>4. CASE q + 1 \in full /\ q \in full
        BY <3>8, <3>9, <4>1, <4>4, SplitNext
      <4> QED BY <4>2, <4>3, <4>4
    <3> QED BY <3>3, <3>7, <3>10
  <2>3. PICK w : w = _parseCommandLine(s) /\ w = acc[e - d].words
    BY <1>2, <2>1
  <2>4. SplitAt(L, full, s, e, acc[e - d])
    <3>1. e - d \in 0..(e - d) /\ d + (e - d) = e
      BY <2>1
    <3> QED BY <2>2, <3>1
  <2>5. FirstsTo(full, e) = Firsts(full)
    BY <2>1 DEF FirstsTo, Firsts
  <2>6. ASSUME NEW i \in Firsts(full), NEW j \in full, i <= j, i..j \subseteq full, j + 1 \notin full
        PROVE  w[Rank(full, i)] = SubSeq(s, i, j)
    <3>1. i \in Nat /\ j \in Nat /\ j <= e
      BY <1>1, <2>1 DEF Firsts
    <3>2. Word(full, i, j, e)
      BY <2>6, <3>1 DEF Word
    <3> QED BY <2>3, <2>4, <3>2 DEF SplitAt
  <2> QED BY <1>0, <2>3, <2>4, <2>5, <2>6 DEF SplitAt
<1> QED BY <1>3, <1>4

(* The letters of a line but for a background sign at its end              *)
SignOf(part) ==
  {i \in DOMAIN part : part[i] = "&" /\ \A j \in (i + 1)..Len(part) : part[j] \in WHITESPACE}

LEMMA Blanks == \E b \in WHITESPACE : b = " " /\ "&" \notin WHITESPACE
  BY Zenon DEF WHITESPACE

(* Removing the sign leaves the other letters where they are.              *)
LEMMA RemovedIs ==
  ASSUME NEW L, NEW s \in Seq(L), NotBlank(s) # {}
  PROVE  LET r == _removeBackgroundSign(s)
             full == NotBlank(s) \ SignOf(s)
         IN  \E M : /\ s \in Seq(M) /\ r \in Seq(M) /\ NotBlank(r) = full
                    /\ \A i \in full : i <= Len(r) /\ i <= Len(s) /\ \A k \in 1..i : r[k] = s[k]
<1>1. PICK b \in WHITESPACE : b = " " /\ "&" \notin WHITESPACE
  BY Blanks
<1>2. PICK N, m : /\ N \in Nat /\ N = Len(s) /\ m = Max(NotBlank(s)) /\ m \in NotBlank(s)
                  /\ \A i \in NotBlank(s) : i <= m
  BY NotBlankAre, Greatest
<1>3. NotBlank(s) = {i \in 1..N : s[i] \notin WHITESPACE} /\ m \in 1..N
  BY <1>2, NotBlankAre
<1>4. PICK M : M = L \cup {b}
  OBVIOUS
<1>5. s \in Seq(M) /\ b \in M
  BY <1>4, SeqMonotonic
<1>6. SignOf(s) = IF s[m] = "&" THEN {m} ELSE {}
  <2>1. SignOf(s) = {i \in 1..N : s[i] = "&" /\ \A j \in (i + 1)..N : s[j] \in WHITESPACE}
    BY <1>2, LenProperties DEF SignOf
  <2>2. ASSUME NEW i \in SignOf(s) PROVE i = m /\ s[m] = "&"
    <3>1. i \in 1..N /\ s[i] = "&" /\ \A j \in (i + 1)..N : s[j] \in WHITESPACE
      BY <2>1
    <3>2. i \in NotBlank(s)
      BY <1>1, <1>3, <3>1
    <3>3. i <= m /\ m \notin (i + 1)..N
      BY <1>2, <1>3, <3>1, <3>2
    <3> QED BY <1>3, <3>1, <3>3
  <2>3. ASSUME s[m] = "&" PROVE m \in SignOf(s)
    <3>1. ASSUME NEW j \in (m + 1)..N PROVE s[j] \in WHITESPACE
      <4>1. j \in 1..N /\ ~(j <= m)
        BY <1>2, <1>3
      <4> QED BY <1>2, <1>3, <4>1
    <3> QED BY <1>3, <2>1, <2>3, <3>1
  <2> QED BY <2>2, <2>3
<1>7. CASE s[m] # "&"
  <2>1. _removeBackgroundSign(s) = s
    BY <1>2, <1>7 DEF _removeBackgroundSign, _isBackgroundCommand
  <2>2. NotBlank(s) \ SignOf(s) = NotBlank(s)
    BY <1>6, <1>7
  <2>3. \A i \in NotBlank(s) : i <= Len(s)
    BY <1>2, <1>3
  <2> QED BY <1>5, <2>1, <2>2, <2>3
<1>8. CASE s[m] = "&"
  <2>00. m - 1 \in Nat /\ (m - 1) + 1 = m
    <3>1. N \in Nat /\ m \in 1..N
      BY <1>2, <1>3
    <3> QED BY <3>1
  <2>0. PICK p \in Nat : p + 1 = m /\ p = m - 1
    BY <2>00
  <2>1. PICK q : p \in Nat /\ p + 1 = m /\ p = m - 1 /\ q = SubSeq(s, 1, p)
    BY <2>0
  <2>2. q \in Seq(M) /\ Len(q) = p /\ \A k \in 1..p : q[k] = s[k]
    <3>1. p \in 0..Len(s)
      BY <1>2, <1>3, <2>1
    <3>2. q \in Seq(M) /\ Len(q) = p /\ Begins(q, s)
      BY <1>5, <2>1, <3>1, BeginIs
    <3> QED BY <3>2 DEF Begins
  <2>3. PICK r : r = Append(q, b)
    OBVIOUS
  <2>4. _removeBackgroundSign(s) = q \o <<b>>
    BY <1>1, <1>2, <1>8, <2>1, Zenon DEF _removeBackgroundSign, _isBackgroundCommand
  <2>5. _removeBackgroundSign(s) = r
    BY <1>5, <2>2, <2>3, <2>4, AppendIsConcat
  <2>6. r \in Seq(M) /\ Len(r) = m /\ r[m] = b /\ \A k \in 1..p : r[k] = s[k]
    BY <1>5, <2>1, <2>2, <2>3, AppendProperties
  <2>7. NotBlank(r) = {i \in 1..m : r[i] \notin WHITESPACE}
    BY <2>6, NotBlankAre
  <2>8. \A i \in 1..m : i = m \/ i \in 1..p
    BY <2>1
  <2>9. \A i \in 1..p : i \in 1..m /\ i \in 1..N /\ i # m
    BY <1>2, <1>3, <2>1
  <2>10. \A i \in NotBlank(s) : i # m => i \in 1..p
    <3>1. ASSUME NEW i \in NotBlank(s), i # m PROVE i \in 1..p
      <4>1. i \in 1..N /\ i <= m
        BY <1>2, <1>3
      <4> QED BY <1>3, <2>1, <3>1, <4>1
    <3> QED BY <3>1
  <2>11. NotBlank(r) = NotBlank(s) \ {m}
    BY <1>1, <1>3, <2>6, <2>7, <2>8, <2>9, <2>10
  <2>12. ASSUME NEW i \in NotBlank(s) \ {m}
         PROVE  i <= Len(r) /\ i <= N /\ \A k \in 1..i : r[k] = s[k]
    <3>1. i \in 1..p
      BY <2>10
    <3>2. i <= m /\ i <= N /\ \A k \in 1..i : k \in 1..p
      BY <1>3, <2>1, <3>1
    <3> QED BY <2>6, <3>2
  <2> QED BY <1>2, <1>5, <1>6, <1>8, <2>5, <2>6, <2>11, <2>12
<1> QED BY <1>7, <1>8

(* The words of a line, by their number                                    *)
LastOf(full, i) == Max({j \in full : i..j \subseteq full})

Nth(full, k) == CHOOSE i \in Firsts(full) : Rank(full, i) = k

LEMMA NthIs ==
  ASSUME NEW N \in Nat, NEW full, full \subseteq 1..N, NEW k \in 1..Cardinality(Firsts(full))
  PROVE  Nth(full, k) \in Firsts(full) /\ Rank(full, Nth(full, k)) = k
<1>1. FirstsTo(full, N) = Firsts(full)
  <2>1. \A i \in Firsts(full) : i <= N
    BY DEF Firsts
  <2> QED BY <2>1 DEF FirstsTo
<1>2. PICK S, c : S = Firsts(full) /\ c = Cardinality(S)
  OBVIOUS
<1>3. /\ IsFiniteSet(S) /\ c \in Nat
      /\ \A i \in S : Rank(full, i) \in 1..c
  <2>1. /\ IsFiniteSet(FirstsTo(full, N)) /\ Cardinality(FirstsTo(full, N)) \in Nat
        /\ \A i \in FirstsTo(full, N) :
             Rank(full, i) \in Nat /\ 1 <= Rank(full, i)
             /\ Rank(full, i) <= Cardinality(FirstsTo(full, N))
    BY FirstsCount
  <2>2. /\ IsFiniteSet(S) /\ c \in Nat
        /\ \A i \in S : Rank(full, i) \in Nat /\ 1 <= Rank(full, i) /\ Rank(full, i) <= c
    BY <1>1, <1>2, <2>1
  <2> QED BY <2>2
<1>4. PICK f : f = [i \in S |-> Rank(full, i)]
  OBVIOUS
<1>5. f \in [S -> 1..c]
  BY <1>3, <1>4
<1>6. \A i, j \in S : i # j => f[i] # f[j]
  <2>1. \A i \in S : i \in Nat /\ f[i] = Rank(full, i) /\ f[i] \in Nat
    BY <1>2, <1>3, <1>4 DEF Firsts
  <2>2. ASSUME NEW i \in S, NEW j \in S, i < j PROVE f[i] < f[j]
    BY <1>2, <2>1, <2>2, RankGrows
  <2>3. ASSUME NEW i \in S, NEW j \in S, i # j PROVE f[i] # f[j]
    <3>1. i < j \/ j < i
      BY <2>1, <2>3
    <3>2. f[i] < f[j] \/ f[j] < f[i]
      BY <2>2, <3>1
    <3> QED BY <2>1, <3>2
  <2> QED BY <2>3
<1>7. f \in Injection(S, 1..c)
  BY <1>5, <1>6 DEF Injection, IsInjective
<1>8. IsFiniteSet(1..c) /\ Cardinality(1..c) = c
  BY <1>3, FS_Interval
<1>9. f \in Surjection(S, 1..c)
  BY <1>2, <1>7, <1>8, FS_Injection
<1>10. PICK i \in S : f[i] = k
  BY <1>2, <1>9 DEF Surjection
<1>11. \E x \in Firsts(full) : Rank(full, x) = k
  BY <1>2, <1>4, <1>10
<1> QED BY <1>11 DEF Nth

LEMMA LastIs ==
  ASSUME NEW N \in Nat, NEW full, full \subseteq 1..N, NEW i \in Firsts(full)
  PROVE  LET j == LastOf(full, i)
         IN  j \in full /\ i <= j /\ i..j \subseteq full /\ j + 1 \notin full
<1>1. PICK S : S = {j \in full : i..j \subseteq full}
  OBVIOUS
<1>2. i \in Nat /\ i \in full
  BY DEF Firsts
<1>3. i \in S
  <2>1. i..i \subseteq full
    BY <1>2
  <2> QED BY <1>1, <1>2, <2>1
<1>4. PICK j \in S : j = LastOf(full, i) /\ \A x \in S : x <= j
  <2>0. full \subseteq 0..N
    OBVIOUS
  <2>1. S \subseteq 0..N
    BY <1>1, <2>0
  <2>2. Max(S) \in S /\ \A x \in S : x <= Max(S)
    BY <1>3, <2>1, Greatest
  <2> QED BY <1>1, <2>2 DEF LastOf
<1>5. j \in full /\ j \in Nat /\ i <= j /\ i..j \subseteq full
  BY <1>1, <1>3, <1>4
<1>6. j + 1 \notin full
  <2>1. ASSUME j + 1 \in full PROVE FALSE
    <3>1. i..(j + 1) \subseteq full
      <4>1. \A x \in i..(j + 1) : x \in i..j \/ x = j + 1
        BY <1>2, <1>5
      <4> QED BY <1>5, <2>1, <4>1
    <3>2. j + 1 \in S
      BY <1>1, <2>1, <3>1
    <3>3. ~(j + 1 <= j)
      BY <1>5
    <3> QED BY <1>4, <3>2, <3>3
  <2> QED BY <2>1
<1> QED BY <1>4, <1>5, <1>6

(* The constructor of a command finds the words that stand on its line.    *)
LEMMA CutIs ==
  ASSUME NEW L, NEW s \in Seq(L)
  PROVE  Cut(s) \in Seq(L) /\ Begins(Cut(s), s)
         /\ \A i \in Nat : i <= Len(s) /\ i <= COMMAND_MAX_LENGTH => i <= Len(Cut(s))
<1>1. PICK S, n : S = {Len(s), COMMAND_MAX_LENGTH} /\ n = Min(S)
  OBVIOUS
<1>2. S \subseteq Nat /\ S # {}
  BY <1>1, PositionsAre, ShellAssumption
<1>3. n \in S /\ \A x \in S : n <= x
  BY <1>1, <1>2, Least
<1>4. n \in 0..Len(s)
  <2>1. n \in Nat /\ n <= Len(s) /\ n <= COMMAND_MAX_LENGTH /\ Len(s) \in Nat
    BY <1>1, <1>2, <1>3, PositionsAre
  <2> QED BY <2>1
<1>5. Cut(s) = SubSeq(s, 1, n)
  BY <1>1 DEF Cut
<1>6. Cut(s) \in Seq(L) /\ Len(Cut(s)) = n /\ Begins(Cut(s), s)
  BY <1>4, <1>5, BeginIs
<1>7. n = Len(s) \/ n = COMMAND_MAX_LENGTH
  BY <1>1, <1>3
<1> QED BY <1>6, <1>7

LEMMA WordsOfIs ==
  ASSUME NEW s
  PROVE  LET cut == Cut(s)
             full == NotBlank(cut) \ SignOf(cut)
         IN  WordsOf(s) = [k \in 1..Cardinality(Firsts(full)) |->
                             SubSeq(cut, Nth(full, k), LastOf(full, Nth(full, k)))]
  BY DEF WordsOf, Cut, SignOf, Firsts, FirstsTo, Rank, Nth, LastOf

LEMMA ArgsAreWords ==
  ASSUME NEW L, NEW s \in Seq(L), NotBlank(Cut(s)) # {}
  PROVE  args(s) = WordsOf(s)
<1>1. PICK cut, full, r, w :
        /\ cut = Cut(s) /\ full = NotBlank(cut) \ SignOf(cut) /\ r = _removeBackgroundSign(cut)
        /\ w = args(s)
  OBVIOUS
<1>2. cut \in Seq(L) /\ NotBlank(cut) # {}
  BY <1>1, CutIs
<1>3. PICK M : /\ cut \in Seq(M) /\ r \in Seq(M) /\ NotBlank(r) = full
               /\ \A i \in full : i <= Len(r) /\ i <= Len(cut) /\ \A k \in 1..i : r[k] = cut[k]
  BY <1>1, <1>2, RemovedIs
<1>4. PICK N \in Nat : N = Len(r) /\ full \subseteq 1..N
  BY <1>3, NotBlankAre
<1>5. /\ Len(w) = Cardinality(Firsts(full)) /\ w \in Seq(Seq(M))
      /\ \A i \in Firsts(full), j \in full :
           i <= j /\ i..j \subseteq full /\ j + 1 \notin full
           => w[Rank(full, i)] = SubSeq(r, i, j)
  <2>1. w = _parseCommandLine(r)
    BY <1>1 DEF args
  <2>2. PICK v : v = _parseCommandLine(r)
    OBVIOUS
  <2>3. /\ Len(v) = Cardinality(Firsts(NotBlank(r))) /\ v \in Seq(Seq(M))
        /\ \A i \in Firsts(NotBlank(r)), j \in NotBlank(r) :
             i <= j /\ i..j \subseteq NotBlank(r) /\ j + 1 \notin NotBlank(r)
             => v[Rank(NotBlank(r), i)] = SubSeq(r, i, j)
    BY <1>3, <2>2, SplitAll
  <2> QED BY <1>3, <2>1, <2>2, <2>3
<1>6. PICK c \in Nat : c = Cardinality(Firsts(full)) /\ c = Len(w)
  <2>1. Len(w) \in Nat
    BY <1>5, LenProperties
  <2> QED BY <1>5, <2>1
<1>7. ASSUME NEW k \in 1..c
      PROVE  w[k] = SubSeq(cut, Nth(full, k), LastOf(full, Nth(full, k)))
  <2>1. PICK i \in Firsts(full) : i = Nth(full, k) /\ Rank(full, i) = k
    BY <1>4, <1>6, NthIs
  <2>2. PICK j \in full :
          j = LastOf(full, i) /\ i <= j /\ i..j \subseteq full /\ j + 1 \notin full
    BY <1>4, LastIs
  <2>3. w[k] = SubSeq(r, i, j)
    BY <1>5, <2>1, <2>2
  <2>4. i \in Nat /\ i >= 1 /\ j \in Nat /\ j <= Len(r) /\ j <= Len(cut) /\ \A x \in 1..j : r[x] = cut[x]
    BY <1>3, <1>4, <2>1 DEF Firsts
  <2>5. PICK x, y : x = SubSeq(r, i, j) /\ y = SubSeq(cut, i, j)
    OBVIOUS
  <2>6. PICK l \in Nat : l = j - i + 1
    BY <2>2, <2>4
  <2>61. i \in Nat /\ i >= 1 /\ i <= j /\ j \in Nat /\ j <= Len(r) /\ j <= Len(cut)
    BY <2>2, <2>4
  <2>7. x \in Seq(M) /\ Len(x) = l /\ \A z \in 1..l : x[z] = r[i + z - 1]
    BY <1>3, <2>5, <2>6, <2>61, PartIs
  <2>8. y \in Seq(M) /\ Len(y) = l /\ \A z \in 1..l : y[z] = cut[i + z - 1]
    BY <1>3, <2>5, <2>6, <2>61, PartIs
  <2>9. \A z \in 1..l : i + z - 1 \in 1..j
    BY <2>2, <2>4, <2>6
  <2>10. \A z \in 1..l : x[z] = y[z]
    BY <2>4, <2>7, <2>8, <2>9
  <2>11. x = y
    BY <2>7, <2>8, <2>10, SameLetters
  <2> QED BY <2>1, <2>2, <2>3, <2>5, <2>11
<1>8. WordsOf(s) = [k \in 1..c |-> SubSeq(cut, Nth(full, k), LastOf(full, Nth(full, k)))]
  BY <1>1, <1>6, WordsOfIs
<1>9. w = [k \in 1..c |-> w[k]]
  BY <1>5, <1>6, LenProperties
<1> QED BY <1>1, <1>7, <1>8, <1>9

(* A part of a line that makes a constructor go astray, or no command      *)
LEMMA FaultsHarm ==
  ASSUME NEW L, NEW s \in Seq(L), IsNULL(s) \/ CommandFaults(s)
  PROVE  ~Harmless(s)
<1>1. CASE NotBlank(Cut(s)) = {}
  <2>1. PICK cut : cut = Cut(s) /\ cut \in Seq(L) /\ Begins(cut, s)
                   /\ \A i \in Nat : i <= Len(s) /\ i <= COMMAND_MAX_LENGTH => i <= Len(cut)
    BY CutIs
  <2>2. ASSUME NEW i \in DOMAIN s, i <= COMMAND_MAX_LENGTH PROVE s[i] \in WHITESPACE
    <3>1. i \in 1..Len(s) /\ Len(s) \in Nat /\ Len(cut) \in Nat
      BY <2>1, LenProperties
    <3>2. i \in 1..Len(cut)
      BY <2>1, <2>2, <3>1
    <3>3. cut[i] = s[i]
      BY <2>1, <3>2 DEF Begins
    <3> QED BY <1>1, <2>1, <3>2, <3>3, NotBlankAre
  <2> QED BY <2>2 DEF Harmless
<1>2. CASE NotBlank(Cut(s)) # {} /\ CommandFaults(s)
  BY <1>2, ArgsAreWords, ShellAssumption DEF CommandFaults, Harmless
<1>3. CASE NotBlank(Cut(s)) # {} /\ IsNULL(s)
  <2>1. _trim(s) = <<>>
    BY <1>3 DEF IsNULL
  <2>2. NotBlank(s) = {}
    <3>1. SUFFICES ASSUME NotBlank(s) # {} PROVE FALSE
      OBVIOUS
    <3>2. PICK d \in Nat, e \in Nat : d < e /\ Len(_trim(s)) = e - d
      BY <3>1, TrimIs
    <3>3. Len(_trim(s)) = 0
      BY <2>1, EmptySeq
    <3>4. e - d # 0
      BY <3>2
    <3> QED BY <3>2, <3>3, <3>4
  <2>3. \A i \in DOMAIN s : s[i] \in WHITESPACE
    BY <2>2 DEF NotBlank
  <2> QED BY <2>3 DEF Harmless
<1> QED BY <1>1, <1>2, <1>3

-----------------------------------------------------------------------------
(* What reaches the external command, and what the shell does not survive  *)

Parts ==
  /\ pc \in {"line", "ran"} => /\ nested => IsSpecial(typed)
                               /\ ~nested => todo = typed
  /\ pc = "line" /\ IsSpecial(todo) => \E i \in Starts(typed) : todo = After(typed, i)

PartsInv == Typed /\ Parts /\ RunAsTyped /\ FaultsOnlyBy

LEMMA PartsInit == Init => PartsInv
  BY TypedInit DEF Init, PartsInv, Parts, RunAsTyped, FaultsOnlyBy

(* The turn of the loop ends: nothing is said of the next one.             *)
LEMMA PartsReturn == Return => Parts' /\ RunAsTyped' /\ FaultsOnlyBy'
<1> SUFFICES ASSUME Return PROVE Parts' /\ RunAsTyped' /\ FaultsOnlyBy'
  OBVIOUS
<1>1. pc' \notin {"line", "ran", "fault"}
  BY DEF Return
<1> QED BY <1>1 DEF Parts, RunAsTyped, FaultsOnlyBy

(* A step that reads or executes nothing                                   *)
LEMMA PartsKept ==
  ASSUME Parts, RunAsTyped, FaultsOnlyBy, UNCHANGED <<pc, typed, todo, nested, ran>>
  PROVE  Parts' /\ RunAsTyped' /\ FaultsOnlyBy'
  BY DEF Parts, RunAsTyped, FaultsOnlyBy

(* A part of the line without a separator is the shell's own.              *)
LEMMA PlainIsOwn ==
  ASSUME Typed, pc \in {"line", "ran"}, ~IsSpecial(todo)
  PROVE  todo = Program(LastStage(typed)) /\ todo \in Seq(Alphabet)
  BY OwnOfPlain DEF Typed, Own

LEMMA PartsFault ==
  ASSUME Fault,
         \/ \E i \in Starts(typed) : ~Harmless(After(typed, i)) \/ ~Harmless(StageAt(typed, i))
         \/ ~Harmless(Program(LastStage(typed)))
  PROVE  Parts' /\ RunAsTyped' /\ FaultsOnlyBy'
<1>1. pc' = "fault" /\ typed' = typed
  BY DEF Fault, lineVars
<1>2. pc' \notin {"line", "ran"}
  BY <1>1
<1> QED BY <1>1, <1>2 DEF Parts, RunAsTyped, FaultsOnlyBy

LEMMA PartsCreate ==
  ASSUME Typed, Parts, CreateFaults
  PROVE  Parts' /\ RunAsTyped' /\ FaultsOnlyBy'
<1>1. pc = "line" /\ CommandFaults(todo) /\ Fault
  BY DEF CreateFaults
<1>2. ~Harmless(todo)
  BY <1>1, FaultsHarm DEF Typed
<1>3. CASE IsSpecial(todo)
  BY <1>1, <1>2, <1>3, PartsFault DEF Parts
<1>4. CASE ~IsSpecial(todo)
  BY <1>1, <1>2, <1>4, PlainIsOwn, PartsFault
<1> QED BY <1>3, <1>4

(* Both sides of a pipe are made of stages of the line.                    *)
LEMMA PartsPipe ==
  ASSUME Typed, Parts, PipeExecute
  PROVE  Parts' /\ RunAsTyped' /\ FaultsOnlyBy'
<1>1. PICK left, right :
        left = _isSpecialCommand(todo).left /\ right = _isSpecialCommand(todo).right
  OBVIOUS
<1>2. /\ pc = "line" /\ IsSpecial(todo) /\ _isSpecialCommand(todo).kind = "|"
      /\ \/ Return
         \/ (\E s \in {left, right} : IsNULL(s) \/ CommandFaults(s)) /\ Fault
         \/ Descend(right)
  BY <1>1 DEF PipeExecute
<1>3. Positions(todo, "|") # {} /\ typed \in Seq(Alphabet) /\ todo \in Seq(Alphabet)
  <2>1. "|" # ">"
    OBVIOUS
  <2> QED BY <1>2, <2>1 DEF _isSpecialCommand, Typed
<1>4. PICK i \in Starts(typed) : todo = After(typed, i)
  BY <1>2 DEF Parts
<1>5. i \in 0..Len(typed)
  <2>1. Len(typed) \in Nat /\ Positions(typed, "|") \subseteq 0..Len(typed)
    BY <1>3, PositionsAre
  <2> QED BY <2>1 DEF Starts
<1>6. /\ left = StageAt(typed, i) /\ left \in Seq(Alphabet) /\ right \in Seq(Alphabet)
      /\ \E p \in Positions(todo, "|") : right = After(todo, p)
  BY <1>1, <1>3, <1>4, OwnOfPipe DEF StageAt
<1>7. \E j \in Starts(typed) : right = After(typed, j)
  <2>1. PICK p \in Positions(todo, "|") : right = After(todo, p)
    BY <1>6
  <2>2. /\ EndOf(typed, i) + p \in Positions(typed, "|")
        /\ right = After(typed, EndOf(typed, i) + p)
    BY <1>3, <1>4, <1>5, <2>1, AfterOfAfter
  <2> QED BY <2>2 DEF Starts
<1>8. CASE (\E s \in {left, right} : IsNULL(s) \/ CommandFaults(s)) /\ Fault
  <2>1. ~Harmless(left) \/ ~Harmless(right)
    BY <1>6, <1>8, FaultsHarm
  <2> QED BY <1>6, <1>7, <1>8, <2>1, PartsFault
<1>9. CASE Descend(right)
  <2>1. pc' = "line" /\ typed' = typed /\ todo' = right /\ nested' = TRUE
    BY <1>2, <1>9 DEF Descend
  <2>2. IsSpecial(typed)
    BY <1>2 DEF Parts
  <2>3. Parts'
    BY <1>7, <2>1, <2>2 DEF Parts
  <2> QED BY <2>1, <2>3 DEF RunAsTyped, FaultsOnlyBy
<1> QED BY <1>2, <1>8, <1>9, PartsReturn

LEMMA PartsRedirection ==
  ASSUME Typed, Parts, RedirectionExecute
  PROVE  Parts' /\ RunAsTyped' /\ FaultsOnlyBy'
<1>1. PICK left : left = _isSpecialCommand(todo).left
  OBVIOUS
<1>2. /\ pc = "line" /\ IsSpecial(todo) /\ _isSpecialCommand(todo).kind = ">"
      /\ \/ Return
         \/ (IsNULL(left) \/ CommandFaults(left)) /\ Fault
         \/ Descend(left)
  BY <1>1 DEF RedirectionExecute
<1>3. left = Own(todo) /\ left \in Seq(Alphabet) /\ ~IsSpecial(left)
  BY <1>1, <1>2, OwnOfRedirection DEF Typed
<1>4. left = Program(LastStage(typed))
  BY <1>2, <1>3 DEF Typed, Own
<1>5. CASE (IsNULL(left) \/ CommandFaults(left)) /\ Fault
  BY <1>3, <1>4, <1>5, FaultsHarm, PartsFault
<1>6. CASE Descend(left)
  <2>1. pc' = "line" /\ typed' = typed /\ todo' = left /\ nested' = TRUE
    BY <1>2, <1>6 DEF Descend
  <2>2. IsSpecial(typed)
    BY <1>2 DEF Parts
  <2>3. Parts'
    BY <1>3, <2>1, <2>2 DEF Parts
  <2> QED BY <2>1, <2>3 DEF RunAsTyped, FaultsOnlyBy
<1> QED BY <1>2, <1>5, <1>6, PartsReturn

(* The sign is looked for on the line the shell itself executes.           *)
LEMMA LastOfTrim ==
  ASSUME NEW L, NEW s \in Seq(L), _trim(s) # <<>>
  PROVE  Last(_trim(s)) = s[Max(NotBlank(s))]
<1>1. NotBlank(s) # {}
  BY TrimIs
<1>2. PICK d \in Nat, e \in Nat :
        /\ e = Max(NotBlank(s)) /\ d < e
        /\ Len(_trim(s)) = e - d /\ \A j \in 1..(e - d) : _trim(s)[j] = s[d + j]
  BY <1>1, TrimIs
<1>3. e - d \in 1..(e - d) /\ d + (e - d) = e
  BY <1>2
<1> QED BY <1>2, <1>3 DEF Last

LEMMA PartsExternal ==
  ASSUME Typed, Parts, ExternalExecute
  PROVE  Parts' /\ RunAsTyped' /\ FaultsOnlyBy'
<1>1. /\ pc = "line" /\ ~IsSpecial(todo) /\ ~CommandFaults(todo) /\ ~IsNULL(todo)
      /\ pc' = "ran" /\ UNCHANGED <<typed, todo, nested>>
      /\ ran' = [args |-> args(todo), special |-> _hasSpecialCharacters(todo),
                 background |-> _isBackgroundCommand(todo) /\ ~nested]
  BY DEF ExternalExecute, Executing
<1>2. todo = Program(LastStage(typed)) /\ todo \in Seq(Alphabet)
  BY <1>1, PlainIsOwn
<1>3. args(todo) = WordsOf(todo)
  <2>1. NotBlank(Cut(todo)) # {}
    BY <1>1 DEF CommandFaults
  <2> QED BY <1>2, <2>1, ArgsAreWords
<1>4. Last(_trim(todo)) = todo[Max(NotBlank(todo))]
  <2>1. _trim(todo) # <<>>
    BY <1>1 DEF IsNULL
  <2> QED BY <1>2, <2>1, LastOfTrim
<1>5. _isBackgroundCommand(todo) <=> Last(_trim(todo)) = "&"
  BY <1>4 DEF _isBackgroundCommand
<1>6. ~nested <=> todo = typed
  BY <1>1 DEF Parts
<1>7. ran'.args = args(todo) /\ (ran'.background <=> _isBackgroundCommand(todo) /\ ~nested)
  BY <1>1
<1>8. RunAsTyped'
  <2>1. typed' = typed
    BY <1>1
  <2>2. PICK own : own = Program(LastStage(typed))
    OBVIOUS
  <2>3. own = todo /\ ran'.args = WordsOf(own)
    BY <1>2, <1>3, <1>7, <2>2
  <2>4. ran'.background <=> own = typed /\ Last(_trim(typed)) = "&"
    BY <1>5, <1>6, <1>7, <2>3
  <2> QED BY <2>1, <2>2, <2>3, <2>4 DEF RunAsTyped
<1>9. Parts'
  BY <1>1 DEF Parts
<1> QED BY <1>1, <1>8, <1>9 DEF FaultsOnlyBy

LEMMA PartsNext == PartsInv /\ [Next]_vars => PartsInv'
<1> SUFFICES ASSUME PartsInv, [Next]_vars PROVE PartsInv'
  OBVIOUS
<1>1. Typed /\ Parts /\ RunAsTyped /\ FaultsOnlyBy /\ Typed'
  BY TypedNext DEF PartsInv
<1> SUFFICES Parts' /\ RunAsTyped' /\ FaultsOnlyBy'
  BY <1>1 DEF PartsInv
<1>2. CASE ReadLine
  <2>1. pc' = "line" /\ todo' = typed' /\ nested' = FALSE
    BY <1>2 DEF ReadLine
  <2>2. After(typed', 0) = typed'
    <3>1. PICK s \in Seq(Alphabet) : s = typed'
      BY <1>1 DEF Typed
    <3>2. After(s, 0) = SubSeq(s, 1, Len(s)) /\ SubSeq(s, 1, Len(s)) = s
      BY SubSeqFull DEF After
    <3> QED BY <3>1, <3>2
  <2>3. 0 \in Starts(typed')
    BY DEF Starts
  <2>4. Parts'
    BY <2>1, <2>2, <2>3 DEF Parts
  <2> QED BY <2>1, <2>4 DEF RunAsTyped, FaultsOnlyBy
<1>3. CASE EmptyLine \/ ExternalDone \/ ChangePrompt \/ Prints \/ QuitCommand \/ ChangeDirCommand
  BY <1>3, PartsReturn DEF EmptyLine, ExternalDone, ChangePrompt, Prints, QuitCommand, ChangeDirCommand
<1>4. CASE CreateFaults
  BY <1>1, <1>4, PartsCreate
<1>5. CASE PipeExecute
  BY <1>1, <1>5, PartsPipe
<1>6. CASE RedirectionExecute
  BY <1>1, <1>6, PartsRedirection
<1>7. CASE ExternalExecute
  BY <1>1, <1>7, PartsExternal
<1>8. CASE InputEnds \/ (\E d \in Dirs : RemoveDir(d) \/ MakeDir(d)) \/ Stopped \/ UNCHANGED vars
  <2>1. UNCHANGED <<pc, typed, todo, nested, ran>>
    BY <1>8 DEF InputEnds, RemoveDir, MakeDir, Stopped, vars, lineVars
  <2> QED BY <1>1, <2>1, PartsKept
<1> QED BY <1>2, <1>3, <1>4, <1>5, <1>6, <1>7, <1>8 DEF Next

(* Every external command gets the words that were typed for it, whatever  *)
(* their number and wherever the line is cut, and leaves the prompt free   *)
(* exactly if the whole line ends in "&".                                  *)
THEOREM WordsArrive == Spec => []RunAsTyped
<1>1. PartsInv => RunAsTyped
  BY DEF PartsInv
<1> QED BY <1>1, PartsInit, PartsNext, PTL DEF Spec

(* The shell survives every line but those with a part that has no word,   *)
(* more words than there are places, or a blank beginning as long as a     *)
(* command.                                                                *)
THEOREM OnlySuchLinesFault == Spec => []FaultsOnlyBy
<1>1. PartsInv => FaultsOnlyBy
  BY DEF PartsInv
<1> QED BY <1>1, PartsInit, PartsNext, PTL DEF Spec

-----------------------------------------------------------------------------
(* Pipes and redirections: however many stages a line has, however small   *)
(* its pipes are and wherever pipe() or open() fails, the shell has its     *)
(* standard streams back at the prompt, and the last command printed what   *)
(* the first one wrote.                                                     *)
(*                                                                          *)
(* A shell that has only two descriptors to spare cannot keep a copy of     *)
(* its standard input: sdup() fails, nobody asks, and the terminal is       *)
(* lost.  With three, the copy of the outermost pipe is always kept, and    *)
(* restoring that one makes up for every inner one that is missing.         *)

(* Two descriptors for a pipe and one for a copy                           *)
EnoughFds == FdMax >= 5

Spare == 3..FdMax

TypeOK ==
  /\ fds \in [0..FdMax -> Objects]
  /\ copies \in Seq(Spare \cup {None})
  /\ outer \in [file : Spare \cup {None}, copy : Spare \cup {None}]
  /\ line \in [stages : 0..MaxStages, redirected : BOOLEAN]
  /\ stage \in 0..MaxStages
  /\ ppc \in {"prompt", "execute", "wait", "restore"}
  /\ child \in [state : {"none", "reading", "writing"}, bytes : Nat]
  /\ child.state = "none" => child = NoChild
  /\ content \in [1..MaxStages -> Nat]
  /\ sent \in Nat
  /\ printed \in Nat \cup {None}

Piping == ppc = "wait" /\ stage < line.stages
Redirecting == ppc = "wait" /\ stage = line.stages /\ line.redirected

(* The descriptors that copies of the standard input hold                  *)
Held == {copies[i] : i \in DOMAIN copies} \ {None}

(* Of the spare descriptors only these are open.                           *)
OpenOnly(table, few) == \A fd \in Spare : table[fd] # Closed => fd \in few

(* A copy holds what was standard input before its stage; it may be        *)
(* missing, but not the outermost one.                                     *)
Copies ==
  /\ copies # <<>> => copies[1] # None
  /\ \A i \in DOMAIN copies : copies[i] # None =>
       fds[copies[i]] = IF i = 1 THEN Tty(0) ELSE ReadEnd(i - 1)

(* The shell reads the pipe of the stage before, while it executes one.    *)
Streams ==
  /\ copies = <<>> => fds[STDIN] = Tty(0)
  /\ copies # <<>> /\ ppc \in {"execute", "wait"} => fds[STDIN] = ReadEnd(Len(copies))
  /\ fds[STDOUT] = IF Redirecting THEN File ELSE Tty(1)
  /\ fds[2] = Tty(2)

(* Pipes r and w of the stage that is executed                             *)
PipeAt(r, w) ==
  /\ r # w /\ fds[r] = ReadEnd(stage) /\ fds[w] = WriteEnd(stage)
  /\ OpenOnly(fds, Held \cup {r, w})

Extras ==
  /\ Piping => \E r, w \in Spare : PipeAt(r, w)
  /\ Redirecting => /\ outer.file # None /\ outer.copy # None /\ outer.file # outer.copy
                    /\ fds[outer.file] = File /\ fds[outer.copy] = Tty(1)
                    /\ OpenOnly(fds, Held \cup {outer.file, outer.copy})
  /\ ~Piping /\ ~Redirecting => OpenOnly(fds, Held)

(* There is room for the next pipe, or for a file and a copy.              *)
Room == ppc = "execute" => \E one, two \in Spare : one # two /\ fds[one] = Closed /\ fds[two] = Closed

Place ==
  /\ ppc = "prompt" => copies = <<>>
  /\ ppc \in {"execute", "wait"} => stage = Len(copies) + 1 /\ stage <= line.stages

Descriptors == Copies /\ Streams /\ Extras /\ Room /\ Place

(* What the child of the stage has put out so far                          *)
Out == IF stage < line.stages THEN content[stage] ELSE printed

Flow ==
  /\ ppc \in {"execute", "wait"} => \A i \in 1..MaxStages : i > stage => content[i] = 0
  /\ ppc # "wait" => child = NoChild
  /\ ppc = "execute" => /\ stage > 1 => content[stage - 1] = sent
                        /\ content[stage] = 0 /\ printed = None
  /\ Piping => printed = None
  /\ ppc = "wait" =>
        \/ stage = line.stages /\ printed = None /\ child = NoChild
        \/ /\ Out \in Nat
           /\ child.state = "reading" => /\ stage > 1 /\ content[stage - 1] + child.bytes = sent
                                         /\ Out = 0
           /\ child.state = "writing" => child.bytes + Out = sent
           /\ child.state = "none" => Out = sent
  /\ ppc \in {"prompt", "restore"} => printed \in {None, sent}

Inv == TypeOK /\ Descriptors /\ Flow

-----------------------------------------------------------------------------
(* What descriptors refer to                                               *)

(* Ends of pipes, files and terminals are told apart.                      *)
LEMMA Different ==
  /\ File # Closed
  /\ \A i : /\ Tty(i) # Closed /\ Tty(i) # File
            /\ ReadEnd(i) # Closed /\ ReadEnd(i) # File
            /\ WriteEnd(i) # Closed /\ WriteEnd(i) # File
  /\ \A i, j : /\ Tty(i) # ReadEnd(j) /\ Tty(i) # WriteEnd(j) /\ ReadEnd(i) # WriteEnd(j)
               /\ ReadEnd(i) = ReadEnd(j) => i = j
               /\ WriteEnd(i) = WriteEnd(j) => i = j
               /\ Tty(i) = Tty(j) => i = j
  BY DEF File, Closed, Tty, ReadEnd, WriteEnd

(* The objects are what the table may hold.                                *)
LEMMA ObjectsAre ==
  /\ Closed \in Objects /\ File \in Objects
  /\ \A fd \in 0..2 : Tty(fd) \in Objects
  /\ \A i \in 1..MaxStages : ReadEnd(i) \in Objects /\ WriteEnd(i) \in Objects
  BY DEF Objects

(* The standard descriptors are open.                                      *)
Table(table) ==
  /\ table \in [0..FdMax -> Objects]
  /\ \A fd \in 0..2 : table[fd] # Closed

(* The descriptors are the three standard ones and the spare ones.         *)
LEMMA SparesAre ==
  ASSUME EnoughFds
  PROVE  /\ 0..FdMax = Spare \cup {0, 1, 2} /\ Spare \cap {0, 1, 2} = {}
         /\ {3, 4, 5} \subseteq Spare /\ Spare \subseteq Nat /\ None \notin Spare
  BY FdAssumption DEF EnoughFds, Spare, None

(* The lowest free descriptor is one, and no standard one.                 *)
LEMMA Lowest ==
  ASSUME EnoughFds, NEW table, Table(table), FreeFds(table) # {}
  PROVE  LowestFd(table) \in Spare /\ table[LowestFd(table)] = Closed
<1>1. FreeFds(table) \subseteq Nat
  BY FdAssumption DEF FreeFds
<1>2. PICK fd \in FreeFds(table) :
        \A other \in FreeFds(table) : ~(<<other, fd>> \in OpToRel(<, Nat))
  BY <1>1, NatLessThanWellFounded, WFMin
<1>3. ASSUME NEW other \in FreeFds(table) PROVE fd <= other
  <2>1. OpToRel(<, Nat) = {ss \in Nat \X Nat : ss[1] < ss[2]}
    BY DEF OpToRel
  <2>2. fd \in Nat /\ other \in Nat /\ <<other, fd>> \in Nat \X Nat
    BY <1>1
  <2>3. other < fd => <<other, fd>> \in {ss \in Nat \X Nat : ss[1] < ss[2]}
    BY <2>2
  <2>4. ~(other < fd)
    BY <1>2, <2>1, <2>3
  <2> QED BY <2>2, <2>4
<1>4. LowestFd(table) \in FreeFds(table)
  BY <1>3 DEF LowestFd
<1>5. LowestFd(table) \in 0..FdMax /\ table[LowestFd(table)] = Closed
  BY <1>4 DEF FreeFds
<1> QED BY <1>5, SparesAre DEF Table

(* An object is opened at a spare descriptor that was closed, if there is  *)
(* one.                                                                    *)
LEMMA OpenedAt ==
  ASSUME EnoughFds, NEW table, Table(table), NEW object \in Objects, FreeFds(table) # {}
  PROVE  \E fd \in Spare : /\ table[fd] = Closed
                          /\ Opened(table, object) =
                               [table |-> [table EXCEPT ![fd] = object], fd |-> fd]
                          /\ Table([table EXCEPT ![fd] = object])
<1>1. PICK fd \in Spare : fd = LowestFd(table) /\ table[fd] = Closed
  BY Lowest
<1>2. Table([table EXCEPT ![fd] = object])
  BY SparesAre DEF Table
<1> QED BY <1>1, <1>2 DEF Opened

(* With no descriptor left, nothing changes.                               *)
LEMMA NoneOpened ==
  ASSUME NEW table, NEW object, FreeFds(table) = {}
  PROVE  Opened(table, object) = [table |-> table, fd |-> None]
  BY DEF Opened

(* pipe() takes two spare descriptors.                                     *)
LEMMA PipeOpenedIs ==
  ASSUME EnoughFds, Table(fds), NEW i \in 1..MaxStages,
         NEW one \in FreeFds(fds), NEW two \in FreeFds(fds), one # two
  PROVE  \E r, w \in Spare :
           /\ r # w /\ fds[r] = Closed /\ fds[w] = Closed
           /\ PipeOpened(i) = [fd \in 0..FdMax |-> IF fd = r THEN ReadEnd(i)
                                                  ELSE IF fd = w THEN WriteEnd(i) ELSE fds[fd]]
<1> DEFINE reading == Opened(fds, ReadEnd(i))
<1>1. ReadEnd(i) \in Objects /\ WriteEnd(i) \in Objects
  BY ObjectsAre
<1>2. PICK r \in Spare :
        /\ fds[r] = Closed
        /\ reading = [table |-> [fds EXCEPT ![r] = ReadEnd(i)], fd |-> r]
        /\ Table([fds EXCEPT ![r] = ReadEnd(i)])
  <2>1. FreeFds(fds) # {}
    OBVIOUS
  <2> QED BY <1>1, <2>1, OpenedAt
<1>a. PICK half : half = [fds EXCEPT ![r] = ReadEnd(i)]
  OBVIOUS
<1>3. FreeFds(half) # {}
  BY <1>a DEF FreeFds, Table
<1>4. Table(half) /\ reading.table = half
  BY <1>2, <1>a
<1> HIDE DEF reading
<1>5. PICK w \in Spare :
        /\ half[w] = Closed
        /\ Opened(half, WriteEnd(i)) = [table |-> [half EXCEPT ![w] = WriteEnd(i)], fd |-> w]
  BY <1>1, <1>3, <1>4, OpenedAt
<1>6. PipeOpened(i) = [half EXCEPT ![w] = WriteEnd(i)]
  BY <1>4, <1>5 DEF PipeOpened, reading
<1>7. r \in 0..FdMax /\ w \in 0..FdMax
  BY SparesAre
<1>8. r # w /\ fds[w] = Closed
  BY <1>a, <1>5, <1>7, Different DEF Table
<1>9. PipeOpened(i) = [fd \in 0..FdMax |-> IF fd = r THEN ReadEnd(i)
                                         ELSE IF fd = w THEN WriteEnd(i) ELSE fds[fd]]
  BY <1>a, <1>6, <1>7, <1>8 DEF Table
<1> QED BY <1>2, <1>8, <1>9

(* The shell goes on to the next stage: the pipe is its standard input,    *)
(* and a copy of the old one is kept if there is a descriptor for it.      *)
LEMMA SwappedIs ==
  ASSUME EnoughFds, Table(fds), stage \in 1..MaxStages, NEW r \in Spare, NEW w \in Spare,
         r # w, fds[r] = ReadEnd(stage), fds[w] = WriteEnd(stage),
         \A fd \in 0..FdMax : fd # r => fds[fd] # ReadEnd(stage),
         \A fd \in 0..FdMax : fd # w => fds[fd] # WriteEnd(stage)
  PROVE  \E copy \in Spare \cup {None} :
           /\ Swapped.fd = copy
           /\ copy # None => fds[copy] = Closed
           /\ FreeFds(fds) # {} => copy # None
           /\ Swapped.table = [fd \in 0..FdMax |-> IF fd = 0 THEN fds[r]
                                                   ELSE IF fd \in {r, w} THEN Closed
                                                   ELSE IF fd = copy THEN fds[0]
                                                   ELSE fds[fd]]
<1> DEFINE copied == sdup(fds, STDIN)
<1>0. r \in 0..FdMax /\ w \in 0..FdMax /\ 0 \in 0..FdMax /\ r # 0 /\ w # 0 /\ r # None /\ w # None
  BY SparesAre
<1>1. Fd(ReadEnd(stage)) = r /\ Fd(WriteEnd(stage)) = w
  BY <1>0 DEF Fd
<1>2. fds[0] \in Objects /\ fds[r] # Closed /\ fds[0] # Closed
  BY <1>0, Different DEF Table
<1>3. PICK copy \in Spare \cup {None} :
        /\ copied.fd = copy
        /\ copy # None => fds[copy] = Closed
        /\ FreeFds(fds) # {} => copy # None
        /\ copied.table = [fd \in 0..FdMax |-> IF fd = copy THEN fds[0] ELSE fds[fd]]
  <2>1. CASE FreeFds(fds) # {}
    <3>1. PICK copy \in Spare : /\ fds[copy] = Closed
                                /\ copied = [table |-> [fds EXCEPT ![copy] = fds[0]], fd |-> copy]
      BY <1>2, <2>1, OpenedAt DEF sdup, STDIN
    <3> HIDE DEF copied
    <3>2. copied.table = [fd \in 0..FdMax |-> IF fd = copy THEN fds[0] ELSE fds[fd]]
      BY <3>1 DEF Table
    <3>3. copied.fd = copy /\ copy \in Spare \cup {None} /\ copy # None
      BY <3>1, SparesAre
    <3> QED BY <3>1, <3>2, <3>3, Zenon
  <2>2. CASE FreeFds(fds) = {}
    <3>1. copied = [table |-> fds, fd |-> None]
      BY <2>2, NoneOpened DEF sdup
    <3> HIDE DEF copied
    <3>2. copied.table = [fd \in 0..FdMax |-> IF fd = None THEN fds[0] ELSE fds[fd]]
      BY <3>1 DEF Table, None
    <3> QED BY <2>2, <3>1, <3>2
  <2> QED BY <2>1, <2>2
<1>4. Swapped.fd = copy
  BY <1>3 DEF Swapped
<1>5. Swapped.table = sclose(sclose(sdup2(copied.table, r, 0), r), w)
  BY <1>1 DEF Swapped, STDIN
<1> HIDE DEF copied
<1>6. r # copy /\ w # copy /\ copy # 0
  BY <1>0, <1>2, <1>3, Different, SparesAre DEF None
<1>7. Swapped.table = [fd \in 0..FdMax |-> IF fd = 0 THEN fds[r]
                                           ELSE IF fd \in {r, w} THEN Closed
                                           ELSE IF fd = copy THEN fds[0]
                                           ELSE fds[fd]]
  <2>1. copied.table[r] = fds[r]
    BY <1>0, <1>3, <1>6
  <2>2. sdup2(copied.table, r, 0) = [copied.table EXCEPT ![0] = fds[r]]
    BY <1>0, <1>2, <2>1 DEF sdup2
  <2> QED BY <1>0, <1>3, <1>5, <1>6, <2>2 DEF sclose
<1> QED BY <1>3, <1>4, <1>7

(* The file and the copy of the standard output take two spare             *)
(* descriptors.                                                            *)
LEMMA RedirectedIs ==
  ASSUME EnoughFds, Table(fds), NEW one \in Spare, NEW two \in Spare, one # two,
         fds[one] = Closed, fds[two] = Closed
  PROVE  \E file, copy \in Spare :
           /\ file # copy /\ fds[file] = Closed /\ fds[copy] = Closed
           /\ Redirected.outer = [file |-> file, copy |-> copy]
           /\ Redirected.table = [fd \in 0..FdMax |-> IF fd \in {1, file} THEN File
                                                      ELSE IF fd = copy THEN fds[1]
                                                      ELSE fds[fd]]
<1> DEFINE opened == Opened(fds, File)
<1>0. one \in 0..FdMax /\ two \in 0..FdMax /\ 1 \in 0..FdMax
  BY SparesAre
<1>1. FreeFds(fds) # {}
  BY <1>0 DEF FreeFds
<1>2. PICK file \in Spare : /\ fds[file] = Closed
                            /\ opened = [table |-> [fds EXCEPT ![file] = File], fd |-> file]
                            /\ Table([fds EXCEPT ![file] = File])
  BY <1>1, ObjectsAre, OpenedAt
<1>3. PICK half : half = [fds EXCEPT ![file] = File]
  OBVIOUS
<1>4. Table(half) /\ FreeFds(half) # {} /\ half[1] = fds[1] /\ fds[1] \in Objects
  BY <1>0, <1>2, <1>3, SparesAre DEF FreeFds, Table
<1>5. PICK copy \in Spare : /\ half[copy] = Closed
                            /\ Opened(half, half[1]) = [table |-> [half EXCEPT ![copy] = half[1]], fd |-> copy]
  BY <1>4, OpenedAt
<1>6. file \in 0..FdMax /\ copy \in 0..FdMax /\ file # 1 /\ copy # 1 /\ file # None
  BY SparesAre
<1>7. copy # file /\ fds[copy] = Closed
  BY <1>3, <1>5, <1>6, Different DEF Table
<1>8. /\ Redirected.outer = [file |-> file, copy |-> copy]
      /\ Redirected.table = sdup2([half EXCEPT ![copy] = half[1]], file, 1)
  <2>1. opened.table = half /\ opened.fd = file
    BY <1>2, <1>3
  <2>2. /\ Opened(half, half[1]).table = [half EXCEPT ![copy] = half[1]]
        /\ Opened(half, half[1]).fd = copy
    BY <1>5
  <2> QED BY <2>1, <2>2 DEF Redirected, sdup, STDOUT
<1>9. Redirected.table = [[half EXCEPT ![copy] = half[1]] EXCEPT ![1] = File]
  <2>1. [half EXCEPT ![copy] = half[1]][file] = File
    BY <1>3, <1>6, <1>7 DEF Table
  <2> QED BY <1>6, <1>8, <2>1, Different DEF sdup2
<1>10. Redirected.table = [fd \in 0..FdMax |-> IF fd \in {1, file} THEN File
                                               ELSE IF fd = copy THEN fds[1]
                                               ELSE fds[fd]]
  BY <1>0, <1>3, <1>4, <1>6, <1>7, <1>9 DEF Table
<1> QED BY <1>2, <1>7, <1>8, <1>10

(* The redirection is taken back.                                          *)
LEMMA UndirectedIs ==
  ASSUME EnoughFds, Table(fds), outer.file \in Spare, outer.copy \in Spare,
         outer.file # outer.copy, fds[outer.copy] = Tty(1)
  PROVE  Undirected = [fd \in 0..FdMax |-> IF fd = 1 THEN Tty(1)
                                           ELSE IF fd \in {outer.file, outer.copy} THEN Closed
                                           ELSE fds[fd]]
<1> DEFINE file == outer.file
           copy == outer.copy
<1>0. /\ file \in 0..FdMax /\ copy \in 0..FdMax /\ 1 \in 0..FdMax
      /\ file # 1 /\ copy # 1 /\ file # None /\ copy # None
  BY SparesAre
<1>1. sclose(fds, file) = [fds EXCEPT ![file] = Closed]
  BY <1>0 DEF sclose
<1>2. sdup2(sclose(fds, file), copy, 1) = [[fds EXCEPT ![file] = Closed] EXCEPT ![1] = Tty(1)]
  BY <1>0, <1>1, Different DEF sdup2, Table
<1>3. Undirected = [[[fds EXCEPT ![file] = Closed] EXCEPT ![1] = Tty(1)] EXCEPT ![copy] = Closed]
  BY <1>0, <1>2 DEF Undirected, sclose, STDOUT
<1> QED BY <1>0, <1>3 DEF Table

(* What is known of the copies.                                            *)
LEMMA CopiesAre ==
  ASSUME TypeOK
  PROVE  /\ Len(copies) \in Nat /\ DOMAIN copies = 1..Len(copies)
         /\ copies = <<>> <=> Len(copies) = 0
         /\ \A i \in DOMAIN copies : copies[i] \in Spare \cup {None}
<1>1. copies \in Seq(Spare \cup {None})
  BY DEF TypeOK
<1> QED BY <1>1, LenProperties, EmptySeq, ElementOfSeq

(* Every copy that was made is open, and is none of the present pipe.      *)
LEMMA HeldAre ==
  ASSUME EnoughFds, TypeOK, Copies, NEW fd \in Held
  PROVE  /\ fd \in Spare /\ fd # None
         /\ \/ fds[fd] = Tty(0)
            \/ \E i \in 1..(Len(copies) - 1) : fds[fd] = ReadEnd(i)
         /\ fds[fd] # Closed
<1>1. PICK i \in DOMAIN copies : fd = copies[i] /\ fd # None
  BY DEF Held
<1>2. i \in 1..Len(copies) /\ Len(copies) \in Nat /\ fd \in Spare
  BY <1>1, CopiesAre
<1>3. fds[fd] = IF i = 1 THEN Tty(0) ELSE ReadEnd(i - 1)
  BY <1>1 DEF Copies
<1>4. CASE i = 1
  BY <1>1, <1>2, <1>3, <1>4, Different
<1>5. CASE i # 1
  <2>1. i - 1 \in 1..(Len(copies) - 1)
    BY <1>2, <1>5
  <2> QED BY <1>1, <1>2, <1>3, <1>5, <2>1, Different
<1> QED BY <1>4, <1>5

(* The standard descriptors are open while a stage is executed.            *)
LEMMA ExecutingTable ==
  ASSUME TypeOK, Streams, ppc \in {"execute", "wait"}
  PROVE  Table(fds)
<1>1. fds[0] # Closed /\ fds[1] # Closed /\ fds[2] # Closed
  BY Different DEF Streams, STDIN, STDOUT
<1> QED BY <1>1 DEF Table, TypeOK

-----------------------------------------------------------------------------
(* The descriptors, step by step                                           *)

(* A step that changes none of what they depend on                         *)
LEMMA DescriptorsStay ==
  ASSUME TypeOK, Descriptors, UNCHANGED <<fds, copies, outer, stage, line, ppc>>
  PROVE  Descriptors'
  BY DEF Descriptors, Copies, Streams, Extras, Room, Place, Held, OpenOnly, PipeAt, Piping,
         Redirecting

(* pipe() or open() has failed.                                            *)
LEMMA FailureDescriptors ==
  ASSUME TypeOK, Descriptors, PipeFails \/ OpenFails
  PROVE  Descriptors'
<1>1. ppc = "execute" /\ ppc' = "restore" /\ UNCHANGED <<fds, copies, outer, stage, line>>
  BY DEF PipeFails, OpenFails
<1> QED BY <1>1 DEF Descriptors, Copies, Streams, Extras, Room, Place, Held, OpenOnly, Piping,
                    Redirecting

(* A line is read: what the table was at the prompt is what a stage needs. *)
LEMMA ReadDescriptors ==
  ASSUME EnoughFds, TypeOK, Descriptors, Read
  PROVE  Descriptors'
<1>1. /\ ppc = "prompt" /\ ppc' = "execute" /\ stage' = 1 /\ UNCHANGED <<fds, copies, outer>>
      /\ line'.stages \in 1..MaxStages /\ copies = <<>>
  BY DEF Read, Descriptors, Place
<1>2. ~Piping /\ ~Redirecting /\ ~Piping' /\ ~Redirecting'
  BY <1>1 DEF Piping, Redirecting
<1>3. Held = {} /\ Held' = {}
  BY <1>1 DEF Held
<1>4. fds[3] = Closed /\ fds[4] = Closed
  BY <1>2, <1>3, SparesAre DEF Descriptors, Extras, OpenOnly
<1>5. Room'
  BY <1>1, <1>4, SparesAre DEF Room
<1>6. Copies' /\ Streams'
  BY <1>1, <1>2 DEF Descriptors, Copies, Streams
<1>7. Extras'
  BY <1>1, <1>2, <1>3 DEF Descriptors, Extras, OpenOnly
<1>8. Place'
  <2>1. Len(copies') = 0
    BY <1>1
  <2> QED BY <1>1, <2>1, PipeAssumption DEF Place
<1> QED BY <1>5, <1>6, <1>7, <1>8 DEF Descriptors

(* A pipe is opened at two spare descriptors.                              *)
LEMMA MakePipeDescriptors ==
  ASSUME EnoughFds, TypeOK, Descriptors, MakePipe
  PROVE  /\ Descriptors' /\ fds' \in [0..FdMax -> Objects]
<1>0. /\ ppc = "execute" /\ ppc' = "wait" /\ stage < line.stages /\ fds' = PipeOpened(stage)
      /\ UNCHANGED <<copies, outer, stage, line>>
      /\ stage = Len(copies) + 1
  BY DEF MakePipe, Descriptors, Place
<1>1. stage \in 1..MaxStages /\ line.stages \in 0..MaxStages /\ Len(copies) \in Nat
  BY <1>0, CopiesAre DEF TypeOK
<1>2. PICK r, w \in Spare :
        /\ r # w /\ fds[r] = Closed /\ fds[w] = Closed
        /\ fds' = [fd \in 0..FdMax |-> IF fd = r THEN ReadEnd(stage)
                                       ELSE IF fd = w THEN WriteEnd(stage) ELSE fds[fd]]
  <2>1. PICK one, two \in FreeFds(fds) : one # two
    BY DEF MakePipe
  <2>2. Table(fds)
    BY <1>0, ExecutingTable DEF Descriptors
  <2> QED BY <1>0, <1>1, <2>1, <2>2, PipeOpenedIs
<1>3. /\ \A fd \in 0..FdMax : fd \notin {r, w} => fds'[fd] = fds[fd]
      /\ fds'[r] = ReadEnd(stage) /\ fds'[w] = WriteEnd(stage)
      /\ fds'[0] = fds[0] /\ fds'[1] = fds[1] /\ fds'[2] = fds[2]
  BY <1>2, SparesAre
<1>4. fds' \in [0..FdMax -> Objects]
  BY <1>1, <1>2, ObjectsAre DEF TypeOK
<1>5. Piping' /\ ~Redirecting' /\ ~Piping /\ ~Redirecting
  BY <1>0, <1>1 DEF Piping, Redirecting
<1>6. Held' = Held /\ \A fd \in Held : fd \in Spare /\ fd \notin {r, w} /\ fds'[fd] = fds[fd]
  <2>1. Held' = Held
    BY <1>0 DEF Held
  <2> QED BY <1>2, <1>3, <2>1, HeldAre, SparesAre DEF Descriptors
<1>7. Copies'
  <2>1. \A i \in DOMAIN copies : copies[i] # None => copies[i] \in Held
    BY DEF Held
  <2> QED BY <1>0, <1>6, <2>1 DEF Descriptors, Copies
<1>8. Streams'
  BY <1>0, <1>3, <1>5 DEF Descriptors, Streams, STDIN, STDOUT
<1>9. Extras'
  <2>1. OpenOnly(fds, Held)
    BY <1>5 DEF Descriptors, Extras
  <2>2. OpenOnly(fds', Held' \cup {r, w})
    BY <1>3, <1>6, <2>1, SparesAre DEF OpenOnly
  <2>3. PipeAt(r, w)'
    BY <1>0, <1>2, <1>3, <2>2 DEF PipeAt
  <2> QED BY <1>5, <2>3 DEF Extras
<1>10. Room' /\ Place'
  BY <1>0 DEF Descriptors, Room, Place
<1> QED BY <1>4, <1>7, <1>8, <1>9, <1>10 DEF Descriptors

(* The pipe becomes standard input; its two descriptors are free again, so *)
(* that there is room for the next one.                                    *)
LEMMA NextStageDescriptors ==
  ASSUME EnoughFds, TypeOK, Descriptors, NextStage
  PROVE  /\ Descriptors' /\ fds' \in [0..FdMax -> Objects]
         /\ copies' \in Seq(Spare \cup {None})
<1>a. PICK n : n = Len(copies)
  OBVIOUS
<1>0. /\ ppc = "wait" /\ ppc' = "execute" /\ stage < line.stages
      /\ fds' = Swapped.table /\ copies' = Append(copies, Swapped.fd)
      /\ stage = n + 1 /\ stage' = stage + 1 /\ UNCHANGED <<outer, line>>
  BY <1>a DEF NextStage, Descriptors, Place
<1>1. /\ stage \in 1..MaxStages /\ line.stages \in 0..MaxStages /\ n \in Nat
      /\ copies \in Seq(Spare \cup {None}) /\ DOMAIN copies = 1..n
  BY <1>a, <1>0, CopiesAre DEF TypeOK
<1>2. Piping /\ ~Redirecting /\ ~Piping' /\ ~Redirecting'
  BY <1>0, <1>1 DEF Piping, Redirecting
<1>3. PICK r, w \in Spare : PipeAt(r, w)
  BY <1>2 DEF Descriptors, Extras
<1>4. /\ fds[0] = IF n = 0 THEN Tty(0) ELSE ReadEnd(n)
      /\ fds[1] = Tty(1) /\ fds[2] = Tty(2)
  BY <1>a, <1>0, <1>2, CopiesAre DEF Descriptors, Streams, STDIN, STDOUT
<1>5. \A fd \in Held : fd \in Spare /\ fds[fd] # ReadEnd(stage) /\ fds[fd] # WriteEnd(stage)
                                    /\ fds[fd] # Closed
  <2> SUFFICES ASSUME NEW fd \in Held
               PROVE  fd \in Spare /\ fds[fd] # ReadEnd(stage) /\ fds[fd] # WriteEnd(stage)
                                   /\ fds[fd] # Closed
    OBVIOUS
  <2>1. \A i \in 1..(n - 1) : i # stage
    BY <1>0, <1>1
  <2> QED BY <1>a, <2>1, HeldAre DEF Descriptors, Closed, Tty, ReadEnd, WriteEnd
<1>6. \A fd \in 0..FdMax : /\ fd # r => fds[fd] # ReadEnd(stage)
                           /\ fd # w => fds[fd] # WriteEnd(stage)
  <2> SUFFICES ASSUME NEW fd \in 0..FdMax
               PROVE  /\ fd # r => fds[fd] # ReadEnd(stage)
                      /\ fd # w => fds[fd] # WriteEnd(stage)
    OBVIOUS
  <2>1. CASE fd = 0
    <3>1. n # stage
      BY <1>0, <1>1
    <3> QED BY <1>4, <2>1, <3>1 DEF Tty, ReadEnd, WriteEnd
  <2>2. CASE fd \in {1, 2}
    BY <1>4, <2>2 DEF Tty, ReadEnd, WriteEnd
  <2>3. CASE fd \in Spare
    BY <1>3, <1>5, <2>3 DEF PipeAt, OpenOnly, Closed, ReadEnd, WriteEnd
  <2> QED BY <2>1, <2>2, <2>3, SparesAre
<1>7. PICK copy \in Spare \cup {None} :
        /\ Swapped.fd = copy
        /\ copy # None => fds[copy] = Closed
        /\ FreeFds(fds) # {} => copy # None
        /\ Swapped.table = [fd \in 0..FdMax |-> IF fd = 0 THEN fds[r]
                                                ELSE IF fd \in {r, w} THEN Closed
                                                ELSE IF fd = copy THEN fds[0]
                                                ELSE fds[fd]]
  <2>1. Table(fds)
    BY <1>0, ExecutingTable DEF Descriptors
  <2>2. r # w /\ fds[r] = ReadEnd(stage) /\ fds[w] = WriteEnd(stage)
    BY <1>3 DEF PipeAt
  <2>3. /\ \A fd \in 0..FdMax : fd # r => fds[fd] # ReadEnd(stage)
        /\ \A fd \in 0..FdMax : fd # w => fds[fd] # WriteEnd(stage)
    BY <1>6
  <2>4. EnoughFds /\ Table(fds) /\ stage \in 1..MaxStages
    BY <1>1, <2>1
  <2> QED BY <2>2, <2>3, <2>4, SwappedIs
<1>8. /\ fds'[0] = ReadEnd(stage) /\ fds'[1] = fds[1] /\ fds'[2] = fds[2]
      /\ fds'[r] = Closed /\ fds'[w] = Closed
      /\ copy # None => copy \notin {r, w} /\ fds'[copy] = fds[0]
      /\ \A fd \in Spare : fd \notin {r, w, copy} => fds'[fd] = fds[fd]
  <2>1. fds[r] = ReadEnd(stage) /\ fds[w] = WriteEnd(stage)
    BY <1>3 DEF PipeAt
  <2>2. copy # None => copy \notin {r, w}
    BY <1>7, <2>1 DEF Closed, ReadEnd, WriteEnd
  <2>3. \A fd \in 0..FdMax : fds'[fd] = IF fd = 0 THEN fds[r]
                                        ELSE IF fd \in {r, w} THEN Closed
                                        ELSE IF fd = copy THEN fds[0]
                                        ELSE fds[fd]
    BY <1>0, <1>7
  <2>4. /\ {0, 1, 2, r, w} \subseteq 0..FdMax /\ Spare \subseteq 0..FdMax
        /\ {1, 2} \cap {0, r, w, copy} = {} /\ 0 \notin Spare
    BY SparesAre DEF None
  <2>5. fds'[0] = ReadEnd(stage) /\ fds'[1] = fds[1] /\ fds'[2] = fds[2]
        /\ fds'[r] = Closed /\ fds'[w] = Closed
    BY <2>1, <2>3, <2>4
  <2>6. copy # None => fds'[copy] = fds[0]
    BY <2>2, <2>3, <2>4
  <2>7. \A fd \in Spare : fd \notin {r, w, copy} => fds'[fd] = fds[fd]
    BY <2>3, <2>4
  <2> QED BY <2>2, <2>5, <2>6, <2>7
<1>9. copies' \in Seq(Spare \cup {None}) /\ Len(copies') = n + 1
      /\ copies' # <<>> /\ copies'[n + 1] = copy /\ \A i \in 1..n : copies'[i] = copies[i]
  <2>1. copies' = Append(copies, copy)
    BY <1>0, <1>7
  <2>2. copies' \in Seq(Spare \cup {None}) /\ Len(copies') = n + 1
        /\ copies'[n + 1] = copy /\ \A i \in 1..n : copies'[i] = copies[i]
    BY <1>1, <2>1, AppendProperties
  <2> QED BY <1>1, <2>2
<1>10. DOMAIN copies' = 1..(n + 1)
  BY <1>9, LenProperties
<1>11. \A fd : fd \in Held' <=> fd \in Held \/ (fd = copy /\ copy # None)
  BY <1>1, <1>9, <1>10 DEF Held
<1>12. fds' \in [0..FdMax -> Objects]
  BY <1>0, <1>1, <1>7, ObjectsAre, SparesAre DEF TypeOK
<1>13. \A fd \in Held : fd \notin {r, w, copy} /\ fds'[fd] = fds[fd]
  BY <1>3, <1>5, <1>7, <1>8 DEF PipeAt, Held
<1>14. Copies'
  <2>1. copies'[1] # None
    <3>1. CASE n = 0
      <4>1. Held = {}
        BY <1>1, <3>1 DEF Held
      <4>2. OpenOnly(fds, {r, w})
        BY <1>3, <4>1 DEF PipeAt
      <4>3. \E fd \in {3, 4, 5} : fd \notin {r, w}
        OBVIOUS
      <4>4. FreeFds(fds) # {}
        BY <4>2, <4>3, SparesAre DEF OpenOnly, FreeFds
      <4> QED BY <1>7, <1>9, <3>1, <4>4
    <3>2. CASE n # 0
      <4>1. copies # <<>> /\ 1 \in 1..n
        BY <1>1, <3>2
      <4> QED BY <1>9, <4>1 DEF Descriptors, Copies
    <3> QED BY <3>1, <3>2
  <2>2. ASSUME NEW i \in 1..(n + 1), copies'[i] # None
        PROVE  fds'[copies'[i]] = IF i = 1 THEN Tty(0) ELSE ReadEnd(i - 1)
    <3>1. CASE i \in 1..n
      <4>1. copies'[i] = copies[i] /\ copies[i] \in Held
        BY <1>1, <1>9, <2>2, <3>1 DEF Held
      <4> QED BY <1>1, <1>13, <2>2, <3>1, <4>1 DEF Descriptors, Copies
    <3>2. CASE i = n + 1
      <4>1. fds'[copies'[i]] = fds[0]
        BY <1>8, <1>9, <2>2, <3>2
      <4>2. i = 1 <=> n = 0
        BY <1>1, <3>2
      <4>3. i - 1 = n
        BY <1>1, <3>2
      <4> QED BY <1>4, <4>1, <4>2, <4>3
    <3> QED BY <1>1, <3>1, <3>2
  <2> QED BY <1>10, <2>1, <2>2 DEF Copies
<1>15. Streams'
  <2>1. stage = Len(copies')
    BY <1>0, <1>9
  <2> QED BY <1>2, <1>4, <1>8, <1>9, <2>1 DEF Streams, STDIN, STDOUT
<1>16. Extras'
  <2>1. OpenOnly(fds', Held')
    <3> SUFFICES ASSUME NEW fd \in Spare, fds'[fd] # Closed PROVE fd \in Held'
      BY DEF OpenOnly
    <3>1. CASE fd = copy
      BY <1>11, <3>1, SparesAre
    <3>2. CASE fd # copy
      <4>1. fd \notin {r, w} /\ fds'[fd] = fds[fd]
        BY <1>8, <3>2
      <4> QED BY <1>3, <1>11, <4>1 DEF PipeAt, OpenOnly
    <3> QED BY <3>1, <3>2
  <2> QED BY <1>2, <2>1 DEF Extras
<1>17. Room'
  BY <1>3, <1>8 DEF PipeAt, Room
<1>18. Place'
  BY <1>0, <1>1, <1>9 DEF Place
<1> QED BY <1>9, <1>12, <1>14, <1>15, <1>16, <1>17, <1>18 DEF Descriptors

(* The last stage: room for a pipe is room for a file and a copy.          *)
LEMMA ExecuteLastDescriptors ==
  ASSUME EnoughFds, TypeOK, Descriptors, ExecuteLast
  PROVE  /\ Descriptors' /\ fds' \in [0..FdMax -> Objects]
         /\ outer' \in [file : Spare \cup {None}, copy : Spare \cup {None}]
<1>0. /\ ppc = "execute" /\ ppc' = "wait" /\ stage = line.stages
      /\ UNCHANGED <<copies, stage, line>>
      /\ IF line.redirected THEN fds' = Redirected.table /\ outer' = Redirected.outer
         ELSE UNCHANGED <<fds, outer>>
      /\ stage = Len(copies) + 1
  BY DEF ExecuteLast, Descriptors, Place
<1>1. stage \in 1..MaxStages /\ Len(copies) \in Nat
  BY <1>0, CopiesAre DEF TypeOK
<1>2. ~Piping /\ ~Redirecting /\ ~Piping' /\ (Redirecting' <=> line.redirected)
  BY <1>0, <1>1 DEF Piping, Redirecting
<1>3. Held' = Held /\ OpenOnly(fds, Held) /\ Table(fds)
  BY <1>0, <1>2, ExecutingTable DEF Held, Descriptors, Extras
<1>4. Room' /\ Place'
  BY <1>0 DEF Descriptors, Room, Place
<1>5. CASE ~line.redirected
  <2>1. UNCHANGED <<fds, outer>>
    BY <1>0, <1>5
  <2>2. Copies' /\ Streams' /\ Extras'
    BY <1>0, <1>2, <1>3, <1>5, <2>1 DEF Descriptors, Copies, Streams, Extras, OpenOnly
  <2> QED BY <1>4, <2>1, <2>2 DEF Descriptors, TypeOK
<1>6. CASE line.redirected
  <2>1. PICK one, two \in Spare : one # two /\ fds[one] = Closed /\ fds[two] = Closed
    BY <1>0 DEF Descriptors, Room
  <2>2. PICK file, copy \in Spare :
           /\ file # copy /\ fds[file] = Closed /\ fds[copy] = Closed
           /\ Redirected.outer = [file |-> file, copy |-> copy]
           /\ Redirected.table = [fd \in 0..FdMax |-> IF fd \in {1, file} THEN File
                                                      ELSE IF fd = copy THEN fds[1]
                                                      ELSE fds[fd]]
    BY <1>3, <2>1, RedirectedIs
  <2>3. /\ \A fd \in 0..FdMax : fds'[fd] = IF fd \in {1, file} THEN File
                                           ELSE IF fd = copy THEN fds[1] ELSE fds[fd]
        /\ fds' = [fd \in 0..FdMax |-> fds'[fd]]
        /\ outer' = [file |-> file, copy |-> copy]
    BY <1>0, <1>6, <2>2
  <2>4. /\ {0, 1, 2, file, copy} \subseteq 0..FdMax /\ Spare \subseteq 0..FdMax
        /\ file \notin {0, 1, 2} /\ copy \notin {0, 1, 2} /\ file # None /\ copy # None /\ 1 \notin Spare
    BY SparesAre
  <2>5. /\ fds'[0] = fds[0] /\ fds'[1] = File /\ fds'[2] = fds[2]
        /\ fds'[file] = File /\ fds'[copy] = fds[1]
        /\ \A fd \in Spare : fd \notin {file, copy} => fds'[fd] = fds[fd]
    <3>1. fds'[0] = fds[0] /\ fds'[1] = File /\ fds'[2] = fds[2]
      BY <2>3, <2>4
    <3>2. fds'[file] = File /\ fds'[copy] = fds[1]
      BY <2>2, <2>3, <2>4
    <3>3. \A fd \in Spare : fd \notin {file, copy} => fds'[fd] = fds[fd]
      BY <2>3, <2>4
    <3> QED BY <3>1, <3>2, <3>3
  <2>6. fds[1] = Tty(1) /\ fds[1] \in Objects
    BY <1>2, ObjectsAre DEF Descriptors, Streams, STDOUT
  <2>7. fds' \in [0..FdMax -> Objects]
    BY <2>3, <2>6, ObjectsAre DEF TypeOK
  <2>8. \A fd \in Held : fd \in Spare /\ fd \notin {file, copy} /\ fds'[fd] = fds[fd]
    BY <2>2, <2>5, HeldAre DEF Descriptors
  <2>9. Copies'
    <3>1. \A i \in DOMAIN copies : copies[i] # None => copies[i] \in Held
      BY DEF Held
    <3> QED BY <1>0, <2>8, <3>1 DEF Descriptors, Copies
  <2>10. Streams'
    BY <1>0, <1>2, <1>6, <2>5 DEF Descriptors, Streams, STDIN, STDOUT
  <2>11. Extras'
    <3>1. OpenOnly(fds', Held' \cup {file, copy})
      BY <1>3, <2>5 DEF OpenOnly
    <3>2. outer'.file = file /\ outer'.copy = copy
      BY <2>3
    <3>3. fds'[outer'.file] = File /\ fds'[outer'.copy] = Tty(1) /\ outer'.file # outer'.copy
          /\ outer'.file # None /\ outer'.copy # None
      BY <2>2, <2>4, <2>5, <2>6, <3>2
    <3>4. OpenOnly(fds', Held' \cup {outer'.file, outer'.copy})
      BY <3>1, <3>2
    <3> QED BY <1>2, <1>6, <3>3, <3>4 DEF Extras
  <2>12. outer' \in [file : Spare \cup {None}, copy : Spare \cup {None}]
    BY <2>3
  <2> QED BY <1>4, <2>7, <2>9, <2>10, <2>11, <2>12 DEF Descriptors
<1> QED BY <1>5, <1>6

(* The redirection is undone before the copies are taken back.             *)
LEMMA LastEndedDescriptors ==
  ASSUME EnoughFds, TypeOK, Descriptors, LastEnded
  PROVE  Descriptors' /\ fds' \in [0..FdMax -> Objects]
<1>0. /\ ppc = "wait" /\ ppc' = "restore" /\ stage = line.stages
      /\ fds' = IF line.redirected THEN Undirected ELSE fds
      /\ UNCHANGED <<copies, stage, line>>
  BY DEF LastEnded
<1>1. ~Piping /\ ~Piping' /\ ~Redirecting' /\ (Redirecting <=> line.redirected)
  <2>1. line.stages \in Nat
    BY PipeAssumption DEF TypeOK
  <2> QED BY <1>0, <2>1 DEF Piping, Redirecting
<1>2. Held' = Held
  BY <1>0 DEF Held
<1>3. Room' /\ Place'
  BY <1>0 DEF Room, Place
<1>4. CASE ~line.redirected
  <2>1. UNCHANGED fds
    BY <1>0, <1>4
  <2>2. Copies' /\ Streams' /\ Extras'
    BY <1>0, <1>1, <1>2, <1>4, <2>1 DEF Descriptors, Copies, Streams, Extras, OpenOnly
  <2> QED BY <1>3, <2>1, <2>2 DEF Descriptors, TypeOK
<1>5. CASE line.redirected
  <2>1. PICK file, copy \in Spare : file = outer.file /\ copy = outer.copy
    BY <1>1, <1>5 DEF TypeOK, Descriptors, Extras
  <2>2. /\ file # copy /\ fds[file] = File /\ fds[copy] = Tty(1)
        /\ OpenOnly(fds, Held \cup {file, copy})
    BY <1>1, <1>5, <2>1 DEF Descriptors, Extras
  <2>3. fds' = [fd \in 0..FdMax |-> IF fd = 1 THEN Tty(1)
                                    ELSE IF fd \in {file, copy} THEN Closed ELSE fds[fd]]
    <3>1. Table(fds)
      BY <1>0, ExecutingTable DEF Descriptors
    <3> QED BY <1>0, <1>5, <2>1, <2>2, <3>1, UndirectedIs
  <2>4. /\ {0, 1, 2, file, copy} \subseteq 0..FdMax /\ Spare \subseteq 0..FdMax
        /\ file \notin {0, 1, 2} /\ copy \notin {0, 1, 2} /\ 1 \notin Spare
    BY SparesAre
  <2>5. /\ fds'[0] = fds[0] /\ fds'[1] = Tty(1) /\ fds'[2] = fds[2]
        /\ fds'[file] = Closed /\ fds'[copy] = Closed
        /\ \A fd \in Spare : fd \notin {file, copy} => fds'[fd] = fds[fd]
    <3>1. fds'[0] = fds[0] /\ fds'[1] = Tty(1) /\ fds'[2] = fds[2]
      BY <2>3, <2>4
    <3>2. fds'[file] = Closed /\ fds'[copy] = Closed
      BY <2>3, <2>4
    <3>3. \A fd \in Spare : fd \notin {file, copy} => fds'[fd] = fds[fd]
      BY <2>3, <2>4
    <3> QED BY <3>1, <3>2, <3>3
  <2>6. fds' \in [0..FdMax -> Objects]
    BY <2>3, ObjectsAre DEF TypeOK
  <2>7. \A fd \in Held : fd \in Spare /\ fds[fd] # File /\ fds[fd] # Tty(1)
    BY HeldAre DEF Descriptors, Tty, File, ReadEnd
  <2>8. \A fd \in Held : fds'[fd] = fds[fd]
    BY <2>2, <2>5, <2>7
  <2>9. Copies'
    <3>1. \A i \in DOMAIN copies : copies[i] # None => copies[i] \in Held
      BY DEF Held
    <3> QED BY <1>0, <2>8, <3>1 DEF Descriptors, Copies
  <2>10. Streams'
    BY <1>0, <1>1, <2>5 DEF Descriptors, Streams, STDIN, STDOUT
  <2>11. OpenOnly(fds', Held')
    BY <1>2, <2>2, <2>5 DEF OpenOnly
  <2>12. Extras'
    BY <1>1, <2>11 DEF Extras
  <2> QED BY <1>3, <2>6, <2>9, <2>10, <2>12 DEF Descriptors
<1> QED BY <1>4, <1>5

(* The copies are taken back from the last to the first: the first one is  *)
(* there, and is the terminal.                                             *)
LEMMA RestoreDescriptors ==
  ASSUME EnoughFds, TypeOK, Descriptors, Restore
  PROVE  /\ Descriptors' /\ fds' \in [0..FdMax -> Objects]
         /\ copies' \in Seq(Spare \cup {None})
<1>0. ppc = "restore" /\ UNCHANGED <<outer, stage, line>> /\ ppc' \in {"restore", "prompt"}
  BY DEF Restore
<1>1. ~Piping /\ ~Redirecting /\ ~Piping' /\ ~Redirecting' /\ OpenOnly(fds, Held)
  BY <1>0 DEF Piping, Redirecting, Descriptors, Extras
<1>2. CASE copies = <<>>
  <2>1. UNCHANGED <<fds, copies>> /\ ppc' = "prompt"
    BY <1>2 DEF Restore
  <2>2. Copies' /\ Streams' /\ Extras' /\ Room' /\ Place'
    BY <1>0, <1>1, <1>2, <2>1
       DEF Descriptors, Copies, Streams, Extras, OpenOnly, Held, Room, Place
  <2> QED BY <2>1, <2>2 DEF Descriptors, TypeOK
<1>3. CASE copies # <<>>
  <2>0. PICK n, copy : n = Len(copies) /\ copy = copies[n]
    OBVIOUS
  <2>1. /\ n \in Nat /\ n > 0 /\ n \in DOMAIN copies /\ DOMAIN copies = 1..n
        /\ copies \in Seq(Spare \cup {None}) /\ copy \in Spare \cup {None}
    BY <1>3, <2>0, CopiesAre DEF TypeOK
  <2>2. copies' = SubSeq(copies, 1, n - 1) /\ ppc' = "restore"
        /\ fds' = sclose(sdup2(fds, copy, 0), copy)
    BY <1>0, <1>3, <2>0 DEF Restore, Last, Front, STDIN
  <2>3. /\ copies' \in Seq(Spare \cup {None}) /\ Len(copies') = n - 1
        /\ DOMAIN copies' = 1..(n - 1) /\ \A i \in 1..(n - 1) : copies'[i] = copies[i]
    <3>1. n - 1 \in Nat /\ 1 \in 1..(Len(copies) + 1) /\ n - 1 \in 0..Len(copies)
      BY <2>0, <2>1
    <3>2. \A i \in 1..(n - 1) : i \in 1..Len(copies)
      BY <2>0, <2>1
    <3>3. copies' = [i \in 1..(n - 1) |-> copies[i]]
      BY <2>1, <2>2, <3>1
    <3>4. copies' \in [1..(n - 1) -> Spare \cup {None}]
      BY <2>0, <3>2, <3>3, CopiesAre
    <3> QED BY <3>1, <3>3, <3>4
  <2>4. copy # None => copy \in Held
    BY <2>0, <2>1 DEF Held
  <2>5. copy # None =>
          /\ copy \in Spare /\ fds[copy] # Closed
          /\ fds[copy] = IF n = 1 THEN Tty(0) ELSE ReadEnd(n - 1)
    BY <2>0, <2>1, <2>4, HeldAre DEF Descriptors, Copies
  <2>6. n = 1 => copy # None
    BY <1>3, <2>0 DEF Descriptors, Copies
  <2>7. fds' = [fd \in 0..FdMax |-> IF copy = None THEN fds[fd]
                                    ELSE IF fd = copy THEN Closed
                                    ELSE IF fd = 0 THEN fds[copy] ELSE fds[fd]]
    <3>1. CASE copy = None
      BY <2>2, <3>1 DEF sdup2, sclose, TypeOK
    <3>2. CASE copy # None
      <4>1. copy \in 0..FdMax /\ copy # 0
        BY <2>5, <3>2, SparesAre
      <4>2. fds' = [[fds EXCEPT ![0] = fds[copy]] EXCEPT ![copy] = Closed]
        BY <2>2, <2>5, <3>2 DEF sdup2, sclose
      <4> QED BY <3>2, <4>1, <4>2, SparesAre DEF TypeOK
    <3> QED BY <3>1, <3>2
  <2>8. fds' \in [0..FdMax -> Objects]
    <3>1. copy # None => fds[copy] \in Objects
      BY <2>5, SparesAre DEF TypeOK
    <3> QED BY <2>7, <3>1, ObjectsAre DEF TypeOK
  <2>9. /\ copy # None => fds'[0] = fds[copy] /\ fds'[copy] = Closed
        /\ fds'[1] = fds[1] /\ fds'[2] = fds[2]
        /\ \A fd \in Spare : fd # copy => fds'[fd] = fds[fd]
    <3>1. /\ {0, 1, 2} \subseteq 0..FdMax /\ Spare \subseteq 0..FdMax
          /\ copy \notin {0, 1, 2} /\ {0, 1, 2} \cap Spare = {}
      BY <2>1, SparesAre DEF None
    <3>2. copy # None => fds'[0] = fds[copy] /\ fds'[copy] = Closed
      BY <2>5, <2>7, <3>1
    <3>3. fds'[1] = fds[1] /\ fds'[2] = fds[2]
      BY <2>7, <3>1
    <3>4. \A fd \in Spare : fd # copy => fds'[fd] = fds[fd]
      BY <2>7, <3>1
    <3> QED BY <3>2, <3>3, <3>4
  <2>10. \A i \in 1..(n - 1) : copies[i] # None =>
           /\ copies[i] \in Spare /\ copies[i] # copy
           /\ fds[copies[i]] = IF i = 1 THEN Tty(0) ELSE ReadEnd(i - 1)
    <3> SUFFICES ASSUME NEW i \in 1..(n - 1), copies[i] # None
                 PROVE  /\ copies[i] \in Spare /\ copies[i] # copy
                        /\ fds[copies[i]] = IF i = 1 THEN Tty(0) ELSE ReadEnd(i - 1)
      OBVIOUS
    <3>1. i \in DOMAIN copies /\ i # n /\ n # 1 /\ i \in Nat
      BY <2>1
    <3>2. copies[i] \in Spare /\ fds[copies[i]] = IF i = 1 THEN Tty(0) ELSE ReadEnd(i - 1)
      BY <3>1, CopiesAre DEF Descriptors, Copies
    <3>3. i - 1 # n - 1
      BY <2>1, <3>1
    <3>4. fds[copies[i]] # fds[copy] \/ copy = None
      <4>1. copy # None => fds[copy] = ReadEnd(n - 1)
        BY <2>5, <3>1
      <4>2. CASE i = 1
        BY <3>2, <4>1, <4>2 DEF Tty, ReadEnd
      <4>3. CASE i # 1
        BY <3>2, <3>3, <4>1, <4>3 DEF ReadEnd
      <4> QED BY <4>2, <4>3
    <3> QED BY <3>2, <3>4
  <2>11. Copies'
    <3>1. copies' # <<>> => copies'[1] # None
      <4>1. CASE n = 1
        BY <2>3, <4>1
      <4>2. CASE n # 1
        <5>1. 1 \in 1..(n - 1)
          BY <2>1, <4>2
        <5> QED BY <1>3, <2>3, <5>1 DEF Descriptors, Copies
      <4> QED BY <4>1, <4>2
    <3>2. \A i \in DOMAIN copies' : copies'[i] # None =>
            fds'[copies'[i]] = IF i = 1 THEN Tty(0) ELSE ReadEnd(i - 1)
      BY <2>3, <2>9, <2>10
    <3> QED BY <3>1, <3>2 DEF Copies
  <2>12. Streams'
    <3>1. copies' = <<>> => n = 1
      BY <2>1, <2>3
    <3> QED BY <1>1, <2>2, <2>5, <2>6, <2>9, <3>1 DEF Descriptors, Streams, STDIN, STDOUT
  <2>13. Extras'
    <3>1. \A fd \in Held : fd # copy => fd \in Held'
      <4> SUFFICES ASSUME NEW fd \in Held, fd # copy PROVE fd \in Held'
        OBVIOUS
      <4>1. PICK i \in 1..n : fd = copies[i] /\ fd # None
        BY <2>1 DEF Held
      <4>2. i \in 1..(n - 1)
        BY <2>0, <2>1, <4>1
      <4> QED BY <2>3, <4>1, <4>2 DEF Held
    <3>2. OpenOnly(fds', Held')
      <4> SUFFICES ASSUME NEW fd \in Spare, fds'[fd] # Closed PROVE fd \in Held'
        BY DEF OpenOnly
      <4>1. fd # copy
        BY <2>9, SparesAre
      <4>2. fd \in Held
        BY <1>1, <2>9, <4>1 DEF OpenOnly
      <4> QED BY <3>1, <4>1, <4>2
    <3> QED BY <1>1, <3>2 DEF Extras
  <2>14. Room' /\ Place'
    BY <2>2 DEF Room, Place
  <2> QED BY <2>3, <2>8, <2>11, <2>12, <2>13, <2>14 DEF Descriptors
<1> QED BY <1>2, <1>3

-----------------------------------------------------------------------------
(* The bytes, step by step                                                 *)

(* The ranges of the numbers, for arithmetic                               *)
LEMMA Numbers ==
  ASSUME TypeOK, Place
  PROVE  /\ stage \in Nat /\ line.stages \in Nat /\ line.stages <= MaxStages
         /\ ppc \in {"execute", "wait"} => /\ stage \in 1..MaxStages /\ stage = Len(copies) + 1
                                           /\ stage <= line.stages
                                           /\ stage > 1 => stage - 1 \in 1..MaxStages
         /\ MaxStages \in Nat /\ sent \in Nat /\ child.bytes \in Nat
         /\ \A i \in 1..MaxStages : content[i] \in Nat
<1>1. /\ stage \in 0..MaxStages /\ line.stages \in 0..MaxStages /\ MaxStages \in Nat
      /\ sent \in Nat /\ child.bytes \in Nat /\ \A i \in 1..MaxStages : content[i] \in Nat
  BY PipeAssumption DEF TypeOK
<1>2. ppc \in {"execute", "wait"} => stage = Len(copies) + 1 /\ stage <= line.stages
  BY DEF Place
<1>3. ppc \in {"execute", "wait"} => stage \in 1..MaxStages
  BY <1>1, <1>2, CopiesAre
<1> QED BY <1>1, <1>2, <1>3

(* The child of a later stage reads the pipe of the stage before it.       *)
LEMMA ReadsTheStageBefore ==
  ASSUME TypeOK, Descriptors, ppc = "wait", NEW i \in 1..MaxStages, fds[STDIN] = ReadEnd(i)
  PROVE  i = stage - 1
<1>1. copies # <<>>
  BY DEF Descriptors, Streams, Tty, ReadEnd
<1>2. ReadEnd(i) = ReadEnd(Len(copies))
  BY <1>1 DEF Descriptors, Streams
<1>3. i = Len(copies)
  BY <1>2 DEF ReadEnd
<1> QED BY <1>3, CopiesAre DEF Descriptors, Place

(* What the shell's own steps do to the bytes                              *)
LEMMA ShellFlow ==
  ASSUME TypeOK, Descriptors, Flow, Read \/ Execute
  PROVE  Flow'
<1>0. Place
  BY DEF Descriptors
<1>1. CASE Read
  <2>1. /\ ppc' = "execute" /\ stage' = 1 /\ content' = [i \in 1..MaxStages |-> 0]
        /\ printed' = None /\ child' = child /\ child = NoChild
    BY <1>1 DEF Read, Flow
  <2>2. 1 \in 1..MaxStages
    BY PipeAssumption
  <2> QED BY <2>1, <2>2 DEF Flow, Piping
<1>2. CASE MakePipe
  <2>1. /\ ppc = "execute" /\ ppc' = "wait" /\ stage < line.stages /\ child' = Forked
        /\ UNCHANGED <<stage, line, content, sent, printed>>
    BY <1>2 DEF MakePipe
  <2>2. /\ stage > 1 => content[stage - 1] = sent
        /\ content[stage] = 0 /\ printed = None
        /\ \A i \in 1..MaxStages : i > stage => content[i] = 0
    BY <2>1 DEF Flow
  <2>3. Out' = 0
    BY <2>1, <2>2 DEF Out
  <2>4. CASE stage = 1
    <3>1. child' = [state |-> "writing", bytes |-> sent]
      BY <2>1, <2>4 DEF Forked
    <3> QED BY <1>0, <2>1, <2>2, <2>3, <3>1, Numbers DEF Flow, Piping
  <2>5. CASE stage # 1
    <3>1. child' = [state |-> "reading", bytes |-> 0]
      BY <2>1, <2>5 DEF Forked
    <3>2. stage > 1 /\ content[stage - 1] + 0 = sent
      BY <1>0, <2>1, <2>2, <2>5, Numbers
    <3> QED BY <2>1, <2>2, <2>3, <3>1, <3>2 DEF Flow, Piping
  <2> QED BY <2>4, <2>5
<1>3. CASE PipeFails \/ OpenFails
  <2>1. ppc = "execute" /\ ppc' = "restore" /\ UNCHANGED <<child, printed, sent>>
    BY <1>3 DEF PipeFails, OpenFails
  <2> QED BY <2>1 DEF Flow, Piping
<1>4. CASE NextStage
  <2>1. /\ ppc = "wait" /\ ppc' = "execute" /\ stage < line.stages /\ child = NoChild
        /\ stage' = stage + 1 /\ UNCHANGED <<line, child, content, sent, printed>>
    BY <1>4 DEF NextStage
  <2>2. content[stage] = sent /\ printed = None
    <3>1. child.state = "none" /\ stage # line.stages
      BY <1>0, <2>1, Numbers DEF NoChild
    <3>2. Out = sent
      BY <2>1, <3>1 DEF Flow
    <3> QED BY <2>1, <3>2 DEF Out, Flow, Piping
  <2>3. /\ stage + 1 - 1 = stage /\ stage + 1 > stage /\ stage + 1 \in 1..MaxStages
        /\ \A i \in 1..MaxStages : i > stage + 1 => i > stage
    BY <1>0, <2>1, Numbers
  <2>4. \A i \in 1..MaxStages : i > stage => content[i] = 0
    BY <2>1 DEF Flow
  <2>5. /\ stage' - 1 = stage /\ content'[stage'] = 0
        /\ \A i \in 1..MaxStages : i > stage' => content'[i] = 0
    <3>1. stage' - 1 = stage
      BY <1>0, <2>1, Numbers
    <3>2. content[stage + 1] = 0
      BY <2>3, <2>4
    <3>3. \A i \in 1..MaxStages : i > stage + 1 => content[i] = 0
      BY <2>3, <2>4
    <3> QED BY <2>1, <3>1, <3>2, <3>3
  <2>6. content'[stage' - 1] = sent' /\ printed' = None /\ child' = NoChild
    BY <2>1, <2>2, <2>5
  <2>7. ppc' = "execute" /\ ~Piping'
    BY <2>1 DEF Piping
  <2> QED BY <2>5, <2>6, <2>7 DEF Flow
<1>5. CASE ExecuteLast
  <2>1. /\ ppc = "execute" /\ ppc' = "wait" /\ stage = line.stages /\ child' \in {Forked, NoChild}
        /\ printed' = IF child' = NoChild THEN None ELSE 0
        /\ UNCHANGED <<stage, line, content, sent>>
    BY <1>5 DEF ExecuteLast
  <2>2. /\ stage > 1 => content[stage - 1] = sent
        /\ \A i \in 1..MaxStages : i > stage => content[i] = 0
    BY <2>1 DEF Flow
  <2>3. ~(stage < line.stages)
    BY <1>0, <2>1, Numbers
  <2>4. CASE child' = NoChild
    BY <2>1, <2>2, <2>3, <2>4 DEF Flow, Piping
  <2>5. CASE child' # NoChild
    <3>1. printed' = 0 /\ Out' = 0 /\ child' = Forked
      BY <2>1, <2>3, <2>5 DEF Out
    <3>2. CASE stage = 1
      <4>1. child' = [state |-> "writing", bytes |-> sent]
        BY <3>1, <3>2 DEF Forked
      <4> QED BY <1>0, <2>1, <2>2, <2>3, <3>1, <4>1, Numbers DEF Flow, Piping
    <3>3. CASE stage # 1
      <4>1. child' = [state |-> "reading", bytes |-> 0]
        BY <3>1, <3>3 DEF Forked
      <4>2. stage > 1 /\ content[stage - 1] + 0 = sent
        BY <1>0, <2>1, <2>2, <3>3, Numbers
      <4> QED BY <2>1, <2>2, <2>3, <3>1, <4>1, <4>2 DEF Flow, Piping
    <3> QED BY <3>2, <3>3
  <2> QED BY <2>4, <2>5
<1>6. CASE LastEnded
  <2>1. /\ ppc = "wait" /\ ppc' = "restore" /\ stage = line.stages /\ child = NoChild
        /\ UNCHANGED <<child, printed, sent>>
    BY <1>6 DEF LastEnded
  <2>2. child.state = "none" /\ Out = printed
    BY <1>0, <2>1, Numbers DEF NoChild, Out
  <2>3. printed \in {None, sent}
    BY <2>1, <2>2 DEF Flow
  <2> QED BY <2>1, <2>3 DEF Flow, Piping
<1>7. CASE Restore
  <2>1. /\ ppc = "restore" /\ ppc' \in {"restore", "prompt"} /\ UNCHANGED <<child, printed, sent>>
    BY <1>7 DEF Restore
  <2> QED BY <2>1 DEF Flow, Piping
<1> QED BY <1>1, <1>2, <1>3, <1>4, <1>5, <1>6, <1>7 DEF Execute

(* A byte that the child reads it holds, until it is in the next pipe or   *)
(* printed.                                                                *)
LEMMA ChildFlow ==
  ASSUME TypeOK, Descriptors, Flow, Child
  PROVE  /\ Flow' /\ ppc = "wait" /\ UNCHANGED <<fds, copies, outer, stage, line, ppc, sent>>
         /\ child' \in [state : {"none", "reading", "writing"}, bytes : Nat]
         /\ child'.state = "none" => child' = NoChild
         /\ content' \in [1..MaxStages -> Nat] /\ printed' \in Nat \cup {None}
<1>0. Place
  BY DEF Descriptors
<1>1. /\ ppc = "wait" /\ child.state \in {"reading", "writing"} /\ child.state # "none"
      /\ UNCHANGED <<fds, copies, outer, stage, line, ppc, sent>>
  BY DEF Child, ChildReads, ChildAtEnd, ChildWrites, ChildExits
<1>2. /\ Out \in Nat
      /\ child.state = "reading" => stage > 1 /\ content[stage - 1] + child.bytes = sent /\ Out = 0
      /\ child.state = "writing" => child.bytes + Out = sent
      /\ Piping => printed = None
      /\ \A i \in 1..MaxStages : i > stage => content[i] = 0
  BY <1>1 DEF Flow, NoChild
<1>3. /\ stage \in 1..MaxStages /\ MaxStages \in Nat /\ sent \in Nat /\ child.bytes \in Nat
      /\ \A i \in 1..MaxStages : content[i] \in Nat
      /\ stage > 1 => stage - 1 \in 1..MaxStages
      /\ line.stages \in Nat /\ stage <= line.stages
  BY <1>0, <1>1, Numbers
<1>4. /\ child \in [state : {"none", "reading", "writing"}, bytes : Nat]
      /\ content \in [1..MaxStages -> Nat] /\ printed \in Nat \cup {None}
  BY DEF TypeOK
<1>5. Piping' <=> Piping
  BY <1>1 DEF Piping
<1>6. CASE ChildReads
  <2>1. PICK i \in 1..MaxStages : /\ fds[STDIN] = ReadEnd(i) /\ content[i] > 0
                                  /\ content' = [content EXCEPT ![i] = content[i] - 1]
    BY <1>6 DEF ChildReads
  <2>2. i = stage - 1
    BY <1>1, <2>1, ReadsTheStageBefore
  <2>3. child' = [child EXCEPT !.bytes = child.bytes + 1] /\ UNCHANGED printed
        /\ child.state = "reading"
    BY <1>6 DEF ChildReads
  <2>4. child'.state = "reading" /\ child'.bytes = child.bytes + 1
    BY <1>4, <2>3
  <2>5. /\ content'[stage - 1] = content[stage - 1] - 1 /\ content'[stage] = content[stage]
        /\ \A j \in 1..MaxStages : j > stage => content'[j] = 0
    BY <1>2, <1>3, <1>4, <2>1, <2>2
  <2>6. content' \in [1..MaxStages -> Nat]
    BY <1>3, <1>4, <2>1
  <2>7. Out' = Out
    BY <1>1, <2>3, <2>5 DEF Out
  <2>8. content'[stage - 1] + child'.bytes = sent
    BY <1>2, <1>3, <2>1, <2>2, <2>3, <2>4, <2>5
  <2>9. Flow'
    BY <1>1, <1>2, <1>5, <2>3, <2>4, <2>5, <2>7, <2>8 DEF Flow
  <2> QED BY <1>1, <1>3, <1>4, <2>3, <2>4, <2>6, <2>9
<1>7. CASE ChildAtEnd
  <2>1. PICK i \in 1..MaxStages : fds[STDIN] = ReadEnd(i) /\ content[i] = 0
    BY <1>7 DEF ChildAtEnd
  <2>2. i = stage - 1
    BY <1>1, <2>1, ReadsTheStageBefore
  <2>3. child' = [child EXCEPT !.state = "writing"] /\ UNCHANGED <<content, printed>>
        /\ child.state = "reading"
    BY <1>7 DEF ChildAtEnd
  <2>4. child'.state = "writing" /\ child'.bytes = child.bytes
    BY <1>4, <2>3
  <2>5. Out' = Out
    BY <1>1, <2>3 DEF Out
  <2>6. child'.bytes + Out' = sent
    BY <1>2, <1>3, <2>1, <2>2, <2>3, <2>4, <2>5
  <2>7. Flow'
    BY <1>1, <1>2, <1>5, <2>3, <2>4, <2>5, <2>6 DEF Flow
  <2> QED BY <1>1, <1>4, <2>3, <2>4, <2>7
<1>8. CASE ChildWrites
  <2>1. /\ child.state = "writing" /\ child.bytes > 0
        /\ child' = [child EXCEPT !.bytes = child.bytes - 1]
    BY <1>8 DEF ChildWrites
  <2>2. child'.state = "writing" /\ child'.bytes = child.bytes - 1 /\ child'.bytes \in Nat
    BY <1>3, <1>4, <2>1
  <2>3. CASE stage < line.stages
    <3>1. content' = [content EXCEPT ![stage] = content[stage] + 1] /\ UNCHANGED printed
      BY <1>8, <2>3 DEF ChildWrites
    <3>2. /\ content'[stage] = content[stage] + 1
          /\ \A j \in 1..MaxStages : j > stage => content'[j] = 0
      BY <1>2, <1>3, <1>4, <3>1
    <3>3. content' \in [1..MaxStages -> Nat]
      BY <1>3, <1>4, <3>1
    <3>4. Out = content[stage] /\ Out' = content[stage] + 1
      BY <1>1, <2>3, <3>2 DEF Out
    <3>5. child'.bytes + Out' = sent /\ Out' \in Nat
      BY <1>2, <1>3, <2>1, <2>2, <3>4
    <3>6. Flow'
      BY <1>1, <1>2, <1>5, <2>2, <3>1, <3>2, <3>5 DEF Flow
    <3> QED BY <1>1, <1>4, <2>1, <2>2, <3>1, <3>3, <3>6
  <2>4. CASE ~(stage < line.stages)
    <3>1. printed' = printed + 1 /\ UNCHANGED content
      BY <1>8, <2>4 DEF ChildWrites
    <3>2. Out = printed /\ Out' = printed + 1
      BY <1>1, <2>4, <3>1 DEF Out
    <3>3. child'.bytes + Out' = sent /\ Out' \in Nat /\ printed' \in Nat
      BY <1>2, <1>3, <2>1, <2>2, <3>1, <3>2
    <3>4. ~Piping'
      BY <1>1, <2>4 DEF Piping
    <3>5. Flow'
      BY <1>1, <1>2, <2>2, <3>1, <3>3, <3>4 DEF Flow
    <3> QED BY <1>1, <1>4, <2>1, <2>2, <3>1, <3>3, <3>5
  <2> QED BY <2>3, <2>4
<1>9. CASE ChildExits
  <2>1. /\ child.state = "writing" /\ child.bytes = 0 /\ child' = NoChild
        /\ UNCHANGED <<content, printed>>
    BY <1>9 DEF ChildExits
  <2>2. Out' = Out
    BY <1>1, <2>1 DEF Out
  <2>3. Out' = sent
    BY <1>2, <2>1, <2>2
  <2>4. child'.state = "none" /\ child'.state # "reading" /\ child'.state # "writing"
    BY <2>1 DEF NoChild
  <2>5. Flow'
    BY <1>1, <1>2, <1>5, <2>1, <2>2, <2>3, <2>4 DEF Flow
  <2>6. NoChild \in [state : {"none", "reading", "writing"}, bytes : Nat]
    BY DEF NoChild
  <2> QED BY <1>1, <1>4, <2>1, <2>5, <2>6
<1> QED BY <1>6, <1>7, <1>8, <1>9 DEF Child

-----------------------------------------------------------------------------
(* The invariant and what follows from it                                  *)

LEMMA InvInit ==
  ASSUME EnoughFds, PipeInit
  PROVE  Inv
<1>1. /\ fds = Std /\ copies = <<>> /\ outer = NoRedirection /\ stage = 0
      /\ line = [stages |-> 0, redirected |-> FALSE] /\ ppc = "prompt" /\ child = NoChild
      /\ content = [i \in 1..MaxStages |-> 0] /\ sent = 0 /\ printed = None
  BY DEF PipeInit
<1>2. fds \in [0..FdMax -> Objects]
  BY <1>1, ObjectsAre DEF Std
<1>3. TypeOK
  <2>1. copies \in Seq(Spare \cup {None})
    BY <1>1
  <2>2. outer \in [file : Spare \cup {None}, copy : Spare \cup {None}]
    BY <1>1 DEF NoRedirection
  <2>3. child \in [state : {"none", "reading", "writing"}, bytes : Nat]
    BY <1>1 DEF NoChild
  <2> QED BY <1>1, <1>2, <2>1, <2>2, <2>3, PipeAssumption DEF TypeOK
<1>4. fds[0] = Tty(0) /\ fds[1] = Tty(1) /\ fds[2] = Tty(2) /\ \A fd \in Spare : fds[fd] = Closed
  <2>1. \A fd \in 0..FdMax : fds[fd] = IF fd <= 2 THEN Tty(fd) ELSE Closed
    BY <1>1 DEF Std
  <2>2. \A fd \in Spare : ~(fd <= 2)
    BY FdAssumption DEF Spare
  <2> QED BY <2>1, <2>2, SparesAre
<1>5. ~Piping /\ ~Redirecting
  BY <1>1 DEF Piping, Redirecting
<1>6. Descriptors
  BY <1>1, <1>4, <1>5
     DEF Descriptors, Copies, Streams, Extras, OpenOnly, Room, Place, STDIN, STDOUT
<1>7. Flow
  BY <1>1, <1>5 DEF Flow
<1> QED BY <1>3, <1>6, <1>7 DEF Inv

(* Every step of the shell, of the child and of the line read keeps it.    *)
LEMMA InvNext ==
  ASSUME EnoughFds, Inv, [PipeNext]_pipeVars
  PROVE  Inv'
<1>0. TypeOK /\ Descriptors /\ Flow
  BY DEF Inv
<1>1. CASE Read
  <2>1. TypeOK'
    <3>1. /\ line' \in [stages : 1..MaxStages, redirected : BOOLEAN] /\ sent' \in 0..MaxBytes
          /\ stage' = 1 /\ ppc' = "execute" /\ content' = [i \in 1..MaxStages |-> 0]
          /\ printed' = None /\ UNCHANGED <<fds, copies, outer, child>>
      BY <1>1 DEF Read
    <3>2. 1..MaxStages \subseteq 0..MaxStages /\ 1 \in 0..MaxStages /\ sent' \in Nat
      BY <3>1, PipeAssumption
    <3>3. content' \in [1..MaxStages -> Nat]
      BY <3>1
    <3>4. line' \in [stages : 0..MaxStages, redirected : BOOLEAN]
      BY <3>1, <3>2
    <3> QED BY <1>0, <3>1, <3>2, <3>3, <3>4 DEF TypeOK
  <2> QED BY <1>0, <1>1, <2>1, ReadDescriptors, ShellFlow DEF Inv
<1>2. CASE MakePipe
  <2>1. Descriptors' /\ fds' \in [0..FdMax -> Objects]
    BY <1>0, <1>2, MakePipeDescriptors
  <2>2. TypeOK'
    <3>1. /\ ppc' = "wait" /\ child' = Forked
          /\ UNCHANGED <<copies, outer, stage, line, content, sent, printed>>
      BY <1>2 DEF MakePipe
    <3>2. child' \in [state : {"none", "reading", "writing"}, bytes : Nat]
          /\ child'.state # "none"
      BY <1>0, <3>1 DEF Forked, TypeOK
    <3> QED BY <1>0, <2>1, <3>1, <3>2 DEF TypeOK
  <2> QED BY <1>0, <1>2, <2>1, <2>2, ShellFlow DEF Inv, Execute
<1>3. CASE PipeFails \/ OpenFails
  <2>1. TypeOK'
    BY <1>0, <1>3 DEF TypeOK, PipeFails, OpenFails
  <2> QED BY <1>0, <1>3, <2>1, FailureDescriptors, ShellFlow DEF Inv, Execute
<1>4. CASE NextStage
  <2>1. Descriptors' /\ fds' \in [0..FdMax -> Objects] /\ copies' \in Seq(Spare \cup {None})
    BY <1>0, <1>4, NextStageDescriptors
  <2>2. TypeOK'
    <3>1. /\ ppc' = "execute" /\ stage < line.stages /\ stage' = stage + 1
          /\ UNCHANGED <<outer, line, child, content, sent, printed>>
      BY <1>4 DEF NextStage
    <3>2. stage' \in 0..MaxStages
      BY <1>0, <3>1, Numbers DEF Descriptors
    <3> QED BY <1>0, <2>1, <3>1, <3>2 DEF TypeOK
  <2> QED BY <1>0, <1>4, <2>1, <2>2, ShellFlow DEF Inv, Execute
<1>5. CASE ExecuteLast
  <2>1. /\ Descriptors' /\ fds' \in [0..FdMax -> Objects]
        /\ outer' \in [file : Spare \cup {None}, copy : Spare \cup {None}]
    BY <1>0, <1>5, ExecuteLastDescriptors
  <2>2. TypeOK'
    <3>1. /\ ppc' = "wait" /\ child' \in {Forked, NoChild} /\ printed' \in {None, 0}
          /\ UNCHANGED <<copies, stage, line, content, sent>>
      BY <1>5 DEF ExecuteLast
    <3>2. child' \in [state : {"none", "reading", "writing"}, bytes : Nat]
          /\ (child'.state = "none" => child' = NoChild)
      BY <1>0, <3>1 DEF Forked, NoChild, TypeOK
    <3> QED BY <1>0, <2>1, <3>1, <3>2 DEF TypeOK
  <2> QED BY <1>0, <1>5, <2>1, <2>2, ShellFlow DEF Inv, Execute
<1>6. CASE LastEnded
  <2>1. Descriptors' /\ fds' \in [0..FdMax -> Objects]
    BY <1>0, <1>6, LastEndedDescriptors
  <2>2. TypeOK'
    <3>1. /\ ppc' = "restore" /\ outer' = NoRedirection
          /\ UNCHANGED <<copies, stage, line, child, content, sent, printed>>
      BY <1>6 DEF LastEnded
    <3>2. outer' \in [file : Spare \cup {None}, copy : Spare \cup {None}]
      BY <3>1 DEF NoRedirection
    <3> QED BY <1>0, <2>1, <3>1, <3>2 DEF TypeOK
  <2> QED BY <1>0, <1>6, <2>1, <2>2, ShellFlow DEF Inv, Execute
<1>7. CASE Restore
  <2>1. Descriptors' /\ fds' \in [0..FdMax -> Objects] /\ copies' \in Seq(Spare \cup {None})
    BY <1>0, <1>7, RestoreDescriptors
  <2>2. TypeOK'
    <3>1. ppc' \in {"prompt", "restore"} /\ UNCHANGED <<outer, stage, line, child, content, sent, printed>>
      BY <1>7 DEF Restore
    <3> QED BY <1>0, <2>1, <3>1 DEF TypeOK
  <2> QED BY <1>0, <1>7, <2>1, <2>2, ShellFlow DEF Inv, Execute
<1>8. CASE Child
  <2>1. /\ Flow' /\ UNCHANGED <<fds, copies, outer, stage, line, ppc, sent>>
        /\ child' \in [state : {"none", "reading", "writing"}, bytes : Nat]
        /\ child'.state = "none" => child' = NoChild
        /\ content' \in [1..MaxStages -> Nat] /\ printed' \in Nat \cup {None}
    BY <1>0, <1>8, ChildFlow
  <2>2. TypeOK'
    BY <1>0, <2>1 DEF TypeOK
  <2> QED BY <1>0, <2>1, <2>2, DescriptorsStay DEF Inv
<1>9. CASE UNCHANGED pipeVars
  <2>1. UNCHANGED <<fds, copies, outer, stage, line, ppc, child, content, sent, printed>>
    BY <1>9 DEF pipeVars
  <2>2. TypeOK' /\ Descriptors' /\ Flow'
    BY <1>0, <2>1, DescriptorsStay DEF TypeOK, Flow, Out, Piping
  <2> QED BY <2>2 DEF Inv
<1> QED BY <1>1, <1>2, <1>3, <1>4, <1>5, <1>6, <1>7, <1>8, <1>9 DEF PipeNext, Execute

LEMMA Invariant == EnoughFds /\ PipeSpec => []Inv
<1>1. CASE EnoughFds
  <2>1. PipeInit => Inv
    BY <1>1, InvInit
  <2>2. Inv /\ [PipeNext]_pipeVars => Inv'
    BY <1>1, InvNext
  <2> QED BY <2>1, <2>2, PTL DEF PipeSpec
<1>2. CASE ~EnoughFds
  BY <1>2
<1> QED BY <1>1, <1>2

(* PipeCommand and RedirectionCommand: at the prompt the shell has its     *)
(* three standard descriptors, and no other one open, as long as three     *)
(* descriptors are left for a first pipe and its copy.                     *)
THEOREM StdioIsRestored == EnoughFds /\ PipeSpec => []StdioRestored
<1>1. ASSUME EnoughFds, Inv, ppc = "prompt" PROVE fds = Std /\ copies = <<>>
  <2>1. copies = <<>>
    BY <1>1 DEF Inv, Descriptors, Place
  <2>2. ~Piping /\ ~Redirecting /\ Held = {}
    BY <1>1, <2>1 DEF Piping, Redirecting, Held
  <2>3. fds[0] = Tty(0) /\ fds[1] = Tty(1) /\ fds[2] = Tty(2)
    BY <1>1, <2>1, <2>2 DEF Inv, Descriptors, Streams, STDIN, STDOUT
  <2>4. \A fd \in Spare : fds[fd] = Closed
    BY <1>1, <2>2 DEF Inv, Descriptors, Extras, OpenOnly
  <2>5. \A fd \in 0..FdMax : fds[fd] = IF fd <= 2 THEN Tty(fd) ELSE Closed
    <3>1. \A fd \in Spare : ~(fd <= 2)
      BY FdAssumption DEF Spare
    <3> QED BY <1>1, <2>3, <2>4, <3>1, SparesAre
  <2> QED BY <1>1, <2>1, <2>5 DEF Inv, TypeOK, Std
<1>2. CASE EnoughFds
  <2>1. Inv => StdioRestored
    BY <1>1, <1>2 DEF StdioRestored
  <2> QED BY <2>1, Invariant, PTL
<1>3. CASE ~EnoughFds
  BY <1>3
<1> QED BY <1>2, <1>3

(* What the first command of a line wrote is what the last one printed,    *)
(* through any number of pipes of any size.                                *)
THEOREM AllIsDelivered == EnoughFds /\ PipeSpec => []Delivered
<1>1. Inv => Delivered
  BY DEF Inv, Flow, Delivered
<1> QED BY <1>1, Invariant, PTL
=============================================================================
