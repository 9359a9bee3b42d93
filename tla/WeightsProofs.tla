--------------------------- MODULE WeightsProofs ----------------------------
(***************************************************************************)
(* Proofs about the calls of hw2.c, for every tree of tasks and whatever   *)
(* is forked, exits or is reaped during a call.  The first frame of        *)
(* sys_get_leaf_children_sum never loses its place if the caller is Alone, *)
(* because then only it reaps its children and it is inside the call, and  *)
(* the others lose theirs only when the walk goes astray; and the answer   *)
(* of sys_get_heaviest_ancestor, which climbs while the path above it is   *)
(* cut short behind and before it, is right for all that stayed above.     *)
(* The leaves that stay below a caller are counted, each once, because the *)
(* frames wait for a leaf, or a task above it, exactly as long as its      *)
(* weight has not been taken.                                              *)
(***************************************************************************)
EXTENDS Weights, FiniteSetTheorems, SequenceTheorems, WellFoundedInduction, TLAPS

FrameType == [task : Tasks, at : Tasks, sum : Int, flag : BOOLEAN]

TreeTypes ==
  /\ state \in [Tasks -> {"none", "alive", "zombie"}]
  /\ parent \in [Tasks -> Tasks]
  /\ children \in [Tasks -> Seq(Tasks)]
  /\ weight \in [Tasks -> Int]
  /\ frames \in Seq(FrameType)

(* Every task but the idle one is in the list of its parent, which has not *)
(* exited.                                                                 *)
Linked ==
  /\ state[0] = "alive" /\ state[1] = "alive"
  /\ \A t \in Tasks \ {0} : state[t] # "none" =>
       state[parent[t]] = "alive" /\ Contains(children[parent[t]], t)

(* A call that has not gone astray stands on a link in every frame; the    *)
(* first frame of a caller that is Alone does so in any case.              *)
Inside ==
  Summing =>
    /\ ~Walking /\ walk.caller \in Tasks /\ state[walk.caller] = "alive"
    /\ frames[1].task = walk.caller
    /\ walk.caller \in Alone => OnList(frames[1])
    /\ ~astray => \A k \in DOMAIN frames : OnList(frames[k])

Inv == TreeTypes /\ Linked /\ Inside

-----------------------------------------------------------------------------
(* Lists                                                                   *)

(* A list that grows at its end keeps what it has.                         *)
LEMMA GrownList ==
  ASSUME NEW S, NEW s \in Seq(S), NEW r \in Seq(S)
  PROVE  /\ s \o r \in Seq(S)
         /\ \A e : Contains(s \o r, e) <=> Contains(s, e) \/ Contains(r, e)
<1>1. s \o r \in Seq(S) /\ Len(s \o r) = Len(s) + Len(r)
      /\ \A k \in 1..(Len(s) + Len(r)) : (s \o r)[k] = IF k <= Len(s) THEN s[k] ELSE r[k - Len(s)]
  BY ConcatProperties
<1>2. Len(s) \in Nat /\ Len(r) \in Nat
  BY LenProperties
<1>3. ASSUME NEW e, Contains(s \o r, e) PROVE Contains(s, e) \/ Contains(r, e)
  <2>1. PICK k \in 1..(Len(s) + Len(r)) : (s \o r)[k] = e
    BY <1>1, <1>3 DEF Contains
  <2>2. CASE k <= Len(s)
    BY <1>1, <1>2, <2>1, <2>2 DEF Contains
  <2>3. CASE k > Len(s)
    <3>1. k - Len(s) \in 1..Len(r) /\ r[k - Len(s)] = e
      BY <1>1, <1>2, <2>1, <2>3
    <3> QED BY <3>1 DEF Contains
  <2> QED BY <1>2, <2>2, <2>3
<1>4. ASSUME NEW e, Contains(s, e) PROVE Contains(s \o r, e)
  <2>1. PICK k \in 1..Len(s) : s[k] = e
    BY <1>4 DEF Contains
  <2>2. k \in 1..(Len(s) + Len(r)) /\ (s \o r)[k] = e
    BY <1>1, <1>2, <2>1
  <2> QED BY <1>1, <2>2 DEF Contains
<1>5. ASSUME NEW e, Contains(r, e) PROVE Contains(s \o r, e)
  <2>1. PICK k \in 1..Len(r) : r[k] = e
    BY <1>5 DEF Contains
  <2>2. PICK l : l = k + Len(s)
    OBVIOUS
  <2>3. l \in 1..(Len(s) + Len(r)) /\ ~(l <= Len(s)) /\ l - Len(s) = k
    BY <1>2, <2>1, <2>2
  <2>4. (s \o r)[l] = e
    BY <1>1, <2>1, <2>3
  <2> QED BY <1>1, <2>3, <2>4 DEF Contains
<1> QED BY <1>1, <1>3, <1>4, <1>5

(* So does a list that a child is added to.                                *)
LEMMA AddedChild ==
  ASSUME NEW S, NEW s \in Seq(S), NEW c \in S
  PROVE  /\ Append(s, c) \in Seq(S)
         /\ \A e : Contains(Append(s, c), e) <=> Contains(s, e) \/ e = c
<1>1. Append(s, c) \in Seq(S) /\ Len(Append(s, c)) = Len(s) + 1
      /\ \A k \in 1..Len(s) : Append(s, c)[k] = s[k]
      /\ Append(s, c)[Len(s) + 1] = c /\ Len(s) \in Nat
  BY AppendProperties, LenProperties
<1>2. \A k : k \in 1..(Len(s) + 1) <=> k \in 1..Len(s) \/ k = Len(s) + 1
  BY <1>1
<1> QED BY <1>1, <1>2 DEF Contains

(* A child that is unlinked leaves the others where they are.              *)
LEMMA Unlinked ==
  ASSUME NEW S, NEW s \in Seq(S), NEW c, Contains(s, c)
  PROVE  /\ RemoveAt(s, Place(s, c)) \in Seq(S)
         /\ \A e : e # c /\ Contains(s, e) => Contains(RemoveAt(s, Place(s, c)), e)
<1>1. PICK p : p = Place(s, c)
  OBVIOUS
<1>2. p \in 1..Len(s) /\ s[p] = c /\ Len(s) \in Nat
  BY <1>1, LenProperties DEF Place, Contains
<1>3. PICK u, v : u = SubSeq(s, 1, p - 1) /\ v = SubSeq(s, p + 1, Len(s))
  OBVIOUS
<1>4. u \in Seq(S) /\ Len(u) = p - 1 /\ \A k \in 1..(p - 1) : u[k] = s[k]
  BY <1>2, <1>3, SubSeqProperties
<1>5. v \in Seq(S) /\ Len(v) = Len(s) - p /\ \A k \in 1..(Len(s) - p) : v[k] = s[k + p]
  BY <1>2, <1>3, SubSeqProperties
<1>6. u \o v \in Seq(S) /\ \A e : Contains(u \o v, e) <=> Contains(u, e) \/ Contains(v, e)
  BY <1>4, <1>5, GrownList
<1>7. ASSUME NEW e, e # c, Contains(s, e) PROVE Contains(u \o v, e)
  <2>1. PICK k \in 1..Len(s) : s[k] = e
    BY <1>7 DEF Contains
  <2>2. k # p
    BY <1>2, <1>7, <2>1
  <2>3. CASE k < p
    <3>1. k \in 1..Len(u) /\ u[k] = e
      BY <1>2, <1>4, <2>1, <2>3
    <3> QED BY <1>6, <3>1 DEF Contains
  <2>4. CASE k > p
    <3>1. PICK l : l = k - p
      OBVIOUS
    <3>2. l \in 1..(Len(s) - p) /\ l + p = k
      BY <1>2, <2>1, <2>4, <3>1
    <3>3. l \in 1..Len(v) /\ v[l] = e
      BY <1>5, <2>1, <3>2
    <3> QED BY <1>6, <3>3 DEF Contains
  <2> QED BY <1>2, <2>1, <2>2, <2>3, <2>4
<1> QED BY <1>1, <1>3, <1>6, <1>7 DEF RemoveAt

-----------------------------------------------------------------------------
(* Frames                                                                  *)

LEMMA OneLess ==
  ASSUME NEW n \in Nat, n > 0
  PROVE  \E m \in Nat : n = m + 1
<1>1. n - 1 \in Nat /\ n = (n - 1) + 1
  OBVIOUS
<1> QED BY <1>1

(* Two frames in place of the last one                                     *)
Deepened(S, s, v, t, m) ==
  /\ t \in Seq(S) /\ Len(t) = m + 2
  /\ \A k \in 1..m : t[k] = s[k]
  /\ t[m + 1] = v[1] /\ t[m + 2] = v[2]

(* The last frame moves and another one is entered.                        *)
LEMMA Deeper ==
  ASSUME NEW S, NEW s \in Seq(S), NEW v \in Seq(S), NEW t, NEW m \in Nat,
         Len(s) = m + 1, Len(v) = 2, t = Front(s) \o v
  PROVE  Deepened(S, s, v, t, m)
<1>1. PICK u : u = Front(s)
  OBVIOUS
<1>2. u \in Seq(S) /\ Len(u) = m /\ \A k \in 1..m : u[k] = s[k]
  <2>1. u = SubSeq(s, 1, m) /\ \A k \in 1..m : s[k] \in S
    BY <1>1 DEF Front
  <2>2. u \in Seq(S) /\ Len(u) = m
    BY <2>1, SubSeqProperties
  <2>3. \A k \in 1..m : u[k] = s[k]
    BY <2>1, SubSeqProperties
  <2> QED BY <2>2, <2>3
<1>3. v \in Seq(S) /\ Len(v) = 2
  OBVIOUS
<1>4. /\ u \o v \in Seq(S) /\ Len(u \o v) = m + 2
      /\ \A k \in 1..(m + 2) : (u \o v)[k] = IF k <= m THEN u[k] ELSE v[k - m]
  <2>1. u \o v \in Seq(S) /\ Len(u \o v) = Len(u) + Len(v)
    BY <1>2, <1>3, ConcatProperties
  <2>2. \A k \in 1..(Len(u) + Len(v)) : (u \o v)[k] = IF k <= Len(u) THEN u[k] ELSE v[k - Len(u)]
    BY <1>2, <1>3, ConcatProperties
  <2> QED BY <1>2, <1>3, <2>1, <2>2
<1>5. t = u \o v
  BY <1>1
<1>6. \A k \in 1..m : t[k] = s[k]
  <2>1. \A k \in 1..m : k \in 1..(m + 2) /\ k <= m
    OBVIOUS
  <2> QED BY <1>2, <1>4, <1>5, <2>1
<1>7. t[m + 1] = v[1] /\ t[m + 2] = v[2]
  <2>1. /\ m + 1 \in 1..(m + 2) /\ ~(m + 1 <= m) /\ (m + 1) - m = 1
        /\ m + 2 \in 1..(m + 2) /\ ~(m + 2 <= m) /\ (m + 2) - m = 2
    OBVIOUS
  <2> QED BY <1>3, <1>4, <1>5, <2>1
<1> QED BY <1>4, <1>5, <1>6, <1>7 DEF Deepened

(* The last frame returns to the one before it.                            *)
LEMMA Shallower ==
  ASSUME NEW S, NEW s \in Seq(S), Len(s) > 1, NEW a \in S,
         NEW t, t = Front(Front(s)) \o <<a>>
  PROVE  /\ t \in Seq(S) /\ Len(t) = Len(s) - 1 /\ Len(s) \in Nat
         /\ \A k \in 1..(Len(s) - 2) : t[k] = s[k]
         /\ t[Len(s) - 1] = a
<1>1. Len(s) \in Nat
  BY LenProperties
<1>2. PICK u : u = Front(s)
  OBVIOUS
<1>3. u \in Seq(S) /\ Len(u) = Len(s) - 1 /\ \A k \in 1..(Len(s) - 1) : u[k] = s[k]
  <2>1. PICK m : m = Len(s) - 1
    OBVIOUS
  <2>2. u = SubSeq(s, 1, m) /\ m \in Nat /\ \A k \in 1..m : s[k] \in S
    BY <1>1, <1>2, <2>1 DEF Front
  <2>3. u \in Seq(S) /\ Len(u) = m
    BY <2>2, SubSeqProperties
  <2>4. \A k \in 1..m : u[k] = s[k]
    BY <2>2, SubSeqProperties
  <2> QED BY <2>1, <2>3, <2>4
<1>4. PICK v : v = Front(u)
  OBVIOUS
<1>5. v \in Seq(S) /\ Len(v) = Len(s) - 2 /\ \A k \in 1..(Len(s) - 2) : v[k] = u[k]
  <2>1. v = SubSeq(u, 1, Len(s) - 2)
    BY <1>1, <1>3, <1>4 DEF Front
  <2> QED BY <1>1, <1>3, <2>1, SubSeqProperties
<1>6. t = Append(v, a)
  BY <1>2, <1>4, <1>5, AppendIsConcat
<1>7. t \in Seq(S) /\ Len(t) = Len(v) + 1 /\ t[Len(v) + 1] = a
      /\ \A k \in 1..Len(v) : t[k] = v[k]
  <2>1. /\ Append(v, a) \in Seq(S) /\ Len(Append(v, a)) = Len(v) + 1
        /\ Append(v, a)[Len(v) + 1] = a
        /\ \A k \in 1..Len(v) : Append(v, a)[k] = v[k]
    BY <1>5, AppendProperties
  <2> QED BY <1>6, <2>1
<1> QED BY <1>1, <1>3, <1>5, <1>7

-----------------------------------------------------------------------------
(* The tree changes                                                        *)

LEMMA TaskFacts ==
  ASSUME TRUE
  PROVE  /\ 0 \in Tasks /\ 1 \in Tasks /\ 0 # 1
         /\ \A c \in Pids : c \in Tasks /\ c # 0 /\ c # 1
  BY PidsAssumption DEF Tasks

LEMMA InvInit == Init => Inv
<1> SUFFICES ASSUME Init PROVE Inv
  OBVIOUS
<1>1. TreeTypes
  <2>1. <<>> \in Seq(Tasks) /\ <<1>> \in Seq(Tasks) /\ <<>> \in Seq(FrameType)
    BY TaskFacts, EmptySeq
  <2> QED BY <2>1, TaskFacts DEF Init, TreeTypes
<1>2. Linked
  <2>1. \A t \in Tasks \ {0} : state[t] # "none" => t = 1
    BY DEF Init
  <2>2. state[0] = "alive" /\ state[1] = "alive" /\ parent[1] = 0 /\ children[0] = <<1>>
    BY TaskFacts DEF Init
  <2>3. Contains(<<1>>, 1)
    BY DEF Contains
  <2> QED BY <2>1, <2>2, <2>3 DEF Linked
<1>3. Inside
  BY DEF Init, Inside, Summing
<1> QED BY <1>1, <1>2, <1>3 DEF Inv

(* Whatever changes, the call is where it was if its caller is alive and,  *)
(* when it is Alone, keeps its children.                                   *)
LEMMA WatchNext ==
  ASSUME Inside, Watch,
         Summing => /\ state'[walk.caller] = "alive"
                    /\ walk.caller \in Alone =>
                         \A t : Contains(children[walk.caller], t) =>
                                Contains(children'[walk.caller], t)
  PROVE  Inside'
<1>1. UNCHANGED <<walk, frames>>
  BY DEF Watch
<1>2. Summing' = Summing /\ Walking' = Walking
  BY <1>1 DEF Summing, Walking
<1>3. CASE ~Summing
  BY <1>2, <1>3 DEF Inside
<1>4. CASE Summing
  <2>1. astray' = (astray \/ \E k \in DOMAIN frames : ~(OnList(frames[k])'))
    BY DEF Watch
  <2>2. ~astray' => \A k \in DOMAIN frames' : OnList(frames[k])'
    BY <1>1, <2>1
  <2>3. walk.caller \in Alone => OnList(frames[1])'
    BY <1>1, <1>4 DEF Inside, OnList
  <2> QED BY <1>1, <1>2, <1>4, <2>2, <2>3 DEF Inside
<1> QED BY <1>3, <1>4

LEMMA SetWeightNext ==
  ASSUME Inv, NEW p \in Tasks, NEW w \in Weights \cup {-1}, SetWeight(p, w)
  PROVE  Inv'
<1>1. /\ UNCHANGED <<state, parent, children, frames, walk>> /\ Watch
      /\ weight' = weight \/ weight' = [weight EXCEPT ![p] = w]
  BY DEF SetWeight, set_weight, Watch
<1>2. w \in Int
  BY IntAssumption
<1>3. TreeTypes'
  BY <1>1, <1>2 DEF Inv, TreeTypes
<1>4. Linked'
  BY <1>1 DEF Inv, Linked
<1>5. Inside'
  BY <1>1, WatchNext DEF Inv, Inside
<1> QED BY <1>3, <1>4, <1>5 DEF Inv

LEMMA ForkNext ==
  ASSUME Inv, NEW p \in Tasks, NEW c \in Pids, Fork(p, c)
  PROVE  Inv'
<1>1. /\ state[p] = "alive" /\ state[c] = "none" /\ p # 0
      /\ state' = [state EXCEPT ![c] = "alive"] /\ parent' = [parent EXCEPT ![c] = p]
      /\ children' = [children EXCEPT ![p] = Append(@, c), ![c] = <<>>]
      /\ weight' = [weight EXCEPT ![c] = weight[p]] /\ Watch /\ frames' = frames
  BY DEF Fork, Runs, Watch
<1>2. TreeTypes /\ Linked /\ Inside /\ c \in Tasks /\ c # 0 /\ c # 1 /\ c # p
  BY <1>1, TaskFacts DEF Inv
<1>3. children[p] \in Seq(Tasks) /\ <<>> \in Seq(Tasks)
  BY <1>2, EmptySeq DEF TreeTypes
<1>4. /\ Append(children[p], c) \in Seq(Tasks)
      /\ \A e : Contains(Append(children[p], c), e) <=> Contains(children[p], e) \/ e = c
  BY <1>2, <1>3, AddedChild
<1>5. /\ children' \in [Tasks -> Seq(Tasks)]
      /\ children'[p] = Append(children[p], c)
      /\ \A t \in Tasks : t # p /\ t # c => children'[t] = children[t]
  BY <1>1, <1>2, <1>3, <1>4 DEF TreeTypes
<1>6. /\ state' \in [Tasks -> {"none", "alive", "zombie"}]
      /\ parent' \in [Tasks -> Tasks] /\ weight' \in [Tasks -> Int]
      /\ state'[c] = "alive" /\ parent'[c] = p
      /\ \A t \in Tasks : t # c => state'[t] = state[t] /\ parent'[t] = parent[t]
  BY <1>1, <1>2 DEF TreeTypes
<1>7. TreeTypes'
  BY <1>1, <1>2, <1>5, <1>6 DEF TreeTypes
<1>8. \A t \in Tasks : t # c => \A e : Contains(children[t], e) => Contains(children'[t], e)
  BY <1>4, <1>5
<1>9. Linked'
  <2>1. state'[0] = "alive" /\ state'[1] = "alive"
    BY <1>2, <1>6, TaskFacts DEF Linked
  <2>2. ASSUME NEW t \in Tasks \ {0}, state'[t] # "none"
        PROVE  state'[parent'[t]] = "alive" /\ Contains(children'[parent'[t]], t)
    <3>1. CASE t = c
      BY <1>1, <1>2, <1>4, <1>5, <1>6, <3>1
    <3>2. CASE t # c
      <4>1. state[parent[t]] = "alive" /\ Contains(children[parent[t]], t) /\ parent[t] \in Tasks
        BY <1>2, <1>6, <2>2, <3>2 DEF Linked, TreeTypes
      <4>2. parent[t] # c
        BY <1>1, <4>1
      <4> QED BY <1>6, <1>8, <3>2, <4>1, <4>2
    <3> QED BY <3>1, <3>2
  <2> QED BY <2>1, <2>2 DEF Linked
<1>10. Inside'
  <2>1. Summing => walk.caller \in Tasks /\ walk.caller # c
    BY <1>1, <1>2 DEF Inside
  <2>2. Summing => state'[walk.caller] = "alive"
    BY <1>2, <1>6, <2>1 DEF Inside
  <2> QED BY <1>1, <1>2, <1>8, <2>1, <2>2, WatchNext
<1> QED BY <1>7, <1>9, <1>10 DEF Inv

LEMMA ExitNext ==
  ASSUME Inv, NEW p \in Tasks, Exit(p)
  PROVE  Inv'
<1>1. /\ state[p] = "alive" /\ p # 0 /\ p # 1 /\ (Summing => walk.caller # p)
      /\ state' = [state EXCEPT ![p] = "zombie"]
      /\ parent' = [t \in Tasks |-> IF parent[t] = p /\ state[t] # "none" THEN 1 ELSE parent[t]]
      /\ children' = [children EXCEPT ![1] = @ \o children[p], ![p] = <<>>]
      /\ weight' = weight /\ Watch /\ frames' = frames
  BY DEF Exit, Runs, Watch
<1>2. TreeTypes /\ Linked /\ Inside
  BY DEF Inv
<1>3. children[1] \in Seq(Tasks) /\ children[p] \in Seq(Tasks) /\ <<>> \in Seq(Tasks)
  BY <1>2, TaskFacts, EmptySeq DEF TreeTypes
<1>4. /\ children[1] \o children[p] \in Seq(Tasks)
      /\ \A e : Contains(children[1] \o children[p], e)
                  <=> Contains(children[1], e) \/ Contains(children[p], e)
  BY <1>3, GrownList
<1>5. /\ children' \in [Tasks -> Seq(Tasks)]
      /\ children'[1] = children[1] \o children[p]
      /\ \A t \in Tasks : t # p /\ t # 1 => children'[t] = children[t]
  BY <1>1, <1>2, <1>3, <1>4, TaskFacts DEF TreeTypes
<1>6. /\ state' \in [Tasks -> {"none", "alive", "zombie"}] /\ parent' \in [Tasks -> Tasks]
      /\ \A t \in Tasks : t # p => state'[t] = state[t]
      /\ \A t \in Tasks : state'[t] # "none" => state[t] # "none"
  BY <1>1, <1>2, TaskFacts DEF TreeTypes
<1>7. TreeTypes'
  BY <1>1, <1>2, <1>5, <1>6 DEF TreeTypes
<1>8. \A t \in Tasks : t # p => \A e : Contains(children[t], e) => Contains(children'[t], e)
  BY <1>4, <1>5
<1>9. Linked'
  <2>1. state'[0] = "alive" /\ state'[1] = "alive"
    BY <1>1, <1>2, <1>6, TaskFacts DEF Linked
  <2>2. ASSUME NEW t \in Tasks \ {0}, state'[t] # "none"
        PROVE  state'[parent'[t]] = "alive" /\ Contains(children'[parent'[t]], t)
    <3>1. /\ state[t] # "none" /\ state[parent[t]] = "alive" /\ Contains(children[parent[t]], t)
          /\ parent[t] \in Tasks
      BY <1>2, <1>6, <2>2 DEF Linked, TreeTypes
    <3>2. CASE parent[t] = p
      <4>1. parent'[t] = 1
        BY <1>1, <3>1, <3>2
      <4>2. Contains(children'[1], t)
        BY <1>4, <1>5, <3>1, <3>2
      <4> QED BY <2>1, <4>1, <4>2
    <3>3. CASE parent[t] # p
      <4>1. parent'[t] = parent[t]
        BY <1>1, <3>1, <3>3
      <4> QED BY <1>6, <1>8, <3>1, <3>3, <4>1
    <3> QED BY <3>2, <3>3
  <2> QED BY <2>1, <2>2 DEF Linked
<1>10. Inside'
  <2>1. Summing => walk.caller \in Tasks /\ state'[walk.caller] = "alive"
    BY <1>1, <1>2, <1>6 DEF Inside
  <2> QED BY <1>1, <1>2, <1>8, <2>1, WatchNext
<1> QED BY <1>7, <1>9, <1>10 DEF Inv

(* A caller that is Alone cannot reap while it is inside the call, and     *)
(* nobody else reaps its children.                                         *)
LEMMA ReapNext ==
  ASSUME Inv, NEW p \in Tasks, Reap(p)
  PROVE  Inv'
<1>1. /\ state[p] = "zombie" /\ (Summing /\ walk.caller \in Alone => walk.caller # parent[p])
      /\ state' = [state EXCEPT ![p] = "none"] /\ parent' = [parent EXCEPT ![p] = 0]
      /\ children' = [children EXCEPT ![parent[p]] = RemoveAt(@, Place(@, p))]
      /\ weight' = [weight EXCEPT ![p] = 0] /\ Watch /\ frames' = frames
  BY DEF Reap, Runs, Watch
<1>2. TreeTypes /\ Linked /\ Inside /\ p # 0 /\ p # 1
  BY <1>1 DEF Inv, Linked
<1>3. PICK q : q = parent[p]
  OBVIOUS
<1>4. /\ q \in Tasks /\ children[q] \in Seq(Tasks) /\ Contains(children[q], p) /\ q # p
      /\ state[q] = "alive"
  BY <1>1, <1>2, <1>3 DEF TreeTypes, Linked
<1>5. PICK rest : rest = RemoveAt(children[q], Place(children[q], p))
  OBVIOUS
<1>6. rest \in Seq(Tasks) /\ \A e : e # p /\ Contains(children[q], e) => Contains(rest, e)
  BY <1>4, <1>5, Unlinked
<1>7. /\ children' \in [Tasks -> Seq(Tasks)] /\ children'[q] = rest
      /\ \A t \in Tasks : t # q => children'[t] = children[t]
  BY <1>1, <1>2, <1>3, <1>4, <1>5, <1>6 DEF TreeTypes
<1>8. /\ state' \in [Tasks -> {"none", "alive", "zombie"}] /\ parent' \in [Tasks -> Tasks]
      /\ weight' \in [Tasks -> Int] /\ state'[p] = "none"
      /\ \A t \in Tasks : t # p => state'[t] = state[t] /\ parent'[t] = parent[t]
  BY <1>1, <1>2, TaskFacts DEF TreeTypes
<1>9. TreeTypes'
  BY <1>1, <1>2, <1>7, <1>8 DEF TreeTypes
<1>10. \A t \in Tasks : \A e : e # p /\ Contains(children[t], e) => Contains(children'[t], e)
  BY <1>6, <1>7
<1>11. Linked'
  <2>1. state'[0] = "alive" /\ state'[1] = "alive"
    BY <1>2, <1>8, TaskFacts DEF Linked
  <2>2. ASSUME NEW t \in Tasks \ {0}, state'[t] # "none"
        PROVE  state'[parent'[t]] = "alive" /\ Contains(children'[parent'[t]], t)
    <3>1. t # p
      BY <1>8, <2>2
    <3>2. /\ state[parent[t]] = "alive" /\ Contains(children[parent[t]], t)
          /\ parent[t] \in Tasks /\ parent'[t] = parent[t]
      BY <1>2, <1>8, <2>2, <3>1 DEF Linked, TreeTypes
    <3>3. parent[t] # p
      BY <1>1, <3>2
    <3> QED BY <1>8, <1>10, <3>1, <3>2, <3>3
  <2> QED BY <2>1, <2>2 DEF Linked
<1>12. Inside'
  <2>1. Summing => /\ walk.caller \in Tasks /\ state'[walk.caller] = "alive"
                   /\ walk.caller \in Alone => walk.caller # q
    BY <1>1, <1>2, <1>3, <1>8 DEF Inside
  <2> QED BY <1>1, <1>2, <1>7, <2>1, WatchNext
<1> QED BY <1>9, <1>11, <1>12 DEF Inv

-----------------------------------------------------------------------------
(* The calls                                                               *)

(* sys_get_heaviest_ancestor and the process that is lost change no frame. *)
LEMMA OthersNext ==
  ASSUME Inv, \/ \E p \in Tasks : EnterWalk(p)
              \/ Climb \/ Return \/ Lost \/ UNCHANGED vars
  PROVE  Inv'
<1>1. UNCHANGED tree /\ UNCHANGED <<frames, astray>>
  BY DEF EnterWalk, Climb, Return, Lost, vars
<1>2. UNCHANGED <<state, parent, children, weight>>
  BY <1>1 DEF tree
<1>3. TreeTypes' /\ Linked'
  BY <1>1, <1>2 DEF Inv, TreeTypes, Linked
<1>4. Summing => walk' = walk
  BY DEF EnterWalk, Climb, Return, Lost, vars, Inv, Inside
<1>5. Inside'
  <2>1. Summing' = Summing /\ \A k : OnList(frames[k])' = OnList(frames[k])
    BY <1>1, <1>2 DEF Summing, OnList
  <2> QED BY <1>1, <1>2, <1>4, <2>1 DEF Inv, Inside, Walking
<1> QED BY <1>3, <1>5 DEF Inv

LEMMA EnterSumNext ==
  ASSUME Inv, NEW p \in Tasks, EnterSum(p)
  PROVE  Inv'
<1>1. /\ ~Summing /\ state[p] = "alive" /\ frames' = <<Frame(p)>>
      /\ walk' = [NotWalking EXCEPT !.caller = p] /\ astray' = astray
      /\ UNCHANGED <<state, parent, children, weight>>
  BY DEF EnterSum, Runs, tree
<1>2. Frame(p) \in FrameType
  BY TaskFacts DEF Frame, FrameType
<1>3. frames' \in Seq(FrameType) /\ frames'[1] = Frame(p) /\ DOMAIN frames' = {1}
  BY <1>1, <1>2
<1>4. TreeTypes' /\ Linked'
  BY <1>1, <1>3 DEF Inv, TreeTypes, Linked
<1>5. OnList(frames[1])' /\ frames'[1].task = p
  BY <1>3 DEF OnList, Frame
<1>6. walk'.caller = p /\ ~Walking'
  BY <1>1 DEF NotWalking, Walking
<1>7. Inside'
  BY <1>1, <1>3, <1>5, <1>6 DEF Inside
<1> QED BY <1>4, <1>7 DEF Inv

(* The last frame of a call that is not astray                             *)
LEMMA TopFrame ==
  ASSUME Inv, InLists
  PROVE  /\ Len(frames) \in Nat /\ Len(frames) > 0 /\ frames # <<>>
         /\ Top \in FrameType /\ Top = frames[Len(frames)] /\ OnList(Top)
         /\ NextLink(Top) # 0 => NextLink(Top) \in Tasks
                                 /\ Contains(children[Top.task], NextLink(Top))
<1>1. frames \in Seq(FrameType) /\ frames # <<>> /\ ~astray
  BY DEF Inv, TreeTypes, InLists, Summing
<1>2. Len(frames) \in Nat /\ Len(frames) > 0
  BY <1>1, LenProperties, EmptySeq
<1>3. Top = frames[Len(frames)] /\ Top \in FrameType
  BY <1>1, <1>2, ElementOfSeq DEF Top, Last
<1>4. OnList(Top)
  <2>1. Len(frames) \in DOMAIN frames
    BY <1>1, <1>2, LenProperties
  <2> QED BY <1>1, <1>3, <2>1 DEF Inv, Inside, InLists
<1>5. PICK f, list : f = Top /\ list = children[Top.task]
  OBVIOUS
<1>6. list \in Seq(Tasks) /\ Len(list) \in Nat /\ DOMAIN list = 1..Len(list)
  BY <1>3, <1>5, LenProperties DEF Inv, TreeTypes, FrameType
<1>7. PICK here : here = IF f.at = 0 THEN 0 ELSE Place(list, f.at)
  OBVIOUS
<1>8. here \in 0..Len(list)
  BY <1>4, <1>5, <1>6, <1>7 DEF OnList, Contains, Place
<1>9. NextLink(Top) = IF here < Len(list) THEN list[here + 1] ELSE 0
  BY <1>5, <1>7 DEF NextLink
<1>10. ASSUME NextLink(Top) # 0
       PROVE  NextLink(Top) \in Tasks /\ Contains(list, NextLink(Top))
  <2>1. here + 1 \in 1..Len(list) /\ NextLink(Top) = list[here + 1]
    BY <1>6, <1>8, <1>9, <1>10
  <2> QED BY <1>6, <2>1, ElementOfSeq DEF Contains
<1> QED BY <1>1, <1>2, <1>3, <1>4, <1>5, <1>10

(* The frames of a call before and after it goes into the task n           *)
Entered(fs, ft, m, n) ==
  /\ m \in Nat /\ fs \in Seq(FrameType) /\ Len(fs) = m + 1
  /\ ft \in Seq(FrameType) /\ Len(ft) = m + 2
  /\ \A k \in 1..m : ft[k] = fs[k]
  /\ ft[m + 1] = [fs[m + 1] EXCEPT !.at = n] /\ ft[m + 2] = Frame(n)

(* ... and before and after it returns from one with the sum v             *)
Left(fs, ft, m, v) ==
  /\ m \in Nat /\ fs \in Seq(FrameType) /\ Len(fs) = m + 2
  /\ ft \in Seq(FrameType) /\ Len(ft) = m + 1
  /\ \A k \in 1..m : ft[k] = fs[k]
  /\ ft[m + 1] = [fs[m + 1] EXCEPT !.sum = Int32(@ + v), !.flag = TRUE]

(* Going down moves the last frame and enters another one.                 *)
LEMMA FramesEnter ==
  ASSUME Inv, traverse_children_sum_weight
  PROVE  \E m \in Nat : Entered(frames, frames', m, NextLink(Top)) /\ Top = frames[m + 1]
<1>1. PICK fst, snd : fst = [Top EXCEPT !.at = NextLink(Top)] /\ snd = Frame(NextLink(Top))
  OBVIOUS
<1>2. /\ InLists /\ NextLink(Top) # 0
      /\ frames' = Front(frames) \o <<fst, snd>>
  BY <1>1 DEF traverse_children_sum_weight
<1>3. PICK s, t : s = frames /\ t = frames'
  OBVIOUS
<1>4. /\ s \in Seq(FrameType) /\ Len(s) \in Nat /\ Len(s) > 0 /\ t = Front(s) \o <<fst, snd>>
      /\ Top \in FrameType /\ Top = s[Len(s)] /\ NextLink(Top) \in Tasks
  <2>1. s \in Seq(FrameType) /\ t = Front(s) \o <<fst, snd>>
    BY <1>2, <1>3 DEF Inv, TreeTypes
  <2> QED BY <1>2, <1>3, <2>1, TopFrame
<1>5. PICK m \in Nat : Len(s) = m + 1
  BY <1>4, OneLess
<1>6. fst \in FrameType /\ snd \in FrameType
  <2>1. PICK x \in Tasks : x = NextLink(Top)
    BY <1>4
  <2>2. fst = [Top EXCEPT !.at = x] /\ snd = [task |-> x, at |-> 0, sum |-> 0, flag |-> FALSE]
    BY <1>1, <2>1 DEF Frame
  <2>3. fst \in FrameType
    BY <1>4, <2>2 DEF FrameType
  <2>4. snd \in FrameType
    BY <2>2, TaskFacts DEF FrameType
  <2> QED BY <2>3, <2>4
<1>7. /\ t \in Seq(FrameType) /\ Len(t) = m + 2
      /\ \A k \in 1..m : t[k] = s[k]
      /\ t[m + 1] = fst /\ t[m + 2] = snd
  <2>1. PICK v : v = <<fst, snd>>
    OBVIOUS
  <2>2. v \in Seq(FrameType) /\ Len(v) = 2 /\ v[1] = fst /\ v[2] = snd
    BY <1>6, <2>1
  <2>3. s \in Seq(FrameType) /\ Len(s) = m + 1 /\ t = Front(s) \o v
    BY <1>4, <1>5, <2>1
  <2>4. Deepened(FrameType, s, v, t, m)
    BY <2>2, <2>3, Deeper
  <2> QED BY <2>2, <2>4 DEF Deepened
<1>8. Top = s[m + 1] /\ fst = [s[m + 1] EXCEPT !.at = NextLink(Top)]
  BY <1>1, <1>4, <1>5
<1>9. Entered(s, t, m, NextLink(Top))
  BY <1>1, <1>4, <1>5, <1>7, <1>8 DEF Entered
<1> QED BY <1>3, <1>8, <1>9

(* Coming back takes the last frame away and adds what it returns.         *)
LEMMA FramesReturn ==
  ASSUME Inv, TraverseReturns
  PROVE  \E m \in Nat : Left(frames, frames', m, Sum) /\ Top = frames[m + 2]
<1>1. PICK up : up = frames[Len(frames) - 1]
  OBVIOUS
<1>2. /\ InLists /\ Len(frames) > 1
      /\ frames' = Front(Front(frames)) \o <<[up EXCEPT !.sum = Int32(@ + Sum), !.flag = TRUE]>>
  BY <1>1 DEF TraverseReturns
<1>3. PICK s, t, a : /\ s = frames /\ t = frames'
                     /\ a = [up EXCEPT !.sum = Int32(@ + Sum), !.flag = TRUE]
  OBVIOUS
<1>4. /\ s \in Seq(FrameType) /\ Len(s) \in Nat /\ Len(s) > 1 /\ up = s[Len(s) - 1]
      /\ Len(s) - 1 \in 1..Len(s) /\ Top \in FrameType /\ up \in FrameType /\ Top = s[Len(s)]
  <2>1. s \in Seq(FrameType) /\ Len(s) \in Nat /\ Len(s) > 1 /\ up = s[Len(s) - 1]
    BY <1>1, <1>2, <1>3, LenProperties DEF Inv, TreeTypes
  <2>2. Len(s) - 1 \in 1..Len(s)
    BY <2>1
  <2>3. Top \in FrameType /\ Top = s[Len(s)]
    BY <1>2, <1>3, TopFrame
  <2> QED BY <2>1, <2>2, <2>3, ElementOfSeq
<1>5. a \in FrameType
  <2>1. \A x \in Int : Int32(x) \in Int
    BY IntAssumption DEF Int32
  <2>2. Sum \in Int
    <3>1. Top.sum \in Int /\ weight[Top.task] \in Int
      BY <1>4 DEF FrameType, Inv, TreeTypes
    <3>2. Top.sum + weight[Top.task] \in Int
      BY <3>1
    <3> QED BY <2>1, <3>1, <3>2 DEF Sum
  <2>3. up.sum \in Int /\ up.sum + Sum \in Int
    BY <1>4, <2>2 DEF FrameType
  <2>4. Int32(up.sum + Sum) \in Int
    BY <2>1, <2>3
  <2>5. PICK x : x = Int32(up.sum + Sum)
    OBVIOUS
  <2>6. a = [up EXCEPT !.sum = x, !.flag = TRUE]
    BY <1>3, <2>5
  <2> QED BY <1>4, <2>4, <2>5, <2>6 DEF FrameType
<1>6. t = Front(Front(s)) \o <<a>>
  BY <1>2, <1>3
<1>7. /\ t \in Seq(FrameType) /\ Len(t) = Len(s) - 1
      /\ \A k \in 1..(Len(s) - 2) : t[k] = s[k]
      /\ t[Len(s) - 1] = a
  <2>1. a \in FrameType /\ s \in Seq(FrameType) /\ Len(s) > 1
    BY <1>4, <1>5
  <2>2. t \in Seq(FrameType) /\ Len(t) = Len(s) - 1
    BY <1>6, <2>1, Shallower
  <2>3. \A k \in 1..(Len(s) - 2) : t[k] = s[k]
    BY <1>6, <2>1, Shallower
  <2>4. t[Len(s) - 1] = a
    BY <1>6, <2>1, Shallower
  <2> QED BY <2>2, <2>3, <2>4
<1>8. PICK m \in Nat : Len(s) = m + 2
  <2>1. Len(s) - 2 \in Nat /\ Len(s) = (Len(s) - 2) + 2
    BY <1>4
  <2> QED BY <2>1
<1>9. Len(s) - 2 = m /\ Len(s) - 1 = m + 1
  BY <1>8
<1>10. up = s[m + 1] /\ Top = s[m + 2] /\ a = [s[m + 1] EXCEPT !.sum = Int32(@ + Sum), !.flag = TRUE]
  BY <1>3, <1>4, <1>8, <1>9
<1>11. Left(s, t, m, Sum)
  BY <1>4, <1>7, <1>8, <1>9, <1>10 DEF Left
<1> QED BY <1>3, <1>10, <1>11

(* The frames that change, field by field                                  *)
LEMMA EnteredIs ==
  ASSUME NEW fs, NEW ft, NEW m, NEW n, Entered(fs, ft, m, n)
  PROVE  /\ fs[m + 1] \in FrameType /\ ft[m + 1] \in FrameType /\ ft[m + 2] \in FrameType
         /\ ft[m + 1].task = fs[m + 1].task /\ ft[m + 1].at = n
         /\ ft[m + 1].sum = fs[m + 1].sum /\ ft[m + 1].flag = fs[m + 1].flag
         /\ ft[m + 2].task = n /\ ft[m + 2].at = 0 /\ ft[m + 2].sum = 0 /\ ~ft[m + 2].flag
<1>1. m + 1 \in 1..(m + 1) /\ m + 1 \in 1..(m + 2) /\ m + 2 \in 1..(m + 2)
  BY DEF Entered
<1>2. fs[m + 1] \in FrameType /\ ft[m + 1] \in FrameType /\ ft[m + 2] \in FrameType
  BY <1>1, ElementOfSeq DEF Entered
<1>3. ft[m + 1] = [fs[m + 1] EXCEPT !.at = n] /\ ft[m + 2] = [task |-> n, at |-> 0, sum |-> 0, flag |-> FALSE]
  BY DEF Entered, Frame
<1> QED BY <1>2, <1>3 DEF FrameType

LEMMA LeftIs ==
  ASSUME NEW fs, NEW ft, NEW m, NEW v, Left(fs, ft, m, v)
  PROVE  /\ fs[m + 1] \in FrameType /\ fs[m + 2] \in FrameType /\ ft[m + 1] \in FrameType
         /\ ft[m + 1].task = fs[m + 1].task /\ ft[m + 1].at = fs[m + 1].at
         /\ ft[m + 1].sum = Int32(fs[m + 1].sum + v) /\ ft[m + 1].flag
<1>1. m + 1 \in 1..(m + 1) /\ m + 1 \in 1..(m + 2) /\ m + 2 \in 1..(m + 2)
  BY DEF Left
<1>2. fs[m + 1] \in FrameType /\ fs[m + 2] \in FrameType /\ ft[m + 1] \in FrameType
  BY <1>1, ElementOfSeq DEF Left
<1>3. ft[m + 1] = [fs[m + 1] EXCEPT !.sum = Int32(@ + v), !.flag = TRUE]
  BY DEF Left
<1> QED BY <1>2, <1>3 DEF FrameType

(* The walk goes to a link of the list and into its task.                  *)
LEMMA TraverseNext ==
  ASSUME Inv, traverse_children_sum_weight
  PROVE  Inv'
<1>1. PICK n : n = NextLink(Top)
  OBVIOUS
<1>2. /\ InLists /\ n # 0
      /\ UNCHANGED <<state, parent, children, weight, walk, astray>>
  BY <1>1 DEF traverse_children_sum_weight, tree
<1>3. PICK s, t : s = frames /\ t = frames'
  OBVIOUS
<1>4. PICK m \in Nat : Entered(s, t, m, n) /\ Top = s[m + 1]
  BY <1>1, <1>3, FramesEnter
<1>5. PICK fst, snd : fst = t[m + 1] /\ snd = t[m + 2]
  OBVIOUS
<1>6. /\ fst \in FrameType /\ snd \in FrameType
      /\ fst.task = Top.task /\ fst.at = n /\ snd.at = 0 /\ Contains(children[Top.task], n)
  BY <1>1, <1>2, <1>4, <1>5, EnteredIs, TopFrame
<1>7. /\ m \in Nat /\ s \in Seq(FrameType) /\ Len(s) = m + 1
      /\ t \in Seq(FrameType) /\ Len(t) = m + 2
      /\ \A k \in 1..m : t[k] = s[k]
      /\ t[m + 1] = fst /\ t[m + 2] = snd
  BY <1>4, <1>5 DEF Entered
<1>8. TreeTypes' /\ Linked'
  BY <1>2, <1>3, <1>7 DEF Inv, TreeTypes, Linked
<1>9. /\ Summing /\ ~astray /\ \A k \in 1..(m + 1) : OnList(s[k])
      /\ ~Walking /\ walk.caller \in Tasks /\ state[walk.caller] = "alive"
      /\ s[1].task = walk.caller
  BY <1>2, <1>3, <1>7, LenProperties DEF Inv, Inside, InLists
<1>10. OnList(fst) /\ OnList(snd)
  BY <1>6 DEF OnList
<1>11. \A k \in 1..(m + 2) : OnList(t[k])
  <2>1. \A k \in 1..(m + 2) : k \in 1..m \/ k = m + 1 \/ k = m + 2
    OBVIOUS
  <2>2. \A k \in 1..m : k \in 1..(m + 1)
    OBVIOUS
  <2> QED BY <1>7, <1>9, <1>10, <2>1, <2>2
<1>12. t[1].task = walk.caller
  <2>1. CASE m = 0
    <3>1. t[1] = fst /\ s[1] = Top
      BY <1>4, <1>7, <2>1
    <3> QED BY <1>6, <1>9, <3>1
  <2>2. CASE m # 0
    <3>1. 1 \in 1..m
      BY <2>2
    <3> QED BY <1>7, <1>9, <3>1
  <2> QED BY <2>1, <2>2
<1>13. 1 \in 1..(m + 2)
  OBVIOUS
<1>14. Inside'
  <2>1. \A k \in 1..(m + 2) : OnList(frames[k])'
    BY <1>2, <1>3, <1>11 DEF OnList
  <2>2. DOMAIN frames' = 1..(m + 2)
    BY <1>3, <1>7, LenProperties
  <2> QED BY <1>2, <1>3, <1>9, <1>12, <1>13, <2>1, <2>2 DEF Inside, Walking
<1> QED BY <1>8, <1>14 DEF Inv

(* A frame that returns leaves the others on their links.                  *)
LEMMA TraverseReturnsNext ==
  ASSUME Inv, TraverseReturns
  PROVE  Inv'
<1>1. PICK v, s, t : v = Sum /\ s = frames /\ t = frames'
  OBVIOUS
<1>2. /\ InLists /\ UNCHANGED <<state, parent, children, weight, walk, astray>>
  BY DEF TraverseReturns, tree
<1>3. PICK m : Left(s, t, m, v)
  BY <1>1, FramesReturn
<1>4. PICK a : a = t[m + 1]
  OBVIOUS
<1>5. a.task = s[m + 1].task /\ a.at = s[m + 1].at
  BY <1>3, <1>4, LeftIs
<1>6. /\ m \in Nat /\ s \in Seq(FrameType) /\ Len(s) = m + 2
      /\ t \in Seq(FrameType) /\ Len(t) = m + 1
      /\ \A k \in 1..m : t[k] = s[k]
      /\ t[m + 1] = a
  BY <1>3, <1>4 DEF Left
<1>7. TreeTypes' /\ Linked'
  BY <1>1, <1>2, <1>6 DEF Inv, TreeTypes, Linked
<1>8. /\ Summing /\ ~astray /\ \A k \in 1..(m + 2) : OnList(s[k])
      /\ ~Walking /\ walk.caller \in Tasks /\ state[walk.caller] = "alive"
      /\ s[1].task = walk.caller
  BY <1>1, <1>2, <1>6, LenProperties DEF Inv, Inside, InLists
<1>9. \A k \in 1..(m + 1) : OnList(t[k]) /\ t[k].task = s[k].task
  <2>1. OnList(a)
    <3>1. m + 1 \in 1..(m + 2)
      BY <1>6
    <3> QED BY <1>5, <1>8, <3>1 DEF OnList
  <2>2. \A k \in 1..(m + 1) : k \in 1..(m + 2) /\ (k \in 1..m \/ k = m + 1)
    BY <1>6
  <2> QED BY <1>5, <1>6, <1>8, <2>1, <2>2
<1>10. 1 \in 1..(m + 1)
  BY <1>6
<1>11. Inside'
  <2>1. \A k \in 1..(m + 1) : OnList(frames[k])'
    BY <1>1, <1>2, <1>9 DEF OnList
  <2>2. DOMAIN frames' = 1..(m + 1)
    BY <1>1, <1>6, LenProperties
  <2> QED BY <1>1, <1>2, <1>8, <1>9, <1>10, <2>1, <2>2 DEF Inside, Walking
<1> QED BY <1>7, <1>11 DEF Inv

LEMMA SumReturnsNext ==
  ASSUME Inv, SumReturns
  PROVE  Inv'
<1>1. frames' = <<>> /\ UNCHANGED <<state, parent, children, weight>>
  BY DEF SumReturns, tree
<1>2. TreeTypes' /\ Linked'
  BY <1>1, EmptySeq DEF Inv, TreeTypes, Linked
<1> QED BY <1>1, <1>2 DEF Inv, Inside, Summing

(* One case for each action                                                *)
LEMMA InvNext == Inv /\ [Next]_vars => Inv'
<1> SUFFICES ASSUME Inv, [Next]_vars PROVE Inv'
  OBVIOUS
<1>1. CASE Change
  BY <1>1, SetWeightNext, ForkNext, ExitNext, ReapNext DEF Change
<1>2. CASE \E p \in Tasks : EnterSum(p)
  BY <1>2, EnterSumNext
<1>3. CASE LeafSum
  BY <1>3, TraverseNext, TraverseReturnsNext, SumReturnsNext DEF LeafSum
<1>4. CASE \/ \E p \in Tasks : EnterWalk(p)
           \/ Climb \/ Return \/ Lost \/ UNCHANGED vars
  BY <1>4, OthersNext
<1> QED BY <1>1, <1>2, <1>3, <1>4 DEF Next

(* While a task that is Alone (one thread, SIGCHLD not ignored) is inside  *)
(* sys_get_leaf_children_sum, the frame of the call itself never stands on *)
(* a link that has left the list of the caller's children: only a change   *)
(* further down can lead its walk astray.                                  *)
THEOREM CallersListIsSafe == Spec => []AstrayOnlyBelow
<1>1. Inv => AstrayOnlyBelow
  BY DEF Inv, Inside, AstrayOnlyBelow
<1> QED BY <1>1, InvInit, InvNext, PTL DEF Spec

-----------------------------------------------------------------------------
(* Above a task, in any tree                                               *)

(* The ancestors of t if f says who is whose parent                        *)
Closed(f, S) == S \subseteq Tasks /\ \A s \in S : f[s] \in S

Anc(f, t) == {a \in Tasks : \A S \in SUBSET Tasks : t \in S /\ Closed(f, S) => a \in S}

LEMMA AncIs ==
  ASSUME NEW f, NEW t \in Tasks, f \in [Tasks -> Tasks]
  PROVE  t \in Anc(f, t) /\ Closed(f, Anc(f, t))
<1>1. \A a \in Anc(f, t) : f[a] \in Tasks
  BY DEF Anc
<1>2. \A a \in Anc(f, t) : f[a] \in Anc(f, t)
  BY <1>1 DEF Anc, Closed
<1> QED BY <1>2 DEF Anc, Closed

LEMMA AncLeast ==
  ASSUME NEW f, NEW S, NEW t \in S, Closed(f, S)
  PROVE  Anc(f, t) \subseteq S
  BY DEF Anc, Closed

(* Those above s are above t if s is.                                      *)
LEMMA AncTrans ==
  ASSUME NEW f, f \in [Tasks -> Tasks], NEW t \in Tasks, NEW s \in Anc(f, t)
  PROVE  Anc(f, s) \subseteq Anc(f, t)
  BY AncIs, AncLeast

(* A task, and those above its parent                                      *)
LEMMA AncUnfold ==
  ASSUME NEW f, f \in [Tasks -> Tasks], NEW t \in Tasks
  PROVE  Anc(f, t) = {t} \cup Anc(f, f[t]) /\ f[t] \in Tasks /\ f[t] \in Anc(f, t)
<1>1. f[t] \in Tasks /\ f[t] \in Anc(f, t)
  BY AncIs DEF Closed
<1>2. Anc(f, f[t]) \subseteq Anc(f, t)
  BY <1>1, AncTrans
<1>3. Closed(f, {t} \cup Anc(f, f[t]))
  BY <1>1, AncIs DEF Closed
<1>4. Anc(f, t) \subseteq {t} \cup Anc(f, f[t])
  BY <1>3, AncLeast
<1> QED BY <1>1, <1>2, <1>4, AncIs

(* Two tasks above one are above one another.                              *)
LEMMA AncChain ==
  ASSUME NEW f, f \in [Tasks -> Tasks], NEW c \in Tasks, NEW a \in Anc(f, c), NEW b \in Anc(f, c)
  PROVE  b \in Anc(f, a) \/ a \in Anc(f, b)
<1> DEFINE T == {s \in Tasks : a \in Anc(f, s)} \cup Anc(f, a)
<1>1. a \in Tasks
  BY DEF Anc
<1>2. ASSUME NEW s \in T PROVE f[s] \in T
  <2>1. CASE s \in Anc(f, a)
    BY <1>1, <2>1, AncIs DEF Closed
  <2>2. CASE s \notin Anc(f, a)
    <3>1. s \in Tasks /\ a \in Anc(f, s) /\ a # s
      BY <1>1, <2>2, AncIs
    <3> QED BY <3>1, AncUnfold
  <2> QED BY <2>1, <2>2
<1>3. Closed(f, T)
  BY <1>1, <1>2, AncIs DEF Closed
<1>4. b \in T
  BY <1>3, AncLeast
<1> QED BY <1>4

(* The idle task is above everything, and nothing is above itself.         *)
Acyclic(f) == f[0] = 0 /\ \A t \in Tasks \ {0} : t \notin Anc(f, f[t])

LEMMA AncOfIdle ==
  ASSUME NEW f, f \in [Tasks -> Tasks], f[0] = 0
  PROVE  Anc(f, 0) = {0}
<1>1. Closed(f, {0}) /\ 0 \in Tasks
  BY TaskFacts DEF Closed
<1> QED BY <1>1, AncLeast, AncIs

LEMMA AncAntisym ==
  ASSUME NEW f, f \in [Tasks -> Tasks], Acyclic(f), NEW a \in Tasks, NEW b \in Tasks,
         a \in Anc(f, b), b \in Anc(f, a)
  PROVE  a = b
<1>1. ASSUME NEW x \in Tasks, NEW y \in Tasks, x \in Anc(f, y), y \in Anc(f, x), x # y
      PROVE  y = 0
  <2>1. x \in Anc(f, f[y]) /\ f[y] \in Tasks
    BY <1>1, AncUnfold
  <2>2. y \in Anc(f, f[y])
    BY <1>1, <2>1, AncTrans
  <2> QED BY <2>2 DEF Acyclic
<1> QED BY <1>1

-----------------------------------------------------------------------------
(* What a change of the tree does to those above a task                    *)

(* Nothing, if it changes none of their parents                            *)
LEMMA AncSame ==
  ASSUME NEW f, NEW g, f \in [Tasks -> Tasks], g \in [Tasks -> Tasks], NEW u \in Tasks,
         \A s \in Anc(f, u) : g[s] = f[s]
  PROVE  Anc(g, u) = Anc(f, u)
<1>1. Closed(g, Anc(f, u)) /\ u \in Anc(f, u)
  BY AncIs DEF Closed
<1>2. Anc(g, u) \subseteq Anc(f, u)
  BY <1>1, AncLeast
<1>3. Closed(f, Anc(g, u)) /\ u \in Anc(g, u)
  BY <1>2, AncIs DEF Closed
<1>4. Anc(f, u) \subseteq Anc(g, u)
  BY <1>3, AncLeast
<1> QED BY <1>2, <1>4

(* A task without children is above no other one.                          *)
LEMMA AncOfOthers ==
  ASSUME NEW f, f \in [Tasks -> Tasks], NEW c \in Tasks, \A t \in Tasks : f[t] # c,
         NEW u \in Tasks, u # c
  PROVE  c \notin Anc(f, u)
<1>1. Closed(f, Tasks \ {c})
  BY DEF Closed
<1> QED BY <1>1, AncLeast

(* The children of p are handed to init.                                   *)
Handed(f, g, p) ==
  /\ p \in Tasks \ {0} /\ f[0] = 0 /\ f[1] = 0
  /\ \A t \in Tasks : g[t] = IF f[t] = p THEN 1 ELSE f[t]

UnderInit(f, u) == u = 0 \/ 1 \in Anc(f, u)

LEMMA HandedAnc ==
  ASSUME NEW f, NEW g, f \in [Tasks -> Tasks], g \in [Tasks -> Tasks], NEW p, Handed(f, g, p),
         NEW u \in Tasks, UnderInit(f, u)
  PROVE  Anc(g, u) \subseteq Anc(f, u) /\ UnderInit(g, u)
<1>0. Anc(f, 0) = {0} /\ 0 \in Tasks /\ 1 \in Tasks
  BY AncOfIdle, TaskFacts DEF Handed
<1>1. ASSUME NEW s \in Anc(f, u) PROVE g[s] \in Anc(f, u)
  <2>1. s \in Tasks /\ f[s] \in Anc(f, u)
    BY AncIs DEF Closed
  <2>2. CASE f[s] # p
    BY <2>1, <2>2 DEF Handed
  <2>3. CASE f[s] = p
    <3>1. u # 0
      <4>1. ASSUME u = 0 PROVE FALSE
        <5>1. s = 0
          BY <1>0, <4>1
        <5> QED BY <2>3, <5>1 DEF Handed
      <4> QED BY <4>1
    <3>2. g[s] = 1
      BY <2>1, <2>3 DEF Handed
    <3> QED BY <3>1, <3>2 DEF UnderInit
  <2> QED BY <2>2, <2>3
<1>2. Anc(g, u) \subseteq Anc(f, u)
  <2>1. Closed(g, Anc(f, u)) /\ u \in Anc(f, u)
    BY <1>1, AncIs DEF Closed
  <2> QED BY <2>1, AncLeast
<1>3. UnderInit(g, u)
  <2> SUFFICES ASSUME u # 0, 1 \notin Anc(g, u) PROVE FALSE
    BY DEF UnderInit
  <2>1. ASSUME NEW s \in Anc(g, u) PROVE f[s] \in Anc(g, u)
    <3>1. s \in Tasks /\ g[s] \in Anc(g, u)
      BY AncIs DEF Closed
    <3> QED BY <3>1 DEF Handed
  <2>2. Closed(f, Anc(g, u)) /\ u \in Anc(g, u)
    BY <2>1, AncIs DEF Closed
  <2>3. 1 \in Anc(g, u)
    BY <2>2, AncLeast DEF UnderInit
  <2> QED BY <2>3
<1> QED BY <1>2, <1>3

(* What a walk from c that has come to k has before it                     *)
Before(f, c, k, t) == t \in Anc(f, k) /\ (k \in Anc(f, c) \/ t \in {0, 1})

(* What stays above c stays before the walk: the path from c to it has not *)
(* been cut, and the walk is on that path; or it is init, or the idle      *)
(* task, and the walk comes to it in any case.                             *)
LEMMA HandedBefore ==
  ASSUME NEW f, NEW g, f \in [Tasks -> Tasks], g \in [Tasks -> Tasks], Acyclic(f),
         NEW p, Handed(f, g, p), NEW c \in Tasks, NEW k \in Tasks, NEW t \in Tasks,
         UnderInit(f, c), UnderInit(f, k), UnderInit(f, t), t \in Anc(g, c), Before(f, c, k, t)
  PROVE  Before(g, c, k, t)
<1>0. Anc(f, 0) = {0} /\ 0 \in Tasks /\ 1 \in Tasks
  BY AncOfIdle, TaskFacts DEF Handed
<1>1. CASE t \in {0, 1}
  <2>1. CASE k = 0
    <3>1. t = 0
      BY <1>0, <2>1 DEF Before
    <3> QED BY <1>1, <2>1, <3>1, <1>0, AncIs DEF Before
  <2>2. CASE k # 0
    <3>1. 1 \in Anc(g, k)
      BY <2>2, HandedAnc DEF UnderInit
    <3>2. g[1] = 0
      BY <1>0 DEF Handed
    <3>3. 0 \in Anc(g, k)
      BY <3>1, <3>2, AncIs DEF Closed
    <3> QED BY <1>1, <3>1, <3>3 DEF Before
  <2> QED BY <2>1, <2>2
<1>2. CASE t \notin {0, 1}
  <2>1. k \in Anc(f, c) /\ t \in Anc(f, k)
    BY <1>2 DEF Before
  <2>2. k \in Anc(g, c)
    <3> SUFFICES ASSUME k \notin Anc(g, c) PROVE FALSE
      OBVIOUS
    <3> DEFINE T == {s \in Anc(g, c) : k \in Anc(f, s)} \cup {0, 1}
    <3>1. ASSUME NEW s \in T PROVE g[s] \in T
      <4>1. CASE s \in {0, 1}
        <5>1. g[s] = 0
          BY <1>0, <4>1 DEF Handed
        <5> QED BY <5>1
      <4>2. CASE s \notin {0, 1}
        <5>1. s \in Anc(g, c) /\ k \in Anc(f, s) /\ s # k /\ s \in Tasks
          BY <4>2 DEF Anc
        <5>2. k \in Anc(f, f[s])
          BY <5>1, AncUnfold
        <5>3. g[s] \in Anc(g, c)
          BY <5>1, AncIs DEF Closed
        <5>4. g[s] = 1 \/ g[s] = f[s]
          BY <5>1 DEF Handed
        <5> QED BY <5>2, <5>3, <5>4
      <4> QED BY <4>1, <4>2
    <3>2. T \subseteq Tasks
      BY <1>0 DEF Anc
    <3>3. c \in T
      BY <2>1, AncIs
    <3>4. Closed(g, T)
      BY <3>1, <3>2 DEF Closed
    <3>5. t \in T
      BY <3>3, <3>4, AncLeast
    <3>6. t \in Anc(g, c) /\ k \in Anc(f, t)
      BY <1>2, <3>5
    <3>7. t = k
      BY <2>1, <3>6, AncAntisym
    <3> QED BY <3>6, <3>7
  <2>3. t \in Anc(g, k) \/ k \in Anc(g, t)
    BY <2>2, AncChain
  <2>4. ASSUME k \in Anc(g, t) PROVE t \in Anc(g, k)
    <3>1. k \in Anc(f, t)
      BY <2>4, HandedAnc
    <3>2. t = k
      BY <2>1, <3>1, AncAntisym
    <3> QED BY <3>2, AncIs
  <2> QED BY <2>2, <2>3, <2>4 DEF Before
<1> QED BY <1>1, <1>2

-----------------------------------------------------------------------------
(* The climb                                                               *)

(* Every task is below init and the idle task, and none is above itself.   *)
Rooted ==
  /\ parent[0] = 0 /\ parent[1] = 0 /\ Acyclic(parent)
  /\ \A t \in Tasks : state[t] = "none" => parent[t] = 0
  /\ \A t \in Tasks : state[t] # "none" => UnderInit(parent, t)

(* What the climb has passed is not heavier than what it remembers, and    *)
(* lighter if that one is above it.                                        *)
Passed(t) ==
  /\ t \notin Anc(parent, walk.task)
  /\ weight[t] <= walk.max_weight
  /\ walk.max_weight_pid \in steady /\ walk.max_weight_pid # t
       /\ walk.max_weight_pid \in Anc(parent, t) => weight[t] < walk.max_weight

WalkType ==
  [caller : Tasks, task : Tasks, max_weight : Int, max_weight_pid : Tasks, on : BOOLEAN]

Climbing ==
  Walking =>
    /\ walk \in WalkType
    /\ walk.caller \in Tasks /\ state[walk.caller] = "alive"
    /\ walk.task \in Tasks /\ state[walk.task] # "none"
    /\ walk.max_weight \in Int
    /\ Anc(parent, walk.task) \subseteq above /\ walk.max_weight_pid \in above
    /\ steady \subseteq Anc(parent, walk.caller)
    /\ walk.max_weight_pid \in steady =>
         walk.max_weight_pid = walk.task \/ walk.max_weight_pid \notin Anc(parent, walk.task)
    /\ \A t \in steady : Before(parent, walk.caller, walk.task, t) \/ Passed(t)

LEMMA AncestorsAre == \A t : /\ Ancestors(t) = Anc(parent, t)
                             /\ Ancestors(t)' = Anc(parent', t)
  BY DEF Ancestors, Anc, Closed

(* No task is below one that is gone.                                      *)
LEMMA NoneAbove ==
  ASSUME NEW f, f \in [Tasks -> Tasks], NEW st, f[0] = 0, st[0] = "alive",
         \A t \in Tasks \ {0} : st[t] # "none" => st[f[t]] = "alive",
         NEW u \in Tasks, st[u] # "none", NEW a \in Anc(f, u)
  PROVE  a \in Tasks /\ st[a] # "none" /\ (a # u => st[a] = "alive")
<1>1. PICK S : S = {t \in Tasks : st[t] = "alive"} \cup {u}
  OBVIOUS
<1>2. Closed(f, S)
  <2>1. ASSUME NEW t \in Tasks, st[t] # "none" PROVE f[t] \in Tasks /\ st[f[t]] = "alive"
    <3>1. CASE t = 0
      BY <3>1, TaskFacts
    <3>2. CASE t # 0
      BY <2>1, <3>2
    <3> QED BY <3>1, <3>2
  <2> QED BY <1>1, <2>1 DEF Closed
<1>3. Anc(f, u) \subseteq S
  BY <1>1, <1>2, AncLeast
<1> QED BY <1>1, <1>3

(* A change around the climb: those above shrink, and what is before the   *)
(* climb and still above the caller stays before it.                       *)
LEMMA WatchClimbing ==
  ASSUME TreeTypes, Linked, Rooted, Climbing, TreeTypes', Linked', Rooted', Watch,
         Walking => state'[walk.caller] = "alive" /\ state'[walk.task] # "none",
         Walking => \A u \in Tasks : state[u] # "none" /\ state'[u] # "none" =>
                      Anc(parent', u) \subseteq Anc(parent, u),
         Walking => \A t \in Tasks :
                      /\ state[t] # "none" /\ t \in Anc(parent', walk.caller)
                      /\ Before(parent, walk.caller, walk.task, t)
                      => Before(parent', walk.caller, walk.task, t)
  PROVE  Climbing'
<1>1. walk' = walk /\ Walking' = Walking
  BY DEF Watch, Walking
<1> SUFFICES ASSUME Walking PROVE Climbing'
  BY <1>1 DEF Climbing
<1>2. /\ walk \in WalkType
      /\ walk.caller \in Tasks /\ state[walk.caller] = "alive"
      /\ walk.task \in Tasks /\ state[walk.task] # "none"
      /\ walk.max_weight \in Int
      /\ Anc(parent, walk.task) \subseteq above /\ walk.max_weight_pid \in above
      /\ steady \subseteq Anc(parent, walk.caller)
      /\ walk.max_weight_pid \in steady =>
           walk.max_weight_pid = walk.task \/ walk.max_weight_pid \notin Anc(parent, walk.task)
      /\ \A t \in steady : Before(parent, walk.caller, walk.task, t) \/ Passed(t)
  BY DEF Climbing
<1>3. /\ above \subseteq above' /\ steady' \subseteq steady
      /\ \A t \in steady' : weight'[t] = weight[t] /\ t \in Anc(parent', walk.caller)
  BY AncestorsAre DEF Watch
<1>4. Anc(parent', walk.task) \subseteq Anc(parent, walk.task)
  BY <1>2
<1>5. ASSUME NEW t \in steady'
      PROVE  t \in Tasks /\ state[t] # "none" /\ state'[t] # "none"
  <2>1. PICK f, g, old, new : f = parent /\ g = parent' /\ old = state /\ new = state'
    OBVIOUS
  <2>2. /\ f \in [Tasks -> Tasks] /\ f[0] = 0 /\ old[0] = "alive"
        /\ \A x \in Tasks \ {0} : old[x] # "none" => old[f[x]] = "alive"
    BY <2>1 DEF TreeTypes, Linked, Rooted
  <2>3. /\ g \in [Tasks -> Tasks] /\ g[0] = 0 /\ new[0] = "alive"
        /\ \A x \in Tasks \ {0} : new[x] # "none" => new[g[x]] = "alive"
    BY <2>1 DEF TreeTypes, Linked, Rooted
  <2>4. PICK c \in Tasks : c = walk.caller
    BY <1>2
  <2>5. t \in Anc(f, c) /\ t \in Anc(g, c) /\ old[c] # "none" /\ new[c] # "none"
    BY <1>2, <1>3, <2>1, <2>4
  <2>6. t \in Tasks /\ old[t] # "none"
    BY <2>2, <2>5, NoneAbove
  <2>7. new[t] # "none"
    BY <2>3, <2>5, NoneAbove
  <2> QED BY <2>1, <2>6, <2>7
<1>6. ASSUME NEW t \in steady'
      PROVE  Before(parent', walk.caller, walk.task, t) \/ Passed(t)'
  <2>1. CASE Before(parent, walk.caller, walk.task, t)
    BY <1>3, <1>5, <2>1
  <2>2. CASE Passed(t)
    <3>1. t \notin Anc(parent', walk.task)
      BY <1>4, <2>2 DEF Passed
    <3>2. Anc(parent', t) \subseteq Anc(parent, t)
      BY <1>5
    <3> QED BY <1>1, <1>3, <2>2, <3>1, <3>2 DEF Passed
  <2> QED BY <1>2, <1>3, <2>1, <2>2
<1> QED BY <1>1, <1>2, <1>3, <1>4, <1>6 DEF Climbing

ClimbInv == Inv /\ Rooted /\ Climbing

LEMMA ClimbInvInit == Init => ClimbInv
<1> SUFFICES ASSUME Init PROVE ClimbInv
  OBVIOUS
<1>1. PICK f : f = parent
  OBVIOUS
<1>2. f = [t \in Tasks |-> 0] /\ f \in [Tasks -> Tasks] /\ f[0] = 0 /\ f[1] = 0
  BY <1>1, TaskFacts DEF Init
<1>3. Anc(f, 0) = {0}
  BY <1>2, AncOfIdle
<1>4. Acyclic(f)
  BY <1>2, <1>3 DEF Acyclic
<1>5. \A t \in Tasks : state[t] # "none" => UnderInit(f, t)
  <2>1. \A t \in Tasks : state[t] # "none" => t = 0 \/ t = 1
    BY DEF Init
  <2>2. 1 \in Anc(f, 1)
    BY <1>2, TaskFacts, AncIs
  <2> QED BY <2>1, <2>2 DEF UnderInit
<1>6. Rooted
  BY <1>1, <1>2, <1>4, <1>5 DEF Rooted
<1>7. Climbing
  BY DEF Init, NotWalking, Walking, Climbing
<1> QED BY <1>6, <1>7, InvInit DEF ClimbInv

(* A change that leaves the parents of all tasks as they are but for one,  *)
(* which has no children and is not above or in the climb                  *)
LEMMA AncKept ==
  ASSUME NEW f, NEW g, f \in [Tasks -> Tasks], g \in [Tasks -> Tasks], NEW c \in Tasks,
         \A t \in Tasks : f[t] # c, \A t \in Tasks : t # c => g[t] = f[t]
  PROVE  \A u \in Tasks : u # c => Anc(g, u) = Anc(f, u)
<1> SUFFICES ASSUME NEW u \in Tasks, u # c PROVE Anc(g, u) = Anc(f, u)
  OBVIOUS
<1>1. c \notin Anc(f, u) /\ Anc(f, u) \subseteq Tasks
  BY AncOfOthers DEF Anc
<1> QED BY <1>1, AncSame

LEMMA ClimbSetWeight ==
  ASSUME ClimbInv, Inv', NEW p \in Tasks, NEW w \in Weights \cup {-1}, SetWeight(p, w)
  PROVE  ClimbInv'
<1>1. UNCHANGED <<state, parent>> /\ Watch
  BY DEF SetWeight
<1>2. TreeTypes /\ Linked /\ Rooted /\ Climbing /\ TreeTypes' /\ Linked'
  BY DEF ClimbInv, Inv
<1>3. Rooted'
  BY <1>1, <1>2 DEF Rooted
<1>4. Walking => state'[walk.caller] = "alive" /\ state'[walk.task] # "none"
  BY <1>1, <1>2 DEF Climbing
<1>5. Climbing'
  BY <1>1, <1>2, <1>3, <1>4, WatchClimbing
<1> QED BY <1>3, <1>5 DEF ClimbInv

(* A tree that changes at one task only, which is nobody's parent          *)
LEMMA ClimbAtLeaf ==
  ASSUME ClimbInv, Inv', Watch, NEW c \in Tasks \ {0, 1},
         \A t \in Tasks : parent[t] # c,
         \A t \in Tasks : t # c => parent'[t] = parent[t] /\ state'[t] = state[t],
         state[c] = "none" \/ state'[c] = "none",
         parent'[c] # c,
         state'[c] = "none" => parent'[c] = 0,
         state'[c] # "none" => parent'[c] # 0 /\ state[parent'[c]] # "none",
         Walking => walk.caller # c /\ walk.task # c
  PROVE  ClimbInv'
<1>1. PICK f, g : f = parent /\ g = parent'
  OBVIOUS
<1>2. TreeTypes /\ Linked /\ Rooted /\ Climbing /\ TreeTypes' /\ Linked'
  BY DEF ClimbInv, Inv
<1>3. /\ f \in [Tasks -> Tasks] /\ g \in [Tasks -> Tasks]
      /\ \A t \in Tasks : f[t] # c
      /\ \A t \in Tasks : t # c => g[t] = f[t]
      /\ g[c] # c /\ g[c] \in Tasks
      /\ f[0] = 0 /\ f[1] = 0 /\ Acyclic(f)
  BY <1>1, <1>2 DEF TreeTypes, Rooted
<1>4. \A u \in Tasks : u # c => Anc(g, u) = Anc(f, u)
  BY <1>3, AncKept
<1>5. g[0] = 0 /\ g[1] = 0 /\ Acyclic(g)
  <2>1. g[0] = 0 /\ g[1] = 0
    BY <1>3, TaskFacts
  <2>2. ASSUME NEW t \in Tasks \ {0} PROVE t \notin Anc(g, g[t])
    <3>1. CASE t = c
      <4>1. Anc(g, g[c]) = Anc(f, g[c])
        BY <1>3, <1>4
      <4>2. c \notin Anc(f, g[c])
        BY <1>3, AncOfOthers
      <4> QED BY <3>1, <4>1, <4>2
    <3>2. CASE t # c
      <4>1. g[t] = f[t] /\ f[t] # c /\ f[t] \in Tasks
        BY <1>3, <3>2
      <4>2. t \notin Anc(f, f[t])
        BY <1>3 DEF Acyclic
      <4> QED BY <1>4, <4>1, <4>2
    <3> QED BY <3>1, <3>2
  <2> QED BY <2>1, <2>2 DEF Acyclic
<1>6. ASSUME NEW t \in Tasks, state'[t] # "none" PROVE UnderInit(g, t)
  <2>1. CASE t = c
    <3>1. g[c] # 0 /\ state[g[c]] # "none"
      BY <1>1, <1>6, <2>1
    <3>2. 1 \in Anc(f, g[c])
      BY <1>1, <1>2, <1>3, <3>1 DEF Rooted, UnderInit
    <3>3. 1 \in Anc(g, g[c])
      BY <1>3, <1>4, <3>2
    <3>4. 1 \in Anc(g, c)
      BY <1>3, <3>3, AncUnfold
    <3> QED BY <2>1, <3>4 DEF UnderInit
  <2>2. CASE t # c
    <3>1. UnderInit(f, t)
      BY <1>1, <1>2, <1>6, <2>2 DEF Rooted
    <3> QED BY <1>4, <2>2, <3>1 DEF UnderInit
  <2> QED BY <2>1, <2>2
<1>7. \A t \in Tasks : state'[t] = "none" => g[t] = 0
  BY <1>1, <1>2, <1>3 DEF Rooted
<1>8. Rooted'
  BY <1>1, <1>5, <1>6, <1>7 DEF Rooted
<1>9. Walking => /\ walk.caller \in Tasks /\ walk.task \in Tasks
                 /\ state'[walk.caller] = "alive" /\ state'[walk.task] # "none"
  BY <1>2 DEF Climbing
<1>10. \A u \in Tasks : state[u] # "none" /\ state'[u] # "none" =>
         Anc(parent', u) \subseteq Anc(parent, u)
  BY <1>1, <1>4
<1>11. Walking => \A t \in Tasks :
         Before(parent, walk.caller, walk.task, t) => Before(parent', walk.caller, walk.task, t)
  <2>1. Walking => /\ Anc(g, walk.caller) = Anc(f, walk.caller)
                   /\ Anc(g, walk.task) = Anc(f, walk.task)
    BY <1>4, <1>9
  <2> QED BY <1>1, <2>1 DEF Before
<1>12. Climbing'
  BY <1>2, <1>8, <1>9, <1>10, <1>11, WatchClimbing
<1> QED BY <1>8, <1>12 DEF ClimbInv

LEMMA ClimbFork ==
  ASSUME ClimbInv, Inv', NEW p \in Tasks, NEW c \in Pids, Fork(p, c)
  PROVE  ClimbInv'
<1>1. /\ state[p] = "alive" /\ state[c] = "none" /\ p # 0 /\ Watch
      /\ state' = [state EXCEPT ![c] = "alive"] /\ parent' = [parent EXCEPT ![c] = p]
  BY DEF Fork, Runs
<1>2. TreeTypes /\ Linked /\ Rooted /\ Climbing /\ c \in Tasks \ {0, 1} /\ p # c
  BY <1>1, TaskFacts DEF ClimbInv, Inv
<1>3. \A t \in Tasks : parent[t] # c
  BY <1>1, <1>2 DEF Linked, Rooted
<1>4. /\ parent'[c] = p /\ state'[c] = "alive"
      /\ \A t \in Tasks : t # c => parent'[t] = parent[t] /\ state'[t] = state[t]
  BY <1>1, <1>2 DEF TreeTypes
<1>5. Walking => walk.caller # c /\ walk.task # c
  BY <1>1, <1>2 DEF Climbing
<1> QED BY <1>1, <1>2, <1>3, <1>4, <1>5, ClimbAtLeaf

(* A zombie has no children, and the task the climb stands on is not       *)
(* reaped.                                                                 *)
LEMMA ClimbReap ==
  ASSUME ClimbInv, Inv', NEW p \in Tasks, Reap(p)
  PROVE  ClimbInv'
<1>1. /\ state[p] = "zombie" /\ ~(Walking /\ walk.task = p) /\ Watch
      /\ state' = [state EXCEPT ![p] = "none"] /\ parent' = [parent EXCEPT ![p] = 0]
  BY DEF Reap
<1>2. TreeTypes /\ Linked /\ Rooted /\ Climbing /\ p \in Tasks \ {0, 1}
  BY <1>1 DEF ClimbInv, Inv, Linked
<1>3. \A t \in Tasks : parent[t] # p
  BY <1>1, <1>2 DEF Linked, Rooted
<1>4. /\ parent'[p] = 0 /\ state'[p] = "none"
      /\ \A t \in Tasks : t # p => parent'[t] = parent[t] /\ state'[t] = state[t]
  BY <1>1, <1>2 DEF TreeTypes
<1>5. Walking => walk.caller # p /\ walk.task # p
  BY <1>1, <1>2 DEF Climbing
<1> QED BY <1>1, <1>2, <1>3, <1>4, <1>5, ClimbAtLeaf

LEMMA ClimbExit ==
  ASSUME ClimbInv, Inv', NEW p \in Tasks, Exit(p)
  PROVE  ClimbInv'
<1>1. /\ state[p] = "alive" /\ p # 0 /\ p # 1 /\ (Walking => walk.caller # p) /\ Watch
      /\ state' = [state EXCEPT ![p] = "zombie"]
      /\ parent' = [t \in Tasks |-> IF parent[t] = p /\ state[t] # "none" THEN 1 ELSE parent[t]]
  BY DEF Exit, Runs
<1>2. TreeTypes /\ Linked /\ Rooted /\ Climbing /\ TreeTypes' /\ Linked'
  BY DEF ClimbInv, Inv
<1>3. PICK f, g : f = parent /\ g = parent'
  OBVIOUS
<1>4. /\ f \in [Tasks -> Tasks] /\ g \in [Tasks -> Tasks] /\ Acyclic(f) /\ f[0] = 0 /\ f[1] = 0
  BY <1>2, <1>3 DEF TreeTypes, Rooted
<1>5. Handed(f, g, p)
  <2>1. \A t \in Tasks : g[t] = IF f[t] = p /\ state[t] # "none" THEN 1 ELSE f[t]
    BY <1>1, <1>3
  <2>2. \A t \in Tasks : f[t] = p => state[t] # "none"
    BY <1>1, <1>2, <1>3 DEF Rooted
  <2> QED BY <1>1, <1>4, <2>1, <2>2 DEF Handed
<1>6. /\ \A t \in Tasks : state'[t] = "none" <=> state[t] = "none"
      /\ \A t \in Tasks : t # p => state'[t] = state[t]
  BY <1>1, <1>2 DEF TreeTypes
<1>7. \A t \in Tasks : state[t] # "none" => UnderInit(f, t)
  BY <1>2, <1>3 DEF Rooted
<1>8. \A t \in Tasks \ {0} : f[t] \in Tasks /\ UnderInit(f, f[t])
  <2>1. ASSUME NEW t \in Tasks \ {0} PROVE f[t] \in Tasks /\ UnderInit(f, f[t])
    <3>1. CASE state[t] = "none"
      BY <1>2, <1>3, <3>1, TaskFacts DEF Rooted, UnderInit
    <3>2. CASE state[t] # "none"
      BY <1>2, <1>3, <1>4, <1>7, <3>2 DEF Linked
    <3> QED BY <3>1, <3>2
  <2> QED BY <2>1
<1>9. Acyclic(g) /\ g[0] = 0 /\ g[1] = 0
  <2>1. g[0] = 0 /\ g[1] = 0
    BY <1>4, <1>5, TaskFacts DEF Handed
  <2>2. ASSUME NEW t \in Tasks \ {0} PROVE t \notin Anc(g, g[t])
    <3>1. CASE f[t] = p
      <4>1. g[t] = 1 /\ t # 1
        BY <1>1, <1>4, <1>5, <3>1 DEF Handed
      <4>2. Anc(f, 1) = {1} \cup Anc(f, 0) /\ Anc(f, 0) = {0}
        BY <1>4, TaskFacts, AncUnfold, AncOfIdle
      <4>3. Anc(g, 1) \subseteq Anc(f, 1)
        BY <1>4, <1>5, <4>2, TaskFacts, HandedAnc DEF UnderInit
      <4> QED BY <4>1, <4>2, <4>3
    <3>2. CASE f[t] # p
      <4>1. g[t] = f[t] /\ t \notin Anc(f, f[t])
        BY <1>4, <1>5, <3>2 DEF Handed, Acyclic
      <4>2. Anc(g, f[t]) \subseteq Anc(f, f[t])
        BY <1>4, <1>5, <1>8, HandedAnc
      <4> QED BY <4>1, <4>2
    <3> QED BY <3>1, <3>2
  <2> QED BY <2>1, <2>2 DEF Acyclic
<1>10. \A u \in Tasks : state[u] # "none" => Anc(g, u) \subseteq Anc(f, u) /\ UnderInit(g, u)
  BY <1>4, <1>5, <1>7, HandedAnc
<1>11. \A t \in Tasks : state'[t] = "none" => g[t] = 0
  <2>1. ASSUME NEW t \in Tasks, state'[t] = "none" PROVE g[t] = 0
    <3>1. f[t] = 0
      BY <1>2, <1>3, <1>6, <2>1 DEF Rooted
    <3> QED BY <1>1, <1>5, <3>1 DEF Handed
  <2> QED BY <2>1
<1>12. Rooted'
  BY <1>3, <1>6, <1>9, <1>10, <1>11 DEF Rooted
<1>13. Walking => /\ walk.caller \in Tasks /\ walk.task \in Tasks
                  /\ state[walk.caller] = "alive" /\ state[walk.task] # "none"
                  /\ state'[walk.caller] = "alive" /\ state'[walk.task] # "none"
  BY <1>1, <1>2, <1>6 DEF Climbing
<1>14. \A u \in Tasks : state[u] # "none" /\ state'[u] # "none" =>
         Anc(parent', u) \subseteq Anc(parent, u)
  BY <1>3, <1>10
<1>15. Walking => \A t \in Tasks :
         /\ state[t] # "none" /\ t \in Anc(parent', walk.caller)
         /\ Before(parent, walk.caller, walk.task, t)
         => Before(parent', walk.caller, walk.task, t)
  <2> SUFFICES ASSUME Walking, NEW t \in Tasks, state[t] # "none", t \in Anc(g, walk.caller),
                      Before(f, walk.caller, walk.task, t)
               PROVE  Before(g, walk.caller, walk.task, t)
    BY <1>3
  <2>1. PICK c \in Tasks, k \in Tasks : c = walk.caller /\ k = walk.task
    BY <1>13
  <2>2. UnderInit(f, c) /\ UnderInit(f, k) /\ UnderInit(f, t)
    BY <1>7, <1>13, <2>1
  <2> QED BY <1>4, <1>5, <2>1, <2>2, HandedBefore
<1>16. Climbing'
  BY <1>1, <1>2, <1>12, <1>13, <1>14, <1>15, WatchClimbing
<1> QED BY <1>12, <1>16 DEF ClimbInv

LEMMA ClimbEnter ==
  ASSUME ClimbInv, Inv', NEW p \in Tasks, EnterWalk(p)
  PROVE  ClimbInv'
<1>1. /\ state[p] = "alive" /\ UNCHANGED <<state, parent, weight>>
      /\ walk' = [caller |-> p, task |-> p, max_weight |-> weight[p], max_weight_pid |-> p,
                  on |-> TRUE]
      /\ steady' = Ancestors(p) /\ above' = Ancestors(p)
  BY DEF EnterWalk, Runs, tree
<1>2. TreeTypes /\ Rooted
  BY DEF ClimbInv, Inv
<1>3. PICK f : f = parent
  OBVIOUS
<1>4. f \in [Tasks -> Tasks] /\ weight[p] \in Int
  BY <1>2, <1>3 DEF TreeTypes
<1>5. steady' = Anc(f, p) /\ above' = Anc(f, p) /\ parent' = f
  BY <1>1, <1>3, AncestorsAre
<1>6. p \in Anc(f, p)
  BY <1>4, AncIs
<1>7. Rooted'
  BY <1>1, <1>2 DEF Rooted
<1>71. walk' \in WalkType
  BY <1>1, <1>4 DEF WalkType
<1>8. Climbing'
  BY <1>1, <1>4, <1>5, <1>6, <1>71 DEF Climbing, Before
<1> QED BY <1>7, <1>8 DEF ClimbInv

(* The climb looks at a task and goes to its parent, which it is not       *)
(* above.                                                                  *)
LEMMA ClimbClimb ==
  ASSUME ClimbInv, Inv', Climb
  PROVE  ClimbInv'
<1>1. /\ Walking /\ walk.task # 0 /\ UNCHANGED <<state, parent, weight, steady, above>>
      /\ walk' = [Noted EXCEPT !.task = parent[walk.task]]
  BY DEF Climb, IsLast, tree
<1>2. TreeTypes /\ Linked /\ Rooted /\ Climbing
  BY DEF ClimbInv, Inv
<1>3. PICK f, k, c, q, m, pid :
        /\ f = parent /\ k = walk.task /\ c = walk.caller /\ q = f[k]
        /\ m = Noted.max_weight /\ pid = Noted.max_weight_pid
  OBVIOUS
<1>4. /\ walk \in WalkType /\ c \in Tasks /\ state[c] = "alive"
      /\ k \in Tasks \ {0} /\ state[k] # "none" /\ weight[k] \in Int /\ walk.max_weight \in Int
      /\ Anc(f, k) \subseteq above /\ walk.max_weight_pid \in above
      /\ steady \subseteq Anc(f, c)
      /\ walk.max_weight_pid \in steady =>
           walk.max_weight_pid = k \/ walk.max_weight_pid \notin Anc(f, k)
      /\ \A t \in steady : Before(f, c, k, t) \/ Passed(t)
  BY <1>1, <1>2, <1>3 DEF Climbing, TreeTypes
<1>5. f \in [Tasks -> Tasks] /\ Acyclic(f) /\ q \in Tasks /\ state[q] # "none"
  BY <1>2, <1>3, <1>4 DEF TreeTypes, Rooted, Linked
<1>6. /\ m \in Int /\ walk.max_weight <= m /\ weight[k] <= m
      /\ \/ pid = k /\ walk.max_weight < m
         \/ pid = walk.max_weight_pid /\ m = walk.max_weight
      /\ pid \in Tasks
  <2>1. CASE Heavier
    <3>1. m = weight[k] /\ pid = k
      BY <1>3, <1>4, <2>1 DEF Noted, WalkType
    <3>2. weight[k] > walk.max_weight
      BY <1>3, <2>1 DEF Heavier
    <3> QED BY <1>4, <3>1, <3>2
  <2>2. CASE ~Heavier
    <3>1. m = walk.max_weight /\ pid = walk.max_weight_pid /\ pid \in Tasks
      BY <1>3, <1>4, <2>2 DEF Noted, WalkType
    <3>2. ~(weight[k] > walk.max_weight)
      BY <1>3, <2>2 DEF Heavier
    <3> QED BY <1>4, <3>1, <3>2
  <2> QED BY <2>1, <2>2
<1>7. /\ walk' \in WalkType /\ walk'.caller = c /\ walk'.task = q
      /\ walk'.max_weight = m /\ walk'.max_weight_pid = pid
  <2>1. Noted \in WalkType /\ Noted.caller = c
    BY <1>3, <1>4 DEF Noted, WalkType
  <2>2. walk' = [Noted EXCEPT !.task = q]
    BY <1>1, <1>3
  <2> QED BY <1>3, <1>5, <2>1, <2>2 DEF WalkType
<1>8. Anc(f, k) = {k} \cup Anc(f, q) /\ k \notin Anc(f, q)
  BY <1>3, <1>4, <1>5, AncUnfold DEF Acyclic
<1>9. pid \in above /\ (pid \in steady => pid \notin Anc(f, q))
  BY <1>4, <1>6, <1>8, AncIs
<1>10. ASSUME NEW t \in steady
       PROVE  \/ Before(f, c, q, t)
              \/ /\ t \notin Anc(f, q) /\ weight[t] <= m
                 /\ pid \in steady /\ pid # t /\ pid \in Anc(f, t) => weight[t] < m
  <2>0. t \in Tasks /\ weight[t] \in Int
    BY <1>2, <1>4 DEF Anc, TreeTypes
  <2>1. CASE Before(f, c, k, t) /\ t # k
    <3>1. t \in Anc(f, q)
      BY <1>8, <2>1 DEF Before
    <3>2. k \in Anc(f, c) => q \in Anc(f, c)
      BY <1>3, <1>4, <1>5, AncIs DEF Closed
    <3> QED BY <2>1, <3>1, <3>2 DEF Before
  <2>2. CASE t = k
    <3>1. ~(pid \in steady /\ pid # t /\ pid \in Anc(f, t))
      BY <1>4, <1>6, <2>2
    <3> QED BY <1>6, <1>8, <2>2, <3>1
  <2>3. CASE Passed(t)
    <3>1. /\ t \notin Anc(f, k) /\ weight[t] <= walk.max_weight
          /\ walk.max_weight_pid \in steady /\ walk.max_weight_pid # t
               /\ walk.max_weight_pid \in Anc(f, t) => weight[t] < walk.max_weight
      BY <1>3, <2>3 DEF Passed
    <3>2. t \notin Anc(f, q)
      BY <1>8, <3>1
    <3>3. weight[t] <= m
      BY <1>4, <1>6, <2>0, <3>1
    <3>4. pid \in steady /\ pid # t /\ pid \in Anc(f, t) => weight[t] < m
      BY <1>4, <1>6, <2>0, <3>1
    <3> QED BY <3>2, <3>3, <3>4
  <2> QED BY <1>4, <2>1, <2>2, <2>3
<1>11. Rooted'
  BY <1>1, <1>2 DEF Rooted
<1>12. parent' = f /\ state' = state /\ weight' = weight /\ steady' = steady /\ above' = above
  BY <1>1, <1>3
<1>13. Climbing'
  BY <1>4, <1>5, <1>6, <1>7, <1>8, <1>9, <1>10, <1>12 DEF Climbing, Passed
<1> QED BY <1>11, <1>13 DEF ClimbInv

(* The other steps leave the tree as it is, and there is no climb.         *)
LEMMA ClimbOthers ==
  ASSUME ClimbInv, Inv', \/ \E p \in Tasks : EnterSum(p)
                         \/ Return \/ LeafSum \/ Lost \/ UNCHANGED vars
  PROVE  ClimbInv'
<1>1. UNCHANGED <<state, parent, weight>>
  BY DEF EnterSum, Return, LeafSum, traverse_children_sum_weight, TraverseReturns, SumReturns,
     Lost, vars, tree
<1>2. Rooted'
  BY <1>1 DEF ClimbInv, Rooted
<1> SUFFICES Climbing'
  BY <1>2 DEF ClimbInv
<1>3. CASE UNCHANGED <<walk, steady, above>>
  <2>1. /\ parent' = parent /\ state' = state /\ weight' = weight
        /\ walk' = walk /\ steady' = steady /\ above' = above
    BY <1>1, <1>3
  <2>2. Climbing
    BY DEF ClimbInv
  <2>3. ASSUME NEW t PROVE Passed(t)' <=> Passed(t)
    BY <2>1 DEF Passed
  <2> QED BY <2>1, <2>2, <2>3 DEF Climbing, Walking
<1>4. CASE (\E p \in Tasks : EnterSum(p)) \/ Return \/ SumReturns
  <2>1. (\E p \in Tasks : walk' = [NotWalking EXCEPT !.caller = p]) \/ walk' = NotWalking
    BY <1>4 DEF EnterSum, Return, SumReturns
  <2>2. ~Walking'
    BY <2>1 DEF NotWalking, Walking
  <2> QED BY <2>2 DEF Climbing
<1>5. CASE traverse_children_sum_weight \/ TraverseReturns \/ Lost \/ UNCHANGED vars
  <2>1. CASE traverse_children_sum_weight \/ TraverseReturns
    BY <1>3, <2>1 DEF traverse_children_sum_weight, TraverseReturns
  <2>2. CASE Lost \/ UNCHANGED vars
    BY <1>3, <2>2 DEF Lost, vars
  <2> QED BY <1>5, <2>1, <2>2
<1> QED BY <1>4, <1>5 DEF LeafSum

LEMMA ClimbInvNext == ClimbInv /\ [Next]_vars => ClimbInv'
<1> SUFFICES ASSUME ClimbInv, [Next]_vars PROVE ClimbInv'
  OBVIOUS
<1>1. Inv'
  BY InvNext DEF ClimbInv
<1>2. CASE Change
  BY <1>1, <1>2, ClimbSetWeight, ClimbFork, ClimbExit, ClimbReap DEF Change
<1>3. CASE Climb
  BY <1>1, <1>3, ClimbClimb
<1>4. CASE \E p \in Tasks : EnterWalk(p)
  BY <1>1, <1>4, ClimbEnter
<1>5. CASE (\E p \in Tasks : EnterSum(p)) \/ Return \/ LeafSum \/ Lost \/ UNCHANGED vars
  BY <1>1, <1>5, ClimbOthers
<1> QED BY <1>2, <1>3, <1>4, <1>5 DEF Next

(* What the last step of the climb answers                                 *)
HeaviestStep ==
  Walking /\ ~Walking' =>
    LET pid == Noted.max_weight_pid
    IN  /\ pid \in above
        /\ \A t \in steady :
             /\ weight[t] <= Noted.max_weight
             /\ pid \in steady /\ pid # t /\ pid \in Ancestors(t) => weight[t] < Noted.max_weight

LEMMA AnswerIsHeaviest == ClimbInv /\ [Next]_vars => HeaviestStep
<1> SUFFICES ASSUME ClimbInv, [Next]_vars, Walking, ~Walking' PROVE HeaviestStep
  BY DEF HeaviestStep
<1>1. Return
  <2>1. ~Summing
    BY DEF ClimbInv, Inv, Inside
  <2>2. walk' = walk => Walking' = Walking
    BY DEF Walking
  <2>3. ~Change /\ ~LeafSum /\ ~(\E p \in Tasks : EnterWalk(p) \/ EnterSum(p)) /\ ~Lost
        /\ ~(UNCHANGED vars)
    BY <2>1, <2>2 DEF Change, SetWeight, Fork, Exit, Reap, Watch, LeafSum, InLists,
       traverse_children_sum_weight, TraverseReturns, SumReturns, EnterWalk, EnterSum, Lost, vars
  <2>4. ~Climb
    <3>1. ASSUME Climb PROVE Walking'
      <4>1. walk \in WalkType /\ walk' = [Noted EXCEPT !.task = parent[walk.task]] /\ walk.on
        BY <3>1 DEF Climb, ClimbInv, Climbing, Walking
      <4>2. PICK q : q = parent[walk.task]
        OBVIOUS
      <4>3. Noted.on = walk.on /\ DOMAIN Noted = DOMAIN walk
        BY <4>1 DEF Noted, WalkType
      <4>4. walk'.on = Noted.on
        BY <4>1, <4>2, <4>3 DEF WalkType
      <4> QED BY <4>1, <4>3, <4>4 DEF Walking
    <3> QED BY <3>1
  <2> QED BY <2>3, <2>4 DEF Next
<1>2. TreeTypes /\ Linked /\ Rooted /\ Climbing
  BY DEF ClimbInv, Inv
<1>3. PICK f, c, m, pid : /\ f = parent /\ c = walk.caller
                          /\ m = Noted.max_weight /\ pid = Noted.max_weight_pid
  OBVIOUS
<1>4. /\ walk \in WalkType /\ walk.task = 0 /\ weight[0] \in Int /\ walk.max_weight \in Int
      /\ f \in [Tasks -> Tasks] /\ c \in Tasks
      /\ Anc(f, 0) = {0} /\ 0 \in above /\ walk.max_weight_pid \in above
      /\ steady \subseteq Anc(f, c)
      /\ \A t \in steady : Before(f, c, 0, t) \/ Passed(t)
  <2>1. walk.task = 0
    BY <1>1 DEF Return, IsLast
  <2>2. f \in [Tasks -> Tasks] /\ f[0] = 0
    BY <1>2, <1>3 DEF TreeTypes, Rooted
  <2>3. Anc(f, 0) = {0}
    BY <2>2, AncOfIdle
  <2>4. weight[0] \in Int
    BY <1>2, TaskFacts DEF TreeTypes
  <2> QED BY <1>2, <1>3, <2>1, <2>2, <2>3, <2>4 DEF Climbing
<1>5. /\ m \in Int /\ walk.max_weight <= m /\ weight[0] <= m
      /\ \/ pid = 0 /\ walk.max_weight < m
         \/ pid = walk.max_weight_pid /\ m = walk.max_weight
  <2>1. CASE Heavier
    <3>1. m = weight[0] /\ pid = 0
      BY <1>3, <1>4, <2>1 DEF Noted, WalkType
    <3>2. weight[0] > walk.max_weight
      BY <1>4, <2>1 DEF Heavier
    <3> QED BY <1>4, <3>1, <3>2
  <2>2. CASE ~Heavier
    <3>1. m = walk.max_weight /\ pid = walk.max_weight_pid
      BY <1>3, <2>2 DEF Noted
    <3>2. ~(weight[0] > walk.max_weight)
      BY <1>4, <2>2 DEF Heavier
    <3> QED BY <1>4, <3>1, <3>2
  <2> QED BY <2>1, <2>2
<1>6. pid \in above
  BY <1>4, <1>5
<1>7. ASSUME NEW t \in steady
      PROVE  /\ weight[t] <= m
             /\ pid \in steady /\ pid # t /\ pid \in Anc(f, t) => weight[t] < m
  <2>0. t \in Tasks /\ weight[t] \in Int
    BY <1>2, <1>4 DEF Anc, TreeTypes
  <2>1. CASE t = 0
    BY <1>4, <1>5, <2>1
  <2>2. CASE Passed(t)
    <3>1. /\ weight[t] <= walk.max_weight
          /\ walk.max_weight_pid \in steady /\ walk.max_weight_pid # t
               /\ walk.max_weight_pid \in Anc(f, t) => weight[t] < walk.max_weight
      BY <1>3, <2>2 DEF Passed
    <3> QED BY <1>4, <1>5, <2>0, <3>1
  <2> QED BY <1>4, <2>1, <2>2 DEF Before
<1>8. Noted.max_weight = m /\ Noted.max_weight_pid = pid /\ \A t : Ancestors(t) = Anc(f, t)
  BY <1>3, AncestorsAre
<1> QED BY <1>6, <1>7, <1>8 DEF HeaviestStep

(* Whatever other processes do while it climbs, sys_get_heaviest_ancestor  *)
(* answers with a task that was above the caller, or the caller; none that *)
(* was above it all along with one weight is heavier, and none as heavy is *)
(* nearer to the caller.                                                   *)
THEOREM HeaviestAnswered == Spec => HeaviestOfSteady
<1>1. [][HeaviestStep]_vars <=> HeaviestOfSteady
  BY DEF HeaviestStep, HeaviestOfSteady
<1>2. Init => ClimbInv
  BY ClimbInvInit
<1>3. ClimbInv /\ [Next]_vars => ClimbInv'
  BY ClimbInvNext
<1>4. ClimbInv /\ [Next]_vars => [HeaviestStep]_vars
  BY AnswerIsHeaviest
<1> QED BY <1>1, <1>2, <1>3, <1>4, PTL DEF Spec

-----------------------------------------------------------------------------
(* The order of a list                                                     *)

(* c is in the list, behind at, or anywhere if at is the head of the list. *)
Ahead(list, at, c) ==
  \E j \in DOMAIN list : list[j] = c /\ (at = 0 \/ \E i \in DOMAIN list : i < j /\ list[i] = at)

Different(list) == \A i, j \in DOMAIN list : list[i] = list[j] => i = j

(* What stands where in a list that another one is appended to             *)
LEMMA JoinedIs ==
  ASSUME NEW S, NEW s \in Seq(S), NEW r \in Seq(S)
  PROVE  /\ DOMAIN s = 1..Len(s) /\ DOMAIN r = 1..Len(r) /\ Len(s) \in Nat /\ Len(r) \in Nat
         /\ DOMAIN (s \o r) = 1..(Len(s) + Len(r)) /\ s \o r \in Seq(S)
         /\ \A k \in 1..(Len(s) + Len(r)) : (s \o r)[k] = IF k <= Len(s) THEN s[k] ELSE r[k - Len(s)]
<1>1. s \o r \in Seq(S) /\ Len(s \o r) = Len(s) + Len(r)
      /\ \A k \in 1..(Len(s) + Len(r)) : (s \o r)[k] = IF k <= Len(s) THEN s[k] ELSE r[k - Len(s)]
  BY ConcatProperties
<1> QED BY <1>1, LenProperties

(* A list that grows at its end keeps the order of what it has.            *)
LEMMA GrownOrder ==
  ASSUME NEW S, NEW s \in Seq(S), NEW r \in Seq(S), NEW c, ~Contains(r, c), NEW at
  PROVE  Ahead(s \o r, at, c) <=> Ahead(s, at, c)
<1>1. PICK m \in Nat, n \in Nat : m = Len(s) /\ n = Len(r)
  BY JoinedIs
<1>2. PICK t : t = s \o r
  OBVIOUS
<1>3. /\ DOMAIN s = 1..m /\ DOMAIN r = 1..n /\ DOMAIN t = 1..(m + n)
      /\ \A k \in 1..(m + n) : t[k] = IF k <= m THEN s[k] ELSE r[k - m]
  BY <1>1, <1>2, JoinedIs
<1>4. \A k \in 1..m : k \in 1..(m + n) /\ t[k] = s[k]
  BY <1>3
<1>5. ASSUME NEW k \in 1..(m + n), t[k] = c PROVE k \in 1..m
  <2> SUFFICES ASSUME k > m PROVE FALSE
    OBVIOUS
  <2>1. k - m \in 1..n /\ r[k - m] = c
    BY <1>3, <1>5
  <2>2. k - m \in 1..Len(r)
    BY <1>1, <2>1
  <2> QED BY <2>1, <2>2 DEF Contains
<1>6. ASSUME Ahead(t, at, c) PROVE Ahead(s, at, c)
  <2>1. PICK j \in 1..(m + n) : t[j] = c /\ (at = 0 \/ \E i \in 1..(m + n) : i < j /\ t[i] = at)
    BY <1>3, <1>6 DEF Ahead
  <2>2. j \in 1..m /\ s[j] = c
    BY <1>4, <1>5, <2>1
  <2>3. ASSUME NEW i \in 1..(m + n), i < j, t[i] = at PROVE i \in 1..m /\ s[i] = at
    <3>1. i \in 1..m
      BY <2>2, <2>3
    <3> QED BY <1>4, <2>3, <3>1
  <2> QED BY <1>3, <2>1, <2>2, <2>3 DEF Ahead
<1>7. ASSUME Ahead(s, at, c) PROVE Ahead(t, at, c)
  BY <1>3, <1>4, <1>7 DEF Ahead
<1> QED BY <1>2, <1>6, <1>7

(* Two lists that share nothing, each without a repetition                 *)
LEMMA GrownDifferent ==
  ASSUME NEW S, NEW s \in Seq(S), NEW r \in Seq(S), Different(s), Different(r),
         \A e : ~(Contains(s, e) /\ Contains(r, e))
  PROVE  Different(s \o r)
<1>1. PICK m \in Nat, n \in Nat : m = Len(s) /\ n = Len(r)
  BY JoinedIs
<1>2. PICK t : t = s \o r
  OBVIOUS
<1>3. /\ DOMAIN s = 1..m /\ DOMAIN r = 1..n /\ DOMAIN t = 1..(m + n)
      /\ \A k \in 1..(m + n) : t[k] = IF k <= m THEN s[k] ELSE r[k - m]
  BY <1>1, <1>2, JoinedIs
<1>4. \A k \in 1..(m + n) : \/ k \in 1..m /\ t[k] = s[k] /\ Contains(s, t[k])
                            \/ k > m /\ k - m \in 1..n /\ t[k] = r[k - m] /\ Contains(r, t[k])
  <2> SUFFICES ASSUME NEW k \in 1..(m + n)
               PROVE  \/ k \in 1..m /\ t[k] = s[k] /\ Contains(s, t[k])
                      \/ k > m /\ k - m \in 1..n /\ t[k] = r[k - m] /\ Contains(r, t[k])
    OBVIOUS
  <2>1. CASE k <= m
    <3>1. k \in 1..m /\ t[k] = s[k]
      BY <1>3, <2>1
    <3> QED BY <1>1, <3>1 DEF Contains
  <2>2. CASE k > m
    <3>1. k - m \in 1..n /\ t[k] = r[k - m]
      BY <1>3, <2>2
    <3> QED BY <1>1, <2>2, <3>1 DEF Contains
  <2> QED BY <2>1, <2>2
<1>5. ASSUME NEW i \in 1..(m + n), NEW j \in 1..(m + n), t[i] = t[j] PROVE i = j
  <2>1. CASE i \in 1..m /\ t[i] = s[i] /\ Contains(s, t[i])
    <3>1. j \in 1..m /\ t[j] = s[j]
      BY <1>4, <1>5, <2>1
    <3> QED BY <1>3, <1>5, <2>1, <3>1 DEF Different
  <2>2. CASE i > m /\ i - m \in 1..n /\ t[i] = r[i - m] /\ Contains(r, t[i])
    <3>1. j > m /\ j - m \in 1..n /\ t[j] = r[j - m]
      BY <1>4, <1>5, <2>2
    <3>2. i - m = j - m
      BY <1>3, <1>5, <2>2, <3>1 DEF Different
    <3> QED BY <3>2
  <2> QED BY <1>4, <2>1, <2>2
<1> QED BY <1>2, <1>3, <1>5 DEF Different

(* One more child is a list of one more.                                   *)
LEMMA OneChild ==
  ASSUME NEW S, NEW s \in Seq(S), NEW c \in S
  PROVE  /\ Append(s, c) = s \o <<c>> /\ <<c>> \in Seq(S) /\ Different(<<c>>)
         /\ \A e : Contains(<<c>>, e) <=> e = c
<1>1. Append(s, c) = s \o <<c>>
  BY AppendIsConcat
<1>2. <<c>> \in Seq(S) /\ Len(<<c>>) = 1 /\ DOMAIN <<c>> = 1..1 /\ <<c>>[1] = c
  OBVIOUS
<1>3. \A k : k \in 1..1 <=> k = 1
  OBVIOUS
<1> QED BY <1>1, <1>2, <1>3 DEF Contains, Different

(* ... and in one that an element is taken from                            *)
LEMMA RemovedIs ==
  ASSUME NEW S, NEW s \in Seq(S), NEW p \in 1..Len(s)
  PROVE  /\ Len(s) \in Nat /\ RemoveAt(s, p) \in Seq(S) /\ Len(RemoveAt(s, p)) = Len(s) - 1
         /\ \A k \in 1..(Len(s) - 1) : RemoveAt(s, p)[k] = IF k < p THEN s[k] ELSE s[k + 1]
<1>1. Len(s) \in Nat
  BY LenProperties
<1>2. PICK u, v : u = SubSeq(s, 1, p - 1) /\ v = SubSeq(s, p + 1, Len(s))
  OBVIOUS
<1>3. u \in Seq(S) /\ Len(u) = p - 1 /\ \A k \in 1..(p - 1) : u[k] = s[k]
  BY <1>1, <1>2, SubSeqProperties
<1>4. v \in Seq(S) /\ Len(v) = Len(s) - p /\ \A k \in 1..(Len(s) - p) : v[k] = s[k + p]
  BY <1>1, <1>2, SubSeqProperties
<1>5. /\ u \o v \in Seq(S) /\ Len(u \o v) = Len(u) + Len(v)
      /\ \A k \in 1..(Len(u) + Len(v)) : (u \o v)[k] = IF k <= Len(u) THEN u[k] ELSE v[k - Len(u)]
  BY <1>3, <1>4, ConcatProperties
<1>6. Len(u) + Len(v) = Len(s) - 1
  BY <1>1, <1>3, <1>4
<1>7. ASSUME NEW k \in 1..(Len(s) - 1) PROVE (u \o v)[k] = IF k < p THEN s[k] ELSE s[k + 1]
  <2>1. (u \o v)[k] = IF k <= Len(u) THEN u[k] ELSE v[k - Len(u)]
    BY <1>5, <1>6
  <2>2. CASE k < p
    <3>1. k <= Len(u) /\ k \in 1..(p - 1)
      BY <1>1, <1>3, <2>2
    <3> QED BY <1>3, <2>1, <2>2, <3>1
  <2>3. CASE k >= p
    <3>1. ~(k <= Len(u)) /\ k - Len(u) \in 1..(Len(s) - p) /\ (k - Len(u)) + p = k + 1
      BY <1>1, <1>3, <2>3
    <3>2. v[k - Len(u)] = s[k + 1]
      BY <1>4, <3>1
    <3> QED BY <2>1, <2>3, <3>1, <3>2
  <2>4. k < p \/ k >= p
    <3>1. k \in Int /\ p \in Int
      BY <1>1
    <3> QED BY <3>1
  <2> QED BY <2>2, <2>3, <2>4
<1>8. RemoveAt(s, p) = u \o v
  BY <1>2 DEF RemoveAt
<1> QED BY <1>1, <1>5, <1>6, <1>7, <1>8

(* A list that loses a child keeps the order of the others.                *)
LEMMA LessOrder ==
  ASSUME NEW S, NEW s \in Seq(S), NEW c, Contains(s, c), Different(s), NEW r,
         r = RemoveAt(s, Place(s, c))
  PROVE  /\ r \in Seq(S) /\ Different(r)
         /\ \A e : Contains(r, e) <=> e # c /\ Contains(s, e)
         /\ \A at, e : at # c /\ e # c => (Ahead(r, at, e) <=> Ahead(s, at, e))
<1>1. PICK p \in 1..Len(s) : p = Place(s, c) /\ s[p] = c
  BY LenProperties DEF Place, Contains
<1>2. PICK n \in Nat : n = Len(s)
  BY LenProperties
<1>3. /\ r \in Seq(S) /\ Len(r) = n - 1
      /\ \A k \in 1..(n - 1) : r[k] = IF k < p THEN s[k] ELSE s[k + 1]
  BY <1>1, <1>2, RemovedIs
<1>4. DOMAIN s = 1..n /\ DOMAIN r = 1..(n - 1) /\ p \in 1..n
  BY <1>1, <1>2, <1>3, LenProperties
(* Where it was, and where it is *)
<1> DEFINE was(k) == IF k < p THEN k ELSE k + 1
<1>5. ASSUME NEW k \in 1..(n - 1) PROVE was(k) \in 1..n /\ was(k) # p /\ r[k] = s[was(k)]
  BY <1>3, <1>4
<1>6. \A i \in 1..(n - 1), j \in 1..(n - 1) : (i < j <=> was(i) < was(j)) /\ (i = j <=> was(i) = was(j))
  BY <1>4
<1>7. ASSUME NEW k \in 1..n, k # p PROVE \E i \in 1..(n - 1) : was(i) = k
  <2>1. CASE k < p
    <3>1. k \in 1..(n - 1)
      BY <1>4, <2>1
    <3> QED BY <2>1, <3>1
  <2>2. CASE k > p
    <3>1. k - 1 \in 1..(n - 1) /\ was(k - 1) = k
      BY <1>4, <2>2
    <3> QED BY <3>1
  <2> QED BY <1>4, <1>7, <2>1, <2>2
<1>8. \A k \in 1..n : s[k] = c => k = p
  BY <1>1, <1>4 DEF Different
<1> HIDE DEF was
<1>9. Different(r)
  BY <1>4, <1>5, <1>6 DEF Different
<1>10. \A e : Contains(r, e) <=> e # c /\ Contains(s, e)
  <2>1. ASSUME NEW e, Contains(r, e) PROVE e # c /\ Contains(s, e)
    <3>1. PICK k \in 1..(n - 1) : r[k] = e
      BY <1>3, <1>4, <2>1 DEF Contains
    <3>2. was(k) \in 1..n /\ was(k) # p /\ s[was(k)] = e
      BY <1>5, <3>1
    <3>3. e # c
      BY <1>8, <3>2
    <3> QED BY <1>2, <3>2, <3>3 DEF Contains
  <2>2. ASSUME NEW e, e # c, Contains(s, e) PROVE Contains(r, e)
    <3>1. PICK k \in 1..n : s[k] = e
      BY <1>2, <2>2 DEF Contains
    <3>2. k # p
      BY <1>1, <2>2, <3>1
    <3>3. PICK i \in 1..(n - 1) : was(i) = k
      BY <1>7, <3>2
    <3>4. r[i] = e /\ i \in 1..Len(r)
      BY <1>3, <1>5, <3>1, <3>3
    <3> QED BY <3>4 DEF Contains
  <2> QED BY <2>1, <2>2
<1>11. ASSUME NEW at, NEW e, at # c, e # c, Ahead(r, at, e) PROVE Ahead(s, at, e)
  <2>1. PICK j \in 1..(n - 1) : r[j] = e /\ (at = 0 \/ \E i \in 1..(n - 1) : i < j /\ r[i] = at)
    BY <1>4, <1>11 DEF Ahead
  <2>2. was(j) \in 1..n /\ s[was(j)] = e
    BY <1>5, <2>1
  <2>3. ASSUME NEW i \in 1..(n - 1), i < j, r[i] = at
        PROVE  was(i) \in 1..n /\ was(i) < was(j) /\ s[was(i)] = at
    BY <1>5, <1>6, <2>3
  <2> QED BY <1>4, <2>1, <2>2, <2>3 DEF Ahead
<1>12. ASSUME NEW at, NEW e, at # c, e # c, Ahead(s, at, e) PROVE Ahead(r, at, e)
  <2>1. PICK j \in 1..n : s[j] = e /\ (at = 0 \/ \E i \in 1..n : i < j /\ s[i] = at)
    BY <1>4, <1>12 DEF Ahead
  <2>2. PICK y \in 1..(n - 1) : was(y) = j /\ r[y] = e
    <3>1. j # p
      BY <1>1, <1>12, <2>1
    <3> QED BY <1>5, <1>7, <2>1, <3>1
  <2>3. ASSUME NEW i \in 1..n, i < j, s[i] = at PROVE \E x \in 1..(n - 1) : x < y /\ r[x] = at
    <3>1. i # p
      BY <1>1, <1>12, <2>3
    <3>2. PICK x \in 1..(n - 1) : was(x) = i
      BY <1>7, <3>1
    <3> QED BY <1>5, <1>6, <2>2, <2>3, <3>2
  <2> QED BY <1>4, <2>1, <2>2, <2>3 DEF Ahead
<1> QED BY <1>3, <1>9, <1>10, <1>11, <1>12

(* The link after the one a frame stands on                                *)
NextIn(list, at) ==
  LET here == IF at = 0 THEN 0 ELSE Place(list, at)
  IN  IF here < Len(list) THEN list[here + 1] ELSE 0

(* The next link is the one that all other links ahead are behind.         *)
LEMMA NextIs ==
  ASSUME NEW S, NEW s \in Seq(S), Different(s), ~Contains(s, 0), NEW at, at = 0 \/ Contains(s, at),
         NEW n, n = NextIn(s, at)
  PROVE  /\ n = 0 => \A c : ~Ahead(s, at, c)
         /\ n # 0 => /\ Contains(s, n) /\ ~Ahead(s, n, n)
                     /\ \A c : Ahead(s, at, c) <=> c = n \/ Ahead(s, n, c)
         /\ n = 0 /\ at = 0 => \A c : ~Contains(s, c)
<1>1. PICK m \in Nat : m = Len(s) /\ DOMAIN s = 1..m
  BY LenProperties
<1>2. PICK here : here = IF at = 0 THEN 0 ELSE Place(s, at)
  OBVIOUS
<1>3. here \in 0..m /\ (at # 0 => here \in 1..m /\ s[here] = at) /\ (at = 0 => here = 0)
  BY <1>1, <1>2 DEF Contains, Place
<1>4. n = IF here < m THEN s[here + 1] ELSE 0
  BY <1>1, <1>2 DEF NextIn
<1>5. \A c : Ahead(s, at, c) <=> \E j \in 1..m : j > here /\ s[j] = c
  <2>1. \A i \in 1..m : at # 0 /\ s[i] = at => i = here
    BY <1>1, <1>3 DEF Different
  <2>2. at = 0 => \A j \in 1..m : j > here
    BY <1>3
  <2> QED BY <1>1, <1>3, <2>1, <2>2 DEF Ahead
<1>6. CASE here < m
  <2>1. here + 1 \in 1..m /\ n = s[here + 1]
    BY <1>3, <1>4, <1>6
  <2>2. n # 0 /\ Contains(s, n)
    BY <1>1, <2>1 DEF Contains
  <2>3. \A i \in 1..m : s[i] = n => i = here + 1
    BY <1>1, <2>1 DEF Different
  <2>4. \A c : Ahead(s, n, c) <=> \E j \in 1..m : j > here + 1 /\ s[j] = c
    BY <1>1, <2>1, <2>2, <2>3 DEF Ahead
  <2>5. \A j \in 1..m : j > here <=> j = here + 1 \/ j > here + 1
    BY <1>3
  <2>6. \A c : Ahead(s, at, c) <=> c = n \/ Ahead(s, n, c)
    BY <1>5, <2>1, <2>4, <2>5
  <2>7. ~Ahead(s, n, n)
    <3>1. \A j \in 1..m : j > here + 1 => j # here + 1
      BY <1>3
    <3> QED BY <2>3, <2>4, <3>1
  <2> QED BY <2>2, <2>6, <2>7
<1>7. CASE ~(here < m)
  <2>1. \A j \in 1..m : ~(j > here)
    BY <1>3, <1>7
  <2>2. n = 0 /\ \A c : ~Ahead(s, at, c)
    BY <1>4, <1>5, <1>7, <2>1
  <2>3. at = 0 => \A c : ~Contains(s, c)
    BY <1>1, <1>3, <2>1 DEF Contains
  <2> QED BY <2>2, <2>3
<1> QED BY <1>6, <1>7

-----------------------------------------------------------------------------
(* The lists of children                                                   *)

(* Every list holds each of its tasks once: those whose parent it is.      *)
ListsOf(st, pa, ch) ==
  \A t \in Tasks : /\ Different(ch[t])
                   /\ \A e : Contains(ch[t], e) => e \in Tasks /\ e # 0 /\ st[e] # "none" /\ pa[e] = t

(* What is in a list before and after a change stands there in one order.  *)
SameOrder(ch, ch2) ==
  \A t \in Tasks : \A at, e :
    /\ Contains(ch[t], e) /\ Contains(ch2[t], e)
    /\ at = 0 \/ (Contains(ch[t], at) /\ Contains(ch2[t], at))
    => (Ahead(ch2[t], at, e) <=> Ahead(ch[t], at, e))

ListsKept == ListsOf(state', parent', children') /\ SameOrder(children, children')

(* A list holds every child of its task, and only these.                   *)
LEMMA ChildrenAre ==
  ASSUME Inv, ListsOf(state, parent, children)
  PROVE  \A t \in Tasks, e \in Tasks :
           Contains(children[t], e) <=> e # 0 /\ state[e] # "none" /\ parent[e] = t
  BY DEF Inv, Linked, ListsOf

LEMMA EmptyHolds == \A e : ~Contains(<<>>, e)
  BY DEF Contains

LEMMA ListsInit ==
  ASSUME Init
  PROVE  ListsOf(state, parent, children)
<1>1. \A t \in Tasks : children[t] = IF t = 0 THEN <<1>> ELSE <<>>
  BY DEF Init
<1>2. Different(<<1>>) /\ Different(<<>>) /\ \A e : Contains(<<1>>, e) <=> e = 1
  <2>1. <<1>> \in Seq(Nat) /\ Len(<<1>>) = 1 /\ DOMAIN <<1>> = 1..1 /\ <<1>>[1] = 1
    OBVIOUS
  <2>2. \A k : k \in 1..1 <=> k = 1
    OBVIOUS
  <2>3. DOMAIN <<>> = {}
    OBVIOUS
  <2> QED BY <2>1, <2>2, <2>3 DEF Contains, Different
<1>3. 1 \in Tasks /\ state[1] # "none" /\ parent[1] = 0
  BY TaskFacts DEF Init
<1> QED BY <1>1, <1>2, <1>3, EmptyHolds DEF ListsOf

(* The new child comes last in the list of its parent, and in no other.    *)
LEMMA ForkLists ==
  ASSUME Inv, Rooted, ListsOf(state, parent, children), NEW p \in Tasks, NEW c \in Pids, Fork(p, c)
  PROVE  ListsKept
<1>1. /\ state[p] = "alive" /\ state[c] = "none" /\ p # 0
      /\ state' = [state EXCEPT ![c] = "alive"] /\ parent' = [parent EXCEPT ![c] = p]
      /\ children' = [children EXCEPT ![p] = Append(@, c), ![c] = <<>>]
  BY DEF Fork, Runs
<1>2. TreeTypes /\ Linked /\ c \in Tasks /\ c # 0 /\ c # p
  BY <1>1, TaskFacts DEF Inv
<1>3. PICK s : s = children[p] /\ s \in Seq(Tasks)
  BY <1>2 DEF TreeTypes
<1>4. /\ Append(s, c) = s \o <<c>> /\ <<c>> \in Seq(Tasks) /\ Different(<<c>>)
      /\ \A e : Contains(<<c>>, e) <=> e = c
  BY <1>2, <1>3, OneChild
<1>5. /\ children'[p] = s \o <<c>> /\ children'[c] = <<>>
      /\ \A t \in Tasks : t # p /\ t # c => children'[t] = children[t]
      /\ state'[c] = "alive" /\ parent'[c] = p
      /\ \A t \in Tasks : t # c => state'[t] = state[t] /\ parent'[t] = parent[t]
  BY <1>1, <1>2, <1>3, <1>4 DEF TreeTypes
<1>6. \A t \in Tasks : ~Contains(children[t], c)
  BY <1>1 DEF ListsOf
<1>7. Different(s \o <<c>>)
  <2>1. Different(s) /\ \A e : ~(Contains(s, e) /\ Contains(<<c>>, e))
    BY <1>3, <1>4, <1>6 DEF ListsOf
  <2> QED BY <1>3, <1>4, <2>1, GrownDifferent
<1>8. \A e : Contains(s \o <<c>>, e) <=> Contains(s, e) \/ e = c
  BY <1>3, <1>4, GrownList
<1>9. Different(<<>>)
  BY DEF Different
<1>10. ListsOf(state', parent', children')
  <2> SUFFICES ASSUME NEW t \in Tasks
               PROVE  /\ Different(children'[t])
                      /\ \A e : Contains(children'[t], e) =>
                           e \in Tasks /\ e # 0 /\ state'[e] # "none" /\ parent'[e] = t
    BY DEF ListsOf
  <2>1. /\ Different(children[t])
        /\ \A e : Contains(children[t], e) =>
                    e # c /\ e \in Tasks /\ e # 0 /\ state'[e] # "none" /\ parent'[e] = t
    BY <1>5, <1>6 DEF ListsOf
  <2>2. CASE t = p
    BY <1>2, <1>3, <1>5, <1>7, <1>8, <2>1, <2>2
  <2>3. CASE t = c
    BY <1>5, <1>9, <2>3, EmptyHolds
  <2>4. CASE t # p /\ t # c
    BY <1>5, <2>1, <2>4
  <2> QED BY <2>2, <2>3, <2>4
<1>11. SameOrder(children, children')
  <2> SUFFICES ASSUME NEW t \in Tasks, NEW at, NEW e, Contains(children[t], e), Contains(children'[t], e)
               PROVE  Ahead(children'[t], at, e) <=> Ahead(children[t], at, e)
    BY DEF SameOrder
  <2>1. CASE t = p
    <3>1. ~Contains(<<c>>, e)
      BY <1>4, <1>6
    <3>2. Ahead(s \o <<c>>, at, e) <=> Ahead(s, at, e)
      BY <1>3, <1>4, <3>1, GrownOrder
    <3>3. children'[t] = s \o <<c>> /\ children[t] = s
      BY <1>3, <1>5, <2>1
    <3> QED BY <3>2, <3>3
  <2>2. CASE t = c
    BY <1>5, <2>2, EmptyHolds
  <2>3. CASE t # p /\ t # c
    BY <1>5, <2>3
  <2> QED BY <2>1, <2>2, <2>3
<1> QED BY <1>10, <1>11 DEF ListsKept

(* The children of a task that exits come behind those of init, in order.  *)
LEMMA ExitLists ==
  ASSUME Inv, Rooted, ListsOf(state, parent, children), NEW p \in Tasks, Exit(p)
  PROVE  ListsKept
<1>1. /\ state[p] = "alive" /\ p # 0 /\ p # 1
      /\ state' = [state EXCEPT ![p] = "zombie"]
      /\ parent' = [t \in Tasks |-> IF parent[t] = p /\ state[t] # "none" THEN 1 ELSE parent[t]]
      /\ children' = [children EXCEPT ![1] = @ \o children[p], ![p] = <<>>]
  BY DEF Exit, Runs
<1>2. TreeTypes /\ Linked
  BY DEF Inv
<1>3. PICK s, r : s = children[1] /\ r = children[p] /\ s \in Seq(Tasks) /\ r \in Seq(Tasks)
  BY <1>2, TaskFacts DEF TreeTypes
<1>4. /\ children'[1] = s \o r /\ children'[p] = <<>>
      /\ \A t \in Tasks : t # p /\ t # 1 => children'[t] = children[t]
      /\ \A t \in Tasks : state[t] # "none" => state'[t] # "none"
      /\ \A t \in Tasks : parent[t] # p => parent'[t] = parent[t]
      /\ \A t \in Tasks : parent[t] = p /\ state[t] # "none" => parent'[t] = 1
  BY <1>1, <1>2, <1>3, TaskFacts DEF TreeTypes
<1>5. \A t \in Tasks : /\ Different(children[t])
                       /\ \A e : Contains(children[t], e) =>
                            e \in Tasks /\ e # 0 /\ state[e] # "none" /\ parent[e] = t
  BY DEF ListsOf
<1>6. Different(s) /\ Different(r) /\ \A e : ~(Contains(s, e) /\ Contains(r, e))
  BY <1>1, <1>3, <1>5, TaskFacts
<1>7. Different(s \o r) /\ \A e : Contains(s \o r, e) <=> Contains(s, e) \/ Contains(r, e)
  BY <1>3, <1>6, GrownDifferent, GrownList
<1>8. Different(<<>>)
  BY DEF Different
<1>9. ListsOf(state', parent', children')
  <2> SUFFICES ASSUME NEW t \in Tasks
               PROVE  /\ Different(children'[t])
                      /\ \A e : Contains(children'[t], e) =>
                           e \in Tasks /\ e # 0 /\ state'[e] # "none" /\ parent'[e] = t
    BY DEF ListsOf
  <2>1. CASE t = 1
    <3> SUFFICES ASSUME NEW e, Contains(s \o r, e)
                 PROVE  e \in Tasks /\ e # 0 /\ state'[e] # "none" /\ parent'[e] = 1
      BY <1>4, <1>7, <2>1
    <3>1. CASE Contains(s, e)
      BY <1>1, <1>3, <1>4, <1>5, <3>1, TaskFacts
    <3>2. CASE Contains(r, e)
      BY <1>3, <1>4, <1>5, <3>2
    <3> QED BY <1>7, <3>1, <3>2
  <2>2. CASE t = p
    BY <1>4, <1>8, <2>2, EmptyHolds
  <2>3. CASE t # p /\ t # 1
    BY <1>4, <1>5, <2>3
  <2> QED BY <2>1, <2>2, <2>3
<1>10. SameOrder(children, children')
  <2> SUFFICES ASSUME NEW t \in Tasks, NEW at, NEW e, Contains(children[t], e), Contains(children'[t], e)
               PROVE  Ahead(children'[t], at, e) <=> Ahead(children[t], at, e)
    BY DEF SameOrder
  <2>1. CASE t = 1
    <3>1. ~Contains(r, e)
      BY <1>3, <1>6, <2>1
    <3>2. Ahead(s \o r, at, e) <=> Ahead(s, at, e)
      BY <1>3, <3>1, GrownOrder
    <3>3. children'[t] = s \o r /\ children[t] = s
      BY <1>3, <1>4, <2>1
    <3> QED BY <3>2, <3>3
  <2>2. CASE t = p
    BY <1>4, <2>2, EmptyHolds
  <2>3. CASE t # p /\ t # 1
    BY <1>4, <2>3
  <2> QED BY <2>1, <2>2, <2>3
<1> QED BY <1>9, <1>10 DEF ListsKept

(* A task that is reaped leaves the others in order.                       *)
LEMMA ReapLists ==
  ASSUME Inv, Rooted, ListsOf(state, parent, children), NEW p \in Tasks, Reap(p)
  PROVE  ListsKept
<1>1. /\ state[p] = "zombie"
      /\ state' = [state EXCEPT ![p] = "none"] /\ parent' = [parent EXCEPT ![p] = 0]
      /\ children' = [children EXCEPT ![parent[p]] = RemoveAt(@, Place(@, p))]
  BY DEF Reap
<1>2. TreeTypes /\ Linked /\ p # 0
  BY <1>1 DEF Inv, Linked
<1>3. PICK q, s : q = parent[p] /\ s = children[q]
  OBVIOUS
<1>4. q \in Tasks /\ s \in Seq(Tasks) /\ Contains(s, p)
  BY <1>1, <1>2, <1>3 DEF TreeTypes, Linked
<1>5. \A t \in Tasks : /\ Different(children[t])
                       /\ \A e : Contains(children[t], e) =>
                            e \in Tasks /\ e # 0 /\ state[e] # "none" /\ parent[e] = t
  BY DEF ListsOf
<1>6. PICK rest : rest = RemoveAt(s, Place(s, p))
  OBVIOUS
<1>7. /\ rest \in Seq(Tasks) /\ Different(rest)
      /\ \A e : Contains(rest, e) <=> e # p /\ Contains(s, e)
      /\ \A at, e : at # p /\ e # p => (Ahead(rest, at, e) <=> Ahead(s, at, e))
  <2>1. Different(s)
    BY <1>3, <1>4, <1>5
  <2> QED BY <1>4, <1>6, <2>1, LessOrder
<1>8. /\ children'[q] = rest /\ \A t \in Tasks : t # q => children'[t] = children[t]
      /\ \A t \in Tasks : t # p => state'[t] = state[t] /\ parent'[t] = parent[t]
  BY <1>1, <1>2, <1>3, <1>4, <1>6 DEF TreeTypes
<1>9. \A t \in Tasks : t # q => ~Contains(children[t], p)
  BY <1>3, <1>5
<1>10. ListsOf(state', parent', children')
  <2> SUFFICES ASSUME NEW t \in Tasks
               PROVE  /\ Different(children'[t])
                      /\ \A e : Contains(children'[t], e) =>
                           e \in Tasks /\ e # 0 /\ state'[e] # "none" /\ parent'[e] = t
    BY DEF ListsOf
  <2>1. CASE t = q
    <3>1. \A e : Contains(rest, e) => e # p /\ Contains(children[t], e)
      BY <1>3, <1>7, <2>1
    <3> QED BY <1>5, <1>7, <1>8, <2>1, <3>1
  <2>2. CASE t # q
    BY <1>5, <1>8, <1>9, <2>2
  <2> QED BY <2>1, <2>2
<1>11. SameOrder(children, children')
  <2> SUFFICES ASSUME NEW t \in Tasks, NEW at, NEW e, Contains(children[t], e), Contains(children'[t], e),
                      at = 0 \/ Contains(children'[t], at)
               PROVE  Ahead(children'[t], at, e) <=> Ahead(children[t], at, e)
    BY DEF SameOrder
  <2>1. CASE t = q
    <3>1. children'[t] = rest /\ children[t] = s
      BY <1>3, <1>8, <2>1
    <3>2. at # p /\ e # p
      BY <1>2, <1>7, <3>1
    <3> QED BY <1>7, <3>1, <3>2
  <2>2. CASE t # q
    BY <1>8, <2>2
  <2> QED BY <2>1, <2>2
<1> QED BY <1>10, <1>11 DEF ListsKept

LEMMA TreeLists ==
  ASSUME Inv, Rooted, ListsOf(state, parent, children),
         UNCHANGED <<state, parent, children>>
  PROVE  ListsKept
  BY DEF ListsKept, ListsOf, SameOrder

LEMMA ChangeLists ==
  ASSUME Inv, Rooted, ListsOf(state, parent, children), Change
  PROVE  ListsKept
<1>1. ASSUME NEW p \in Tasks, NEW w \in Weights \cup {-1}, SetWeight(p, w) PROVE ListsKept
  BY <1>1, TreeLists DEF SetWeight
<1> QED BY <1>1, ForkLists, ExitLists, ReapLists DEF Change

-----------------------------------------------------------------------------
(* What stays above a leaf                                                 *)

(* An exited task is not a child of the idle task: only init is.           *)
LEMMA NotUnderIdle ==
  ASSUME Inv, Rooted, NEW p \in Tasks, state[p] = "zombie"
  PROVE  parent[p] # 0
<1>1. state[0] = "alive" /\ state[1] = "alive" /\ 1 \in Anc(parent, p)
  BY DEF Inv, Linked, Rooted, UnderInit
<1> SUFFICES ASSUME parent[p] = 0 PROVE FALSE
  OBVIOUS
<1>2. Closed(parent, {p, 0})
  BY TaskFacts DEF Rooted, Closed
<1>3. Anc(parent, p) \subseteq {p, 0}
  <2>1. PICK S : S = {p, 0}
    OBVIOUS
  <2> QED BY <1>2, <2>1, AncLeast
<1> QED BY <1>1, <1>3, TaskFacts

(* A change of the tree that leaves those above a leaf the same tasks      *)
(* leaves them where they are: none of them was reaped or handed to init.  *)
LEMMA PathKept ==
  ASSUME Inv, Rooted, ListsOf(state, parent, children), Change,
         NEW l \in Tasks, l # 0, state[l] # "none", children[l] = <<>>,
         parent'[l] = parent[l], Anc(parent', l) = Anc(parent, l), NEW c \in Anc(parent, l), c # 0
  PROVE  /\ c \in Tasks /\ state[c] # "none" /\ state'[c] # "none" /\ parent'[c] = parent[c]
<1>1. PICK f, g : f = parent /\ g = parent'
  OBVIOUS
<1>2. /\ TreeTypes /\ Linked /\ f[0] = 0 /\ state[0] = "alive" /\ f \in [Tasks -> Tasks]
      /\ \A t \in Tasks : state[t] = "none" => f[t] = 0
  BY <1>1 DEF Inv, TreeTypes, Linked, Rooted
<1>3. \A t \in Tasks \ {0} : state[t] # "none" => state[f[t]] = "alive"
  BY <1>1, <1>2 DEF Linked
<1>4. \A a \in Anc(f, l) : a \in Tasks /\ state[a] # "none"
  BY <1>2, <1>3, NoneAbove
<1>5. c \in Tasks /\ state[c] # "none"
  BY <1>1, <1>4
<1>6. CASE \E p \in Tasks : \E w \in Weights \cup {-1} : SetWeight(p, w)
  <2>1. UNCHANGED <<state, parent>>
    BY <1>6 DEF SetWeight
  <2> QED BY <1>5, <2>1
<1>7. ASSUME NEW p \in Tasks, NEW n \in Pids, Fork(p, n) PROVE state'[c] # "none" /\ parent'[c] = parent[c]
  <2>1. /\ state[n] = "none" /\ state' = [state EXCEPT ![n] = "alive"]
        /\ parent' = [parent EXCEPT ![n] = p]
    BY <1>7 DEF Fork
  <2>2. c # n
    BY <1>5, <2>1
  <2> QED BY <1>2, <1>5, <2>1, <2>2 DEF TreeTypes
<1>8. ASSUME NEW p \in Tasks, Exit(p) PROVE state'[c] # "none" /\ parent'[c] = parent[c]
  <2>1. /\ p # 0 /\ p # 1 /\ state' = [state EXCEPT ![p] = "zombie"]
        /\ g = [t \in Tasks |-> IF f[t] = p /\ state[t] # "none" THEN 1 ELSE f[t]]
    BY <1>1, <1>8 DEF Exit, Runs
  <2>2. state'[c] # "none"
    BY <1>2, <1>5, <2>1 DEF TreeTypes
  <2>3. f[c] # p
    <3> SUFFICES ASSUME f[c] = p PROVE FALSE
      OBVIOUS
    <3>1. p \in Anc(f, l)
      BY <1>1, <1>2, AncIs DEF Closed
    <3>2. Contains(children[p], c)
      BY <1>1, <1>2, <1>5 DEF Linked
    <3>3. l # p
      BY <3>2, EmptyHolds
    <3>4. g \in [Tasks -> Tasks] /\ \A t \in Tasks : g[t] # p
      BY <1>2, <2>1, TaskFacts
    <3>5. p \notin Anc(g, l)
      BY <3>3, <3>4, AncOfOthers
    <3> QED BY <1>1, <3>1, <3>5
  <2>4. g[c] = f[c]
    BY <1>5, <2>1, <2>3
  <2> QED BY <1>1, <2>2, <2>4
<1>9. ASSUME NEW p \in Tasks, Reap(p) PROVE state'[c] # "none" /\ parent'[c] = parent[c]
  <2>0. /\ state[p] = "zombie" /\ p # 0
        /\ state' = [state EXCEPT ![p] = "none"] /\ g = [f EXCEPT ![p] = 0]
    BY <1>1, <1>2, <1>9 DEF Reap
  <2>1. f[p] # 0
    BY <1>1, <2>0, NotUnderIdle
  <2>2. \A t \in Tasks : f[t] # p
    BY <1>2, <1>3, <2>0
  <2>3. l # p
    BY <1>1, <1>2, <2>0, <2>1
  <2>4. p \notin Anc(f, l)
    BY <1>2, <2>2, <2>3, AncOfOthers
  <2>5. c # p
    BY <1>1, <2>4
  <2> QED BY <1>1, <1>2, <1>5, <2>0, <2>5 DEF TreeTypes
<1> QED BY <1>5, <1>6, <1>7, <1>8, <1>9 DEF Change

(* Between a task and another one above it there is a child of that one.   *)
LEMMA ChildBetween ==
  ASSUME Inv, Rooted, ListsOf(state, parent, children),
         NEW l \in Tasks, l # 0, state[l] # "none", NEW n \in Tasks, n # 0
  PROVE  n \in Anc(parent, l) <=> l = n \/ \E c \in Anc(parent, l) : Contains(children[n], c)
<1>1. PICK f : f = parent
  OBVIOUS
<1>2. /\ f[0] = 0 /\ state[0] = "alive" /\ f \in [Tasks -> Tasks]
      /\ \A t \in Tasks \ {0} : state[t] # "none" => state[f[t]] = "alive"
  BY <1>1 DEF Inv, TreeTypes, Linked, Rooted
<1>3. l \in Anc(f, l) /\ Closed(f, Anc(f, l))
  BY <1>2, AncIs
<1>4. ASSUME NEW c \in Anc(f, l), Contains(children[n], c) PROVE n \in Anc(f, l)
  <2>1. f[c] = n
    BY <1>1, <1>4 DEF ListsOf
  <2> QED BY <1>3, <2>1 DEF Closed
<1>5. ASSUME n \in Anc(f, l), l # n, \A c \in Anc(f, l) : ~Contains(children[n], c) PROVE FALSE
  <2>1. PICK S : S = Anc(f, l) \ {n}
    OBVIOUS
  <2>2. ASSUME NEW s \in S PROVE f[s] \in S
    <3>1. f[s] \in Anc(f, l) /\ s \in Anc(f, l)
      BY <1>3, <2>1, <2>2 DEF Closed
    <3>2. s \in Tasks /\ state[s] # "none"
      BY <1>2, <3>1, NoneAbove
    <3>3. s # 0 => f[s] # n
      BY <1>1, <1>5, <3>1, <3>2, ChildrenAre
    <3>4. f[s] # n
      BY <1>2, <3>3
    <3> QED BY <2>1, <3>1, <3>4
  <2>3. l \in S /\ Closed(f, S)
    BY <1>3, <1>5, <2>1, <2>2 DEF Closed
  <2>4. Anc(f, l) \subseteq S
    BY <2>3, AncLeast
  <2> QED BY <1>5, <2>1, <2>4
<1> QED BY <1>1, <1>3, <1>4, <1>5

(* Two children of one task are not above one task.                        *)
LEMMA OneChildAbove ==
  ASSUME Inv, Rooted, ListsOf(state, parent, children),
         NEW l \in Tasks, NEW t \in Tasks, NEW a \in Anc(parent, l), NEW b \in Anc(parent, l),
         Contains(children[t], a), Contains(children[t], b)
  PROVE  a = b
<1>1. PICK f : f = parent
  OBVIOUS
<1>2. f \in [Tasks -> Tasks] /\ Acyclic(f)
  BY <1>1 DEF Inv, TreeTypes, Rooted
<1>3. /\ a \in Tasks /\ a # 0 /\ f[a] = t /\ a \in Anc(f, l)
      /\ b \in Tasks /\ b # 0 /\ f[b] = t /\ b \in Anc(f, l)
  BY <1>1 DEF ListsOf
<1>4. b \in Anc(f, a) \/ a \in Anc(f, b)
  BY <1>2, <1>3, AncChain
<1>5. Anc(f, a) = {a} \cup Anc(f, t) /\ Anc(f, b) = {b} \cup Anc(f, t)
  BY <1>2, <1>3, AncUnfold
<1>6. a \notin Anc(f, t) /\ b \notin Anc(f, t)
  BY <1>2, <1>3 DEF Acyclic
<1> QED BY <1>4, <1>5, <1>6

-----------------------------------------------------------------------------
(* Sums                                                                    *)

(* A set of numbers has a least one.                                       *)
LEMMA LeastNumber ==
  ASSUME NEW S, S \subseteq Nat, S # {}
  PROVE  \E m \in S : \A x \in S : m <= x
<1>1. PICK m \in S : \A x \in S : ~(<<x, m>> \in OpToRel(<, Nat))
  BY NatLessThanWellFounded, WFMin, Zenon
<1>2. OpToRel(<, Nat) = {ss \in Nat \X Nat : ss[1] < ss[2]}
  BY Zenon DEF OpToRel
<1>3. ASSUME NEW x \in S PROVE m <= x
  <2>1. m \in Nat /\ x \in Nat /\ <<x, m>> \in Nat \X Nat
    OBVIOUS
  <2>2. x < m => <<x, m>> \in {ss \in Nat \X Nat : ss[1] < ss[2]}
    BY <2>1
  <2>3. ~(x < m)
    BY <1>1, <1>2, <2>2, Zenon
  <2> QED BY <2>1, <2>3
<1> QED BY <1>3

(* A set of finite sets has one with as few elements as any.               *)
LEMMA SmallestSet ==
  ASSUME NEW S, IsFiniteSet(S), NEW B, B \subseteq SUBSET S, B # {}
  PROVE  \E s \in B : \A r \in B : Cardinality(s) <= Cardinality(r)
<1>1. \A s \in B : Cardinality(s) \in Nat
  BY FS_Subset, FS_CardinalityType
<1>2. PICK N : N = {Cardinality(s) : s \in B}
  OBVIOUS
<1>3. N \subseteq Nat /\ N # {}
  BY <1>1, <1>2
<1>4. PICK m \in N : \A x \in N : m <= x
  BY <1>3, LeastNumber
<1>5. PICK s \in B : m = Cardinality(s)
  BY <1>2
<1>6. \A r \in B : Cardinality(r) \in N
  BY <1>2
<1> QED BY <1>4, <1>5, <1>6

-----
One(s) == CHOOSE x \in s : TRUE

(* g adds w up over the subsets of S, the way MapThenSumSet does. *)
Adds(w, D, g) ==
  g = [s \in D |-> IF s = {} THEN 0 ELSE w[One(s)] + g[s \ {One(s)}]]

SumOver(w, S) == (CHOOSE g : Adds(w, SUBSET S, g))[S]

(* It is the sum that the property speaks of.                              *)
LEMMA SumIs ==
  ASSUME NEW S, NEW w
  PROVE  MapThenSumSet(LAMBDA l : w[l], S) = SumOver(w, S)
  BY DEF MapThenSumSet, MapThenFoldSet, SumOver, Adds, One

(* The subsets of S of up to n elements                                    *)
Small(S, n) == {s \in SUBSET S : Cardinality(s) <= n}

LEMMA AddsAre ==
  ASSUME NEW w, NEW D, NEW g, Adds(w, D, g), NEW s \in D
  PROVE  g[s] = IF s = {} THEN 0 ELSE w[One(s)] + g[s \ {One(s)}]
  BY DEF Adds

(* The one taken from a set is the one chosen, or any.                     *)
TakesOne(w, S, g) ==
  \A s \in SUBSET S : g[s] = IF s = {} THEN 0 ELSE w[One(s)] + g[s \ {One(s)}]

TakesAny(w, S, g) ==
  \A s \in SUBSET S : g[s] \in Int /\ \A x \in s : g[s] = w[x] + g[s \ {x}]

LEMMA AddsIn ==
  ASSUME NEW w, NEW S, NEW g, Adds(w, SUBSET S, g)
  PROVE  TakesOne(w, S, g)
<1>1. \A D : Adds(w, D, g) => \A s \in D : g[s] = IF s = {} THEN 0 ELSE w[One(s)] + g[s \ {One(s)}]
  BY AddsAre
<1> QED BY <1>1 DEF TakesOne

LEMMA OneLessIn ==
  ASSUME NEW s, IsFiniteSet(s), NEW x \in s
  PROVE  /\ IsFiniteSet(s \ {x}) /\ Cardinality(s) \in Nat /\ Cardinality(s \ {x}) \in Nat
         /\ Cardinality(s) = Cardinality(s \ {x}) + 1
<1>1. Cardinality(s \ {x}) = Cardinality(s) - 1 /\ IsFiniteSet(s \ {x})
  BY FS_RemoveElement
<1> QED BY <1>1, FS_CardinalityType

(* Such a function exists for the subsets of up to m elements, for every   *)
(* m: else there would be a least m without one.                           *)
LEMMA SmallAdds ==
  ASSUME NEW S, IsFiniteSet(S), NEW w, NEW m \in Nat
  PROVE  \E g : Adds(w, Small(S, m), g)
<1> DEFINE Bad == {k \in Nat : ~\E g : Adds(w, Small(S, k), g)}
<1>1. SUFFICES ASSUME Bad # {} PROVE FALSE
  OBVIOUS
<1>2. PICK k \in Bad : \A x \in Bad : k <= x
  <2>1. Bad \subseteq Nat
    OBVIOUS
  <2> HIDE DEF Bad
  <2> QED BY <1>1, <2>1, LeastNumber
<1>3. k \in Nat /\ ~\E g : Adds(w, Small(S, k), g)
  OBVIOUS
<1>4. k # 0
  <2> SUFFICES ASSUME k = 0 PROVE FALSE
    OBVIOUS
  <2>1. \A s \in Small(S, 0) : s = {}
    <3> SUFFICES ASSUME NEW s \in Small(S, 0) PROVE s = {}
      OBVIOUS
    <3>1. s \in SUBSET S /\ Cardinality(s) <= 0
      BY DEF Small
    <3>2. IsFiniteSet(s)
      BY <3>1, FS_Subset
    <3>3. Cardinality(s) \in Nat
      BY <3>2, FS_CardinalityType
    <3>4. Cardinality(s) = 0
      BY <3>1, <3>3
    <3> QED BY <3>2, <3>4, FS_EmptySet
  <2>2. Adds(w, Small(S, 0), [s \in Small(S, 0) |-> 0])
    BY <2>1 DEF Adds
  <2> QED BY <1>3, <2>2
<1>5. PICK j \in Nat : k = j + 1
  BY <1>3, <1>4
<1>6. j \notin Bad
  <2>1. ~(k <= j)
    BY <1>5
  <2> HIDE DEF Bad
  <2> QED BY <1>2, <2>1
<1>7. PICK old : Adds(w, Small(S, j), old)
  BY <1>6
<1>8. PICK new : new = [s \in Small(S, k) |->
                          IF s \in Small(S, j) THEN old[s] ELSE w[One(s)] + old[s \ {One(s)}]]
  OBVIOUS
<1>9. ASSUME NEW s \in Small(S, k)
      PROVE  new[s] = IF s = {} THEN 0 ELSE w[One(s)] + new[s \ {One(s)}]
  <2>0. s \in SUBSET S /\ Cardinality(s) <= k
    BY DEF Small
  <2>1. CASE s = {}
    <3>1. s \in Small(S, j)
      BY <2>1, FS_EmptySet DEF Small
    <3>2. old[s] = 0
      BY <1>7, <2>1, <3>1, AddsAre
    <3> QED BY <1>8, <2>1, <3>1, <3>2
  <2>2. CASE s # {}
    <3>1. PICK r : r = s \ {One(s)}
      OBVIOUS
    <3>2. One(s) \in s
      BY <2>2 DEF One
    <3>3. /\ r \in SUBSET S /\ Cardinality(r) \in Nat /\ Cardinality(s) \in Nat
          /\ Cardinality(s) = Cardinality(r) + 1
      BY <2>0, <3>1, <3>2, FS_Subset, OneLessIn
    <3>4. Cardinality(r) <= j
      BY <1>5, <2>0, <3>3
    <3>5. r \in Small(S, j) /\ r \in Small(S, k)
      BY <1>5, <3>3, <3>4 DEF Small
    <3>6. new[r] = old[r]
      BY <1>8, <3>5
    <3>7. s \in Small(S, j) => old[s] = w[One(s)] + old[r]
      BY <1>7, <2>2, <3>1, AddsAre
    <3>8. new[s] = w[One(s)] + old[r]
      BY <1>8, <3>1, <3>7
    <3> QED BY <2>2, <3>1, <3>6, <3>8
  <2> QED BY <2>1, <2>2
<1>10. Adds(w, Small(S, k), new)
  BY <1>8, <1>9 DEF Adds
<1> QED BY <1>3, <1>10

-----
(* The sum is what such a function gives.                                  *)
LEMMA SumAdds ==
  ASSUME NEW S, IsFiniteSet(S), NEW w
  PROVE  \E g : SumOver(w, S) = g[S] /\ Adds(w, SUBSET S, g)
<1>1. Cardinality(S) \in Nat
  BY FS_CardinalityType
<1>2. Small(S, Cardinality(S)) = SUBSET S
  BY FS_Subset DEF Small
<1>3. \E g : Adds(w, SUBSET S, g)
  BY <1>1, <1>2, SmallAdds
<1> QED BY <1>3 DEF SumOver

(* What is added up does not depend on the order.                          *)
LEMMA AddsAny ==
  ASSUME NEW S, IsFiniteSet(S), NEW w, NEW g, Adds(w, SUBSET S, g), \A x \in S : w[x] \in Int
  PROVE  TakesAny(w, S, g)
<1> DEFINE Good(s) == g[s] \in Int /\ \A x \in s : g[s] = w[x] + g[s \ {x}]
<1> DEFINE Bad == {s \in SUBSET S : ~Good(s)}
<1>1. SUFFICES ASSUME Bad # {} PROVE FALSE
  BY DEF TakesAny
<1>2. PICK s \in Bad : \A r \in Bad : Cardinality(s) <= Cardinality(r)
  <2>1. Bad \subseteq SUBSET S
    OBVIOUS
  <2> HIDE DEF Bad
  <2> QED BY <1>1, <2>1, SmallestSet
<1>3. s \in SUBSET S /\ ~Good(s)
  OBVIOUS
<1>4. ASSUME NEW r \in SUBSET S, Cardinality(s) = Cardinality(r) + 1, Cardinality(r) \in Nat PROVE Good(r)
  <2>1. ~(Cardinality(s) <= Cardinality(r))
    BY <1>4
  <2>2. r \notin Bad
    <3> HIDE DEF Bad
    <3> QED BY <1>2, <2>1
  <2> QED BY <2>2
<1>5. s # {}
  <2>1. s = {} => g[s] = 0
    BY <1>3, AddsIn DEF TakesOne
  <2> QED BY <1>3, <2>1
<1>6. PICK y : y = One(s) /\ y \in s
  BY <1>5 DEF One
<1>7. g[s] = w[y] + g[s \ {y}]
  BY <1>3, <1>5, <1>6, AddsIn DEF TakesOne
<1>8. \A x \in s : Good(s \ {x}) /\ s \ {x} \in SUBSET S
  <2> SUFFICES ASSUME NEW x \in s PROVE Good(s \ {x}) /\ s \ {x} \in SUBSET S
    OBVIOUS
  <2> HIDE DEF Good
  <2> QED BY <1>3, <1>4, FS_Subset, OneLessIn
<1>9. g[s] \in Int
  <2>1. g[s \ {y}] \in Int
    BY <1>6, <1>8
  <2>2. w[y] \in Int
    BY <1>3, <1>6
  <2> QED BY <1>7, <2>1, <2>2
<1>10. ASSUME NEW x \in s, x # y PROVE g[s] = w[x] + g[s \ {x}]
  <2>1. PICK r : r = (s \ {y}) \ {x} /\ r = (s \ {x}) \ {y}
    OBVIOUS
  <2>0. /\ Good(s \ {y}) /\ Good(s \ {x}) /\ s \ {y} \in SUBSET S
        /\ x \in s \ {y} /\ y \in s \ {x}
    <3> HIDE DEF Good
    <3> QED BY <1>6, <1>8, <1>10
  <2>2. g[s \ {y}] = w[x] + g[r]
    BY <2>0, <2>1
  <2>3. g[s \ {x}] = w[y] + g[r]
    BY <2>0, <2>1
  <2>4. g[r] \in Int
    <3>1. /\ Cardinality(s) = Cardinality(s \ {y}) + 1 /\ Cardinality(s \ {y}) \in Nat
          /\ Cardinality(s \ {y}) = Cardinality(r) + 1 /\ Cardinality(r) \in Nat
          /\ r \in SUBSET S
      <4>1. Cardinality(s) = Cardinality(s \ {y}) + 1 /\ Cardinality(s \ {y}) \in Nat
        BY <1>3, <1>6, FS_Subset, OneLessIn
      <4>2. s \ {y} \in SUBSET S /\ x \in s \ {y}
        BY <2>0
      <4>3. /\ Cardinality(s \ {y}) = Cardinality((s \ {y}) \ {x}) + 1
            /\ Cardinality((s \ {y}) \ {x}) \in Nat /\ (s \ {y}) \ {x} \in SUBSET S
        BY <4>2, FS_Subset, OneLessIn
      <4> QED BY <2>1, <4>1, <4>3
    <3>2. ~(Cardinality(s) <= Cardinality(r))
      BY <3>1
    <3>3. r \notin Bad
      <4> HIDE DEF Bad
      <4> QED BY <1>2, <3>2
    <3> QED BY <3>1, <3>3
  <2>5. w[x] \in Int /\ w[y] \in Int
    BY <1>3, <1>6
  <2> QED BY <1>7, <2>2, <2>3, <2>4, <2>5
<1> QED BY <1>3, <1>6, <1>7, <1>9, <1>10

(* ... nor on what else could be added up.                                 *)
LEMMA SumOfPart ==
  ASSUME NEW S, IsFiniteSet(S), NEW w, NEW g, Adds(w, SUBSET S, g), NEW T \in SUBSET S
  PROVE  SumOver(w, T) = g[T]
<1>1. IsFiniteSet(T)
  BY FS_Subset
<1>2. PICK h : SumOver(w, T) = h[T] /\ Adds(w, SUBSET T, h)
  BY <1>1, SumAdds
<1> DEFINE Bad == {s \in SUBSET T : h[s] # g[s]}
<1>3. SUFFICES ASSUME Bad # {} PROVE FALSE
  BY <1>2
<1>4. PICK s \in Bad : \A r \in Bad : Cardinality(s) <= Cardinality(r)
  <2>1. Bad \subseteq SUBSET T
    OBVIOUS
  <2> HIDE DEF Bad
  <2> QED BY <1>1, <1>3, <2>1, SmallestSet
<1>5. s \in SUBSET T /\ s \in SUBSET S /\ h[s] # g[s]
  OBVIOUS
<1>6. /\ h[s] = IF s = {} THEN 0 ELSE w[One(s)] + h[s \ {One(s)}]
      /\ g[s] = IF s = {} THEN 0 ELSE w[One(s)] + g[s \ {One(s)}]
  <2>1. TakesOne(w, T, h) /\ TakesOne(w, S, g)
    BY <1>2, AddsIn
  <2> QED BY <1>5, <2>1 DEF TakesOne
<1>7. s # {} /\ One(s) \in s
  BY <1>5, <1>6 DEF One
<1>8. PICK r : r = s \ {One(s)}
  OBVIOUS
<1>9. /\ Cardinality(s) = Cardinality(r) + 1 /\ Cardinality(r) \in Nat /\ r \in SUBSET T
  BY <1>1, <1>5, <1>7, <1>8, FS_Subset, OneLessIn
<1>10. r \notin Bad
  <2>1. ~(Cardinality(s) <= Cardinality(r))
    BY <1>9
  <2> HIDE DEF Bad
  <2> QED BY <1>4, <2>1
<1> QED BY <1>5, <1>6, <1>8, <1>9, <1>10

(* What the sum of nothing is, and that it may be taken in any order       *)
LEMMA SumFacts ==
  ASSUME NEW S, IsFiniteSet(S), NEW w, \A x \in S : w[x] \in Int
  PROVE  /\ SumOver(w, {}) = 0
         /\ SumOver(w, S) \in Int
         /\ \A x \in S : SumOver(w, S) = w[x] + SumOver(w, S \ {x})
<1>1. PICK g : SumOver(w, S) = g[S] /\ Adds(w, SUBSET S, g)
  BY SumAdds
<1>2. g[S] \in Int /\ \A x \in S : g[S] = w[x] + g[S \ {x}]
  <2>1. TakesAny(w, S, g)
    BY <1>1, AddsAny
  <2>2. S \in SUBSET S
    OBVIOUS
  <2> QED BY <2>1, <2>2 DEF TakesAny
<1>3. \A x \in S : SumOver(w, S \ {x}) = g[S \ {x}]
  BY <1>1, SumOfPart
<1>4. SumOver(w, {}) = g[{}] /\ g[{}] = 0
  <2>1. TakesOne(w, S, g)
    BY <1>1, AddsIn
  <2>2. {} \in SUBSET S
    OBVIOUS
  <2>3. SumOver(w, {}) = g[{}]
    BY <1>1, <2>2, SumOfPart
  <2> QED BY <2>1, <2>2, <2>3 DEF TakesOne
<1> QED BY <1>1, <1>2, <1>3, <1>4

(* The sums of two sets that share nothing make up that of both.           *)
LEMMA SumOfBoth ==
  ASSUME NEW S, IsFiniteSet(S), NEW w, \A x \in S : w[x] \in Int,
         NEW A \in SUBSET S, NEW B \in SUBSET S, A \cap B = {}
  PROVE  SumOver(w, A \cup B) = SumOver(w, A) + SumOver(w, B)
<1> DEFINE Bad == {s \in SUBSET B : SumOver(w, A \cup s) # SumOver(w, A) + SumOver(w, s)}
<1>1. IsFiniteSet(A) /\ IsFiniteSet(B)
  BY FS_Subset
<1>2. SUFFICES ASSUME Bad # {} PROVE FALSE
  OBVIOUS
<1>3. PICK s \in Bad : \A r \in Bad : Cardinality(s) <= Cardinality(r)
  <2>1. Bad \subseteq SUBSET B
    OBVIOUS
  <2> HIDE DEF Bad
  <2> QED BY <1>1, <1>2, <2>1, SmallestSet
<1>4. s \in SUBSET B /\ SumOver(w, A \cup s) # SumOver(w, A) + SumOver(w, s)
  OBVIOUS
<1>5. \A r \in SUBSET S : /\ SumOver(w, {}) = 0
                         /\ SumOver(w, r) \in Int
                         /\ \A x \in r : w[x] \in Int /\ SumOver(w, r) = w[x] + SumOver(w, r \ {x})
  BY FS_Subset, SumFacts
<1>6. s # {}
  <2> SUFFICES ASSUME s = {} PROVE FALSE
    OBVIOUS
  <2>1. A \cup s = A
    OBVIOUS
  <2>2. SumOver(w, {}) = 0 /\ SumOver(w, A) \in Int
    <3>1. A \in SUBSET S
      OBVIOUS
    <3> QED BY <1>5, <3>1
  <2>3. SumOver(w, A \cup s) = SumOver(w, A) /\ SumOver(w, s) = 0
    BY <2>1, <2>2
  <2> QED BY <1>4, <2>2, <2>3
<1>7. PICK x \in s : TRUE
  BY <1>6
<1>8. PICK r : r = s \ {x}
  OBVIOUS
<1>9. /\ Cardinality(s) = Cardinality(r) + 1 /\ Cardinality(r) \in Nat /\ r \in SUBSET B
  BY <1>1, <1>4, <1>7, <1>8, FS_Subset, OneLessIn
<1>10. r \notin Bad
  <2>1. ~(Cardinality(s) <= Cardinality(r))
    BY <1>9
  <2> HIDE DEF Bad
  <2> QED BY <1>3, <2>1
<1>11. SumOver(w, A \cup r) = SumOver(w, A) + SumOver(w, r)
  BY <1>9, <1>10
<1>12. (A \cup s) \ {x} = A \cup r /\ A \cup s \in SUBSET S /\ s \in SUBSET S /\ r \in SUBSET S
  BY <1>4, <1>7, <1>8
<1>13. /\ SumOver(w, A \cup s) = w[x] + SumOver(w, A \cup r)
       /\ SumOver(w, s) = w[x] + SumOver(w, r)
       /\ w[x] \in Int
  BY <1>5, <1>7, <1>8, <1>12
<1>14. SumOver(w, A) \in Int /\ SumOver(w, r) \in Int
  BY <1>5, <1>12
<1> QED BY <1>4, <1>11, <1>13, <1>14

-----------------------------------------------------------------------------
(* Sums that wrap                                                          *)

(* The remainder of a division, and that there is but one                  *)
LEMMA ModIs ==
  ASSUME NEW n \in Int, n > 0, NEW a \in Int
  PROVE  \E q \in Int, r \in Int : a % n = r /\ 0 <= r /\ r < n /\ a = n * q + r
<1>1. a % n \in Int /\ a \div n \in Int
  OBVIOUS
<1>2. 0 <= a % n /\ a % n < n
  OBVIOUS
<1>3. a = n * (a \div n) + (a % n)
  OBVIOUS
<1> QED BY <1>1, <1>2, <1>3

LEMMA ModOnly ==
  ASSUME NEW n \in Int, n > 0, NEW a \in Int, NEW q \in Int, NEW r \in Int, 0 <= r, r < n,
         a = n * q + r
  PROVE  a % n = r
<1>1. PICK p \in Int, t \in Int : a % n = t /\ 0 <= t /\ t < n /\ a = n * p + t
  BY ModIs
<1>2. n * (p - q) = n * p - n * q
  OBVIOUS
<1>3. PICK d \in Int : d = p - q
  OBVIOUS
<1>4. n * d = r - t
  BY <1>1, <1>2, <1>3
<1>5. ~(d >= 1)
  <2>1. d >= 1 => n * d >= n
    OBVIOUS
  <2> QED BY <1>1, <1>4, <2>1
<1>6. ~(d <= -1)
  <2>1. d <= -1 => n * d <= -n
    OBVIOUS
  <2> QED BY <1>1, <1>4, <2>1
<1>7. d = 0
  BY <1>5, <1>6
<1>8. n * d = 0
  BY <1>7
<1> QED BY <1>1, <1>4, <1>8

(* The same with what Int32 adds before and takes away after it            *)
LEMMA WrapIs ==
  ASSUME NEW a \in Int
  PROVE  /\ Int32(a) \in Int
         /\ \E q \in Int : a = (2 * (IntMax + 1)) * q + Int32(a)
<1>1. PICK m \in Int, n \in Int : m = IntMax /\ n = 2 * (IntMax + 1) /\ n > 0
  BY IntAssumption
<1>2. PICK b \in Int : b = a + m + 1
  OBVIOUS
<1>3. PICK q \in Int, r \in Int : b % n = r /\ b = n * q + r
  BY <1>1, ModIs
<1>4. Int32(a) = r - m - 1
  BY <1>1, <1>2, <1>3 DEF Int32
<1>5. a = n * q + (r - m - 1)
  <2>1. PICK x \in Int : x = n * q
    OBVIOUS
  <2> QED BY <1>2, <1>3, <2>1
<1> QED BY <1>1, <1>4, <1>5

(* Numbers that differ by a multiple of the range wrap to the same.        *)
LEMMA WrapOnly ==
  ASSUME NEW a \in Int, NEW b \in Int, NEW q \in Int, a = (2 * (IntMax + 1)) * q + b
  PROVE  Int32(a) = Int32(b)
<1>1. PICK m \in Int, n \in Int : m = IntMax /\ n = 2 * (IntMax + 1) /\ n > 0
  BY IntAssumption
<1>2. PICK c \in Int, d \in Int : c = b + m + 1 /\ d = a + m + 1
  OBVIOUS
<1>3. PICK p \in Int, r \in Int : c % n = r /\ 0 <= r /\ r < n /\ c = n * p + r
  BY <1>1, ModIs
<1>4. PICK x \in Int, y \in Int : x = n * q /\ y = n * p
  OBVIOUS
<1>5. PICK s \in Int : s = q + p
  OBVIOUS
<1>6. n * s = x + y
  <2>1. n * (q + p) = n * q + n * p
    OBVIOUS
  <2> QED BY <1>4, <1>5, <2>1
<1>7. a = x + b
  BY <1>1, <1>4
<1>8. d = n * s + r
  <2>1. c = y + r
    BY <1>3, <1>4
  <2>2. d = x + c
    BY <1>2, <1>7
  <2>3. d = (x + y) + r
    BY <2>1, <2>2
  <2> QED BY <1>6, <2>3
<1>9. d % n = r
  BY <1>1, <1>3, <1>8, ModOnly
<1> QED BY <1>1, <1>2, <1>3, <1>9 DEF Int32

(* Additions that wrap on the way come to the same.                        *)
LEMMA WrapSums ==
  ASSUME NEW a \in Int, NEW b \in Int
  PROVE  Int32(a) \in Int /\ Int32(Int32(a) + Int32(b)) = Int32(a + b)
<1>1. PICK n \in Int : n = 2 * (IntMax + 1)
  BY IntAssumption
<1>2. PICK v \in Int, w \in Int : v = Int32(a) /\ w = Int32(b)
  BY WrapIs
<1>3. PICK p \in Int : a = n * p + v
  BY <1>1, <1>2, WrapIs
<1>4. PICK q \in Int : b = n * q + w
  BY <1>1, <1>2, WrapIs
<1>5. PICK s \in Int, x \in Int, y \in Int : s = p + q /\ x = n * p /\ y = n * q
  OBVIOUS
<1>6. n * s = x + y
  <2>1. n * (p + q) = n * p + n * q
    OBVIOUS
  <2> QED BY <1>5, <2>1
<1>7. PICK c \in Int, d \in Int : c = a + b /\ d = v + w
  OBVIOUS
<1>8. c = n * s + d
  <2>1. PICK z \in Int : z = n * s
    OBVIOUS
  <2> QED BY <1>3, <1>4, <1>5, <1>6, <1>7, <2>1
<1>9. Int32(c) = Int32(d)
  BY <1>1, <1>8, WrapOnly
<1> QED BY <1>2, <1>7, <1>9

LEMMA WrapZero == Int32(0) = 0
<1>1. PICK m \in Int, n \in Int : m = IntMax + 1 /\ n = 2 * (IntMax + 1) /\ n > 0 /\ 0 <= m /\ m < n
  BY IntAssumption
<1>2. m = n * 0 + m
  OBVIOUS
<1>3. m % n = m
  BY <1>1, <1>2, ModOnly
<1>4. Int32(0) = (m % n) - IntMax - 1
  <2>1. 0 + IntMax + 1 = m
    BY <1>1, IntAssumption
  <2> QED BY <1>1, <2>1 DEF Int32
<1> QED BY <1>1, <1>3, <1>4, IntAssumption

-----------------------------------------------------------------------------
(* sys_get_leaf_children_sum                                               *)

(* Each frame but the last stands on the task that the next one is in; the *)
(* last stands on none, or on one whose sum it has taken.                  *)
Chained(fs) ==
  \A k \in 1..Len(fs) :
    /\ fs[k].flag => fs[k].at # 0
    /\ k < Len(fs) => fs[k + 1].task = fs[k].at /\ fs[k].at # 0
    /\ k = Len(fs) => (fs[k].at # 0 => fs[k].flag)

(* The frame has still to come to l or to a task above it.                 *)
WaitsIn(f, ch, l, A) == l = f.task \/ \E c \in A : Ahead(ch[f.task], f.at, c)

Waits(fs, ch, l, A) == \E k \in 1..Len(fs) : WaitsIn(fs[k], ch, l, A)

Once(s, l) == \A i, j \in DOMAIN s : s[i] = l /\ s[j] = l => i = j

(* What a leaf is that the call must not miss                              *)
SteadyLeaf(l) ==
  /\ l \in Tasks /\ l # 0 /\ l # walk.caller /\ state[l] # "none" /\ children[l] = <<>>
  /\ walk.caller \in Anc(parent, l)

(* The call waits for a leaf as long as it has not counted it.             *)
Covered(l) ==
  /\ Waits(frames, children, l, Anc(parent, l)) <=> ~Contains(counted, l)
  /\ Once(counted, l)

(* The leaves that the frame is done with: those below a child that it has *)
(* left behind it, and below the one it stands on if it is not open, that  *)
(* is if no other frame is in that one.                                    *)
Done(f, open, ch, pa, S) ==
  {l \in S : \E c \in Anc(pa, l) : /\ Contains(ch[f.task], c) /\ ~Ahead(ch[f.task], f.at, c)
                                   /\ open => c # f.at}

(* The sum of a frame is that of the weights of these leaves, as an int,   *)
(* and there is one if the frame has seen a child.                         *)
SumRight(f, open) ==
  /\ f.task # 0 /\ state[f.task] # "none" /\ walk.caller \in Anc(parent, f.task)
  /\ f.sum = Int32(SumOver(weight, Done(f, open, children, parent, steady)))
  /\ f.flag => Done(f, open, children, parent, steady) # {}

(* ... in each of the frames, the last of which alone is not open          *)
SumsRight(fs, n) ==
  \A k \in 1..n : SumRight(fs[k], k < n) /\ (k > 1 => fs[k].task # walk.caller)

Summed == steady = LeavesBelow(walk.caller) /\ SumsRight(frames, Len(frames))

(* A call that is not astray counts the leaves that stay, each once; and   *)
(* sums them up right if nothing has changed.                              *)
Counting ==
  /\ counted \in Seq(Tasks) /\ during \in Nat
  /\ ~Summing => counted = <<>>
  /\ Summing /\ ~astray =>
       /\ walk.caller # 0 /\ Chained(frames)
       /\ \A l \in steady : SteadyLeaf(l) /\ Covered(l)
       /\ during = 0 => Summed

CountInv == ClimbInv /\ ListsOf(state, parent, children) /\ Counting

(* All of a list is ahead of its head, and no link is ahead of itself.     *)
LEMMA AheadFacts ==
  ASSUME NEW S, NEW s \in Seq(S), Different(s)
  PROVE  /\ \A c : Ahead(s, 0, c) <=> Contains(s, c)
         /\ \A at, c : Ahead(s, at, c) => Contains(s, c)
         /\ \A at : at # 0 => ~Ahead(s, at, at)
<1>1. PICK n \in Nat : n = Len(s) /\ DOMAIN s = 1..n
  BY LenProperties
<1>2. \A c : Contains(s, c) <=> \E j \in 1..n : s[j] = c
  BY <1>1 DEF Contains
<1>3. \A at, c : Ahead(s, at, c) <=>
        \E j \in 1..n : s[j] = c /\ (at = 0 \/ \E i \in 1..n : i < j /\ s[i] = at)
  BY <1>1 DEF Ahead
<1>4. ASSUME NEW at, at # 0, Ahead(s, at, at) PROVE FALSE
  <2>1. PICK j \in 1..n, i \in 1..n : s[j] = at /\ s[i] = at /\ i < j
    BY <1>3, <1>4
  <2>2. i = j
    BY <1>1, <2>1 DEF Different
  <2> QED BY <2>1, <2>2
<1> QED BY <1>2, <1>3, <1>4

(* n is the next of the list, and there is none.                           *)
GoesTo(list, at, n) == \A c : Ahead(list, at, c) <=> c = n \/ Ahead(list, n, c)

AtEnd(list, at) == \A c : ~Ahead(list, at, c)

(* The link after the one that a frame stands on                           *)
LEMMA NextOf ==
  ASSUME Inv, ListsOf(state, parent, children), NEW f \in FrameType, OnList(f),
         NEW n, n = NextLink(f), NEW s, s = children[f.task]
  PROVE  /\ s \in Seq(Tasks) /\ Different(s)
         /\ n = 0 => AtEnd(s, f.at)
         /\ n # 0 => /\ Contains(s, n) /\ ~Ahead(s, n, n) /\ n \in Tasks
                     /\ state[n] # "none" /\ parent[n] = f.task
                     /\ GoesTo(s, f.at, n)
         /\ n = 0 /\ f.at = 0 => \A c : ~Contains(s, c)
<1>1. f.task \in Tasks /\ f.at \in Tasks
  BY DEF FrameType
<1>2. s \in Seq(Tasks) /\ Different(s) /\ ~Contains(s, 0)
      /\ \A e : Contains(s, e) => e \in Tasks /\ e # 0 /\ state[e] # "none" /\ parent[e] = f.task
  BY <1>1 DEF Inv, TreeTypes, ListsOf
<1>3. PICK at : at = f.at
  OBVIOUS
<1>4. at = 0 \/ Contains(s, at)
  BY <1>3 DEF OnList
<1>5. n = NextIn(s, at)
  BY <1>3 DEF NextLink, NextIn
<1>6. /\ n = 0 => \A c : ~Ahead(s, at, c)
      /\ n # 0 => /\ Contains(s, n) /\ ~Ahead(s, n, n)
                  /\ \A c : Ahead(s, at, c) <=> c = n \/ Ahead(s, n, c)
      /\ n = 0 /\ at = 0 => \A c : ~Contains(s, c)
  BY <1>2, <1>4, <1>5, NextIs
<1>7. /\ n = 0 => AtEnd(s, at)
      /\ n # 0 => GoesTo(s, at, n)
  BY <1>6 DEF AtEnd, GoesTo
<1> QED BY <1>2, <1>3, <1>6, <1>7

(* Going into the next task, a frame leaves to another one what is below   *)
(* that task, and no more.                                                 *)
LEMMA DeeperWaits ==
  ASSUME Inv, Rooted, ListsOf(state, parent, children),
         NEW m \in Nat, NEW fs, Len(fs) = m + 1, fs[m + 1] \in FrameType, OnList(fs[m + 1]),
         NEW n, n = NextLink(fs[m + 1]), n # 0,
         NEW ft, Len(ft) = m + 2, \A k \in 1..m : ft[k] = fs[k],
         ft[m + 1].task = fs[m + 1].task, ft[m + 1].at = n, ft[m + 2].task = n, ft[m + 2].at = 0,
         NEW l \in Tasks, l # 0, state[l] # "none", NEW A, A = Anc(parent, l)
  PROVE  Waits(ft, children, l, A) <=> Waits(fs, children, l, A)
<1>1. PICK f, s, ch : f = fs[m + 1] /\ s = children[f.task] /\ ch = children
  OBVIOUS
<1>2. /\ Contains(s, n) /\ n \in Tasks /\ n # 0
      /\ \A c : Ahead(s, f.at, c) <=> c = n \/ Ahead(s, n, c)
  <2>1. f \in FrameType /\ OnList(f) /\ n = NextLink(f) /\ s = children[f.task]
    BY <1>1
  <2>2. Contains(s, n) /\ n \in Tasks /\ GoesTo(s, f.at, n)
    BY <2>1, NextOf
  <2> QED BY <2>2 DEF GoesTo
<1>3. ch[n] \in Seq(Tasks) /\ Different(ch[n])
  BY <1>1, <1>2 DEF Inv, TreeTypes, ListsOf
<1>4. \A c : Ahead(ch[n], 0, c) <=> Contains(ch[n], c)
  BY <1>3, AheadFacts
<1>5. n \in A <=> l = n \/ \E c \in A : Contains(ch[n], c)
  BY <1>1, <1>2, ChildBetween
<1>6. WaitsIn(f, ch, l, A) <=> WaitsIn(ft[m + 1], ch, l, A) \/ WaitsIn(ft[m + 2], ch, l, A)
  <2>1. WaitsIn(f, ch, l, A) <=> l = f.task \/ n \in A \/ \E c \in A : Ahead(s, n, c)
    BY <1>1, <1>2 DEF WaitsIn
  <2>2. WaitsIn(ft[m + 1], ch, l, A) <=> l = f.task \/ \E c \in A : Ahead(s, n, c)
    BY <1>1 DEF WaitsIn
  <2>3. WaitsIn(ft[m + 2], ch, l, A) <=> n \in A
    BY <1>4, <1>5 DEF WaitsIn
  <2> QED BY <2>1, <2>2, <2>3
<1>7. (\A k \in 1..(m + 1) : k \in 1..m \/ k = m + 1) /\ m + 1 \in 1..(m + 1)
  OBVIOUS
<1>8. /\ \A k \in 1..(m + 2) : k \in 1..m \/ k = m + 1 \/ k = m + 2
      /\ m + 1 \in 1..(m + 2) /\ m + 2 \in 1..(m + 2)
      /\ \A k \in 1..m : k \in 1..(m + 1) /\ k \in 1..(m + 2)
  OBVIOUS
<1>9. \A k \in 1..m : WaitsIn(ft[k], ch, l, A) <=> WaitsIn(fs[k], ch, l, A)
  OBVIOUS
<1>10. Waits(fs, ch, l, A) <=> (\E k \in 1..m : WaitsIn(fs[k], ch, l, A)) \/ WaitsIn(f, ch, l, A)
  BY <1>1, <1>7, <1>8 DEF Waits
<1>11. Waits(ft, ch, l, A) <=> \/ \E k \in 1..m : WaitsIn(ft[k], ch, l, A)
                               \/ WaitsIn(ft[m + 1], ch, l, A) \/ WaitsIn(ft[m + 2], ch, l, A)
  BY <1>8 DEF Waits
<1> QED BY <1>1, <1>6, <1>9, <1>10, <1>11

(* The task of a frame is above that of the last one.                      *)
LEMMA ChainUp ==
  ASSUME Inv, ListsOf(state, parent, children), NEW n \in Nat, NEW fs, Len(fs) = n, n > 0,
         \A k \in 1..n : fs[k] \in FrameType /\ OnList(fs[k]), Chained(fs)
  PROVE  \A k \in 1..n : fs[k].task \in Anc(parent, fs[n].task)
<1>1. PICK f, t : f = parent /\ t = fs[n].task
  OBVIOUS
<1>2. f \in [Tasks -> Tasks] /\ n \in 1..n /\ t \in Tasks
  <2>1. n \in 1..n
    OBVIOUS
  <2>2. fs[n] \in FrameType
    BY <2>1
  <2> QED BY <1>1, <2>1, <2>2 DEF Inv, TreeTypes, FrameType
<1> DEFINE Off == {d \in Nat : \E k \in 1..n : d = n - k /\ fs[k].task \notin Anc(f, t)}
<1>3. SUFFICES ASSUME Off # {} PROVE FALSE
  <2>1. \A k \in 1..n : n - k \in Nat
    OBVIOUS
  <2> QED BY <1>1, <2>1
<1>4. PICK d \in Off : \A x \in Off : d <= x
  <2>1. Off \subseteq Nat
    OBVIOUS
  <2> HIDE DEF Off
  <2> QED BY <1>3, <2>1, LeastNumber
<1>5. PICK k \in 1..n : d \in Nat /\ d = n - k /\ fs[k].task \notin Anc(f, t)
  BY <1>4
<1>6. k # n
  BY <1>1, <1>2, <1>5, AncIs
<1>7. k < n /\ k + 1 \in 1..n /\ n - (k + 1) \in Nat /\ n - (k + 1) < d
  BY <1>5, <1>6
<1>8. fs[k + 1].task \in Anc(f, t)
  <2>1. n - (k + 1) \notin Off
    <3> HIDE DEF Off
    <3>1. PICK e \in Nat : e = n - (k + 1)
      BY <1>7
    <3>2. ~(d <= e)
      BY <1>5, <1>7, <3>1
    <3> QED BY <1>4, <3>1, <3>2
  <2> QED BY <1>7, <2>1
<1> HIDE DEF Off
<1>9. fs[k + 1].task = fs[k].at /\ fs[k].at # 0
  BY <1>7 DEF Chained
<1>10. fs[k].task \in Tasks /\ Contains(children[fs[k].task], fs[k].at)
  BY <1>9 DEF FrameType, OnList
<1>11. f[fs[k + 1].task] = fs[k].task
  BY <1>1, <1>9, <1>10 DEF ListsOf
<1>12. fs[k].task \in Anc(f, t)
  <2>1. Closed(f, Anc(f, t))
    BY <1>2, AncIs
  <2> QED BY <1>8, <1>11, <2>1 DEF Closed
<1> QED BY <1>5, <1>12

(* No frame waits for a leaf when the last one, in it, has returned.       *)
LEMMA LeafLeft ==
  ASSUME Inv, Rooted, ListsOf(state, parent, children), NEW m \in Nat, NEW fs, Len(fs) = m + 1,
         \A k \in 1..(m + 1) : fs[k] \in FrameType /\ OnList(fs[k]), Chained(fs),
         NEW l \in Tasks, l = fs[m + 1].task, children[l] = <<>>, NEW k \in 1..m
  PROVE  ~WaitsIn(fs[k], children, l, Anc(parent, l))
<1>1. PICK A, f, s : A = Anc(parent, l) /\ f = fs[k] /\ s = children[f.task]
  OBVIOUS
<1>2. k \in 1..(m + 1) /\ k + 1 \in 1..(m + 1) /\ k < m + 1 /\ m + 1 > 0 /\ m + 1 \in Nat
  OBVIOUS
<1>3. \A j \in 1..(m + 1) : fs[j].task \in A
  BY <1>1, <1>2, ChainUp
<1>4. fs[k + 1].task = f.at /\ f.at # 0
  BY <1>1, <1>2 DEF Chained
<1>5. f.at \in A
  BY <1>2, <1>3, <1>4
<1>6. f \in FrameType /\ OnList(f) /\ f.task \in Tasks /\ Contains(s, f.at)
  <2>1. f \in FrameType /\ OnList(f)
    BY <1>1, <1>2
  <2> QED BY <1>1, <1>4, <2>1 DEF FrameType, OnList
<1>7. s \in Seq(Tasks) /\ Different(s)
  BY <1>1, <1>6 DEF Inv, TreeTypes, ListsOf
<1>8. l # f.task
  BY <1>1, <1>6, EmptyHolds
<1>9. ASSUME NEW c \in A, Ahead(s, f.at, c) PROVE FALSE
  <2>1. Contains(s, c)
    BY <1>7, <1>9, AheadFacts
  <2>2. c = f.at
    BY <1>1, <1>5, <1>6, <1>9, <2>1, OneChildAbove
  <2> QED BY <1>4, <1>7, <1>9, <2>2, AheadFacts
<1> QED BY <1>1, <1>8, <1>9 DEF WaitsIn

(* A frame that has come to the end of its list waits for its task only.   *)
LEMMA EndWaits ==
  ASSUME Inv, ListsOf(state, parent, children), NEW f \in FrameType, OnList(f), NextLink(f) = 0,
         NEW l, NEW A
  PROVE  WaitsIn(f, children, l, A) <=> l = f.task
<1>1. AtEnd(children[f.task], f.at)
  BY NextOf
<1> QED BY <1>1 DEF WaitsIn, AtEnd

(* The frames stay a chain.                                                *)
LEMMA ChainedEnter ==
  ASSUME NEW fs, NEW ft, NEW m, NEW n, Entered(fs, ft, m, n), Chained(fs), n # 0
  PROVE  Chained(ft)
<1>1. m \in Nat /\ Len(fs) = m + 1 /\ Len(ft) = m + 2 /\ \A k \in 1..m : ft[k] = fs[k]
  BY DEF Entered
<1>2. /\ ft[m + 1].task = fs[m + 1].task /\ ft[m + 1].at = n
      /\ ft[m + 2].task = n /\ ft[m + 2].at = 0 /\ ~ft[m + 2].flag
  BY EnteredIs
<1> SUFFICES ASSUME NEW k \in 1..(m + 2)
             PROVE  /\ ft[k].flag => ft[k].at # 0
                    /\ k < m + 2 => ft[k + 1].task = ft[k].at /\ ft[k].at # 0
                    /\ k = m + 2 => (ft[k].at # 0 => ft[k].flag)
  BY <1>1 DEF Chained
<1>3. CASE k \in 1..m
  <2>1. k \in 1..(m + 1) /\ k < m + 1 /\ k # m + 2
    BY <1>1, <1>3
  <2>2. /\ fs[k].flag => fs[k].at # 0
        /\ fs[k + 1].task = fs[k].at /\ fs[k].at # 0
    BY <1>1, <2>1 DEF Chained
  <2>3. ft[k + 1].task = fs[k + 1].task
    <3>1. k + 1 \in 1..m \/ k + 1 = m + 1
      BY <1>1, <1>3
    <3> QED BY <1>1, <1>2, <3>1
  <2> QED BY <1>1, <1>3, <2>1, <2>2, <2>3
<1>4. CASE k = m + 1
  <2>1. k + 1 = m + 2 /\ k # m + 2
    BY <1>1, <1>4
  <2> QED BY <1>2, <1>4, <2>1
<1>5. CASE k = m + 2
  <2>1. ~(k < m + 2)
    BY <1>1, <1>5
  <2> QED BY <1>2, <1>5, <2>1
<1> QED BY <1>1, <1>3, <1>4, <1>5

LEMMA ChainedReturn ==
  ASSUME NEW fs, NEW ft, NEW m, NEW v, Left(fs, ft, m, v), Chained(fs)
  PROVE  Chained(ft)
<1>1. m \in Nat /\ Len(fs) = m + 2 /\ Len(ft) = m + 1 /\ \A k \in 1..m : ft[k] = fs[k]
  BY DEF Left
<1>2. ft[m + 1].task = fs[m + 1].task /\ ft[m + 1].at = fs[m + 1].at /\ ft[m + 1].flag
  BY LeftIs
<1> SUFFICES ASSUME NEW k \in 1..(m + 1)
             PROVE  /\ ft[k].flag => ft[k].at # 0
                    /\ k < m + 1 => ft[k + 1].task = ft[k].at /\ ft[k].at # 0
                    /\ k = m + 1 => (ft[k].at # 0 => ft[k].flag)
  BY <1>1 DEF Chained
<1>3. k \in 1..(m + 2) /\ k < m + 2
  BY <1>1
<1>4. fs[k + 1].task = fs[k].at /\ fs[k].at # 0
  BY <1>1, <1>3 DEF Chained
<1>5. CASE k \in 1..m
  <2>1. k # m + 1
    BY <1>1, <1>5
  <2>2. ft[k + 1].task = fs[k + 1].task
    <3>1. k + 1 \in 1..m \/ k + 1 = m + 1
      BY <1>1, <1>5
    <3> QED BY <1>1, <1>2, <3>1
  <2> QED BY <1>1, <1>4, <1>5, <2>1, <2>2
<1>6. CASE k = m + 1
  <2>1. ~(k < m + 1)
    BY <1>1, <1>6
  <2> QED BY <1>2, <1>4, <1>6, <2>1
<1> QED BY <1>1, <1>5, <1>6

(* A task counted once more is counted once if it was not counted.         *)
LEMMA OneMore ==
  ASSUME NEW S, NEW s \in Seq(S), NEW x \in S, NEW l, Once(s, l), l = x => ~Contains(s, l)
  PROVE  Once(Append(s, x), l)
<1>0. PICK t : t = Append(s, x)
  OBVIOUS
<1>1. PICK n \in Nat : n = Len(s)
  BY LenProperties
<1>2. DOMAIN s = 1..n /\ DOMAIN t = 1..(n + 1) /\ t[n + 1] = x /\ \A k \in 1..n : t[k] = s[k]
  BY <1>0, <1>1, LenProperties, AppendProperties
<1>3. \A k \in 1..(n + 1) : k \in 1..n \/ k = n + 1
  OBVIOUS
<1>4. ~Contains(s, l) => \A k \in 1..n : s[k] # l
  BY <1>1 DEF Contains
<1>5. ASSUME NEW i \in 1..(n + 1), NEW j \in 1..(n + 1), t[i] = l, t[j] = l PROVE i = j
  <2>1. CASE l = x
    <3>1. \A k \in 1..(n + 1) : t[k] = l => k = n + 1
      BY <1>2, <1>3, <1>4, <2>1
    <3> QED BY <1>5, <3>1
  <2>2. CASE l # x
    <3>1. \A k \in 1..(n + 1) : t[k] = l => k \in 1..n /\ s[k] = l
      BY <1>2, <1>3, <2>2
    <3> QED BY <1>2, <1>5, <3>1 DEF Once
  <2> QED BY <2>1, <2>2
<1> QED BY <1>0, <1>2, <1>5 DEF Once

(* Entering a frame changes nothing of what the call waits for.            *)
LEMMA EnterWaits ==
  ASSUME Inv, Rooted, ListsOf(state, parent, children),
         NEW fs, NEW ft, NEW m, NEW n, Entered(fs, ft, m, n), OnList(fs[m + 1]),
         n = NextLink(fs[m + 1]), n # 0, NEW l \in Tasks, l # 0, state[l] # "none",
         NEW A, A = Anc(parent, l)
  PROVE  Waits(ft, children, l, A) <=> Waits(fs, children, l, A)
<1>1. m \in Nat /\ Len(fs) = m + 1 /\ Len(ft) = m + 2 /\ \A k \in 1..m : ft[k] = fs[k]
  BY DEF Entered
<1>2. /\ fs[m + 1] \in FrameType /\ ft[m + 1].task = fs[m + 1].task /\ ft[m + 1].at = n
      /\ ft[m + 2].task = n /\ ft[m + 2].at = 0
  BY EnteredIs
<1> QED BY <1>1, <1>2, DeeperWaits

(* The leaf that a frame returns from is counted, and no other.            *)
LEMMA ReturnWaits ==
  ASSUME Inv, Rooted, ListsOf(state, parent, children),
         NEW fs, NEW ft, NEW m, NEW v, Left(fs, ft, m, v), Chained(fs),
         \A k \in 1..(m + 2) : OnList(fs[k]), NextLink(fs[m + 2]) = 0,
         NEW l \in Tasks, children[l] = <<>>, NEW A, A = Anc(parent, l),
         NEW cs \in Seq(Tasks), Waits(fs, children, l, A) <=> ~Contains(cs, l), Once(cs, l),
         NEW ct, fs[m + 2].flag => ct = cs, ~fs[m + 2].flag => ct = Append(cs, fs[m + 2].task)
  PROVE  (Waits(ft, children, l, A) <=> ~Contains(ct, l)) /\ Once(ct, l)
<1>1. m \in Nat /\ Len(fs) = m + 2 /\ Len(ft) = m + 1 /\ \A k \in 1..m : ft[k] = fs[k]
  BY DEF Left
<1>2. /\ fs[m + 2] \in FrameType
      /\ ft[m + 1].task = fs[m + 1].task /\ ft[m + 1].at = fs[m + 1].at
  BY LeftIs
<1>3. PICK x : x = fs[m + 2].task
  OBVIOUS
<1>4. x \in Tasks
  BY <1>2, <1>3 DEF FrameType
<1>5. /\ \A k \in 1..(m + 2) : k \in 1..(m + 1) \/ k = m + 2
      /\ \A k \in 1..(m + 1) : k \in 1..m \/ k = m + 1
      /\ \A k \in 1..(m + 1) : k \in 1..(m + 2)
      /\ m + 2 \in 1..(m + 2) /\ m + 1 \in Nat
  BY <1>1
<1>6. PICK rest : rest = \E k \in 1..(m + 1) : WaitsIn(fs[k], children, l, A)
  OBVIOUS
<1>7. Waits(fs, children, l, A) <=> rest \/ l = x
  <2>1. WaitsIn(fs[m + 2], children, l, A) <=> l = x
    BY <1>2, <1>3, <1>5, EndWaits
  <2> QED BY <1>1, <1>5, <1>6, <2>1 DEF Waits
<1>8. Waits(ft, children, l, A) <=> rest
  <2>1. WaitsIn(ft[m + 1], children, l, A) <=> WaitsIn(fs[m + 1], children, l, A)
    BY <1>2 DEF WaitsIn
  <2>2. \A k \in 1..(m + 1) : WaitsIn(ft[k], children, l, A) <=> WaitsIn(fs[k], children, l, A)
    BY <1>1, <1>5, <2>1
  <2> QED BY <1>1, <1>6, <2>2 DEF Waits
<1>9. /\ Append(cs, x) \in Seq(Tasks)
      /\ \A e : Contains(Append(cs, x), e) <=> Contains(cs, e) \/ e = x
  BY <1>4, AddedChild
<1>10. CASE l = x
  <2>1. ~fs[m + 2].flag
    <3>1. ~Contains(children[x], fs[m + 2].at)
      BY <1>10, EmptyHolds
    <3>2. fs[m + 2].at = 0
      BY <1>3, <1>5, <3>1 DEF OnList
    <3> QED BY <1>1, <1>5, <3>2 DEF Chained
  <2>2. ct = Append(cs, x) /\ ~Contains(cs, l)
    BY <1>3, <1>7, <1>10, <2>1
  <2>3. ~rest
    <3>1. \A k \in 1..(m + 2) : fs[k] \in FrameType /\ OnList(fs[k])
      BY ElementOfSeq DEF Left
    <3>2. m + 1 \in Nat /\ Len(fs) = (m + 1) + 1 /\ (m + 1) + 1 = m + 2
      BY <1>1
    <3>3. ASSUME NEW k \in 1..(m + 1) PROVE ~WaitsIn(fs[k], children, l, A)
      BY <1>3, <1>10, <3>1, <3>2, LeafLeft
    <3> QED BY <1>6, <3>3
  <2>4. Once(ct, l)
    BY <1>4, <2>2, OneMore
  <2> QED BY <1>8, <1>9, <1>10, <2>2, <2>3, <2>4
<1>11. CASE l # x
  <2>1. Once(Append(cs, x), l)
    BY <1>4, <1>11, OneMore
  <2>2. Contains(ct, l) <=> Contains(cs, l)
    BY <1>3, <1>9, <1>11
  <2> QED BY <1>3, <1>7, <1>8, <1>11, <2>1, <2>2
<1> QED BY <1>10, <1>11

(* Sums of weights, for any set of tasks                                   *)
LEMMA SumsHere ==
  ASSUME Inv, NEW S, S \subseteq Tasks
  PROVE  /\ IsFiniteSet(S) /\ \A x \in S : weight[x] \in Int
         /\ SumOver(weight, {}) = 0 /\ SumOver(weight, S) \in Int
         /\ \A x \in S : S = {x} => SumOver(weight, S) = weight[x]
<1>1. IsFiniteSet(Tasks)
  <2>1. IsFiniteSet(Pids) /\ IsFiniteSet({0}) /\ IsFiniteSet({1})
    BY PidsAssumption, FS_Singleton
  <2>2. Tasks = (Pids \cup {0}) \cup {1}
    BY DEF Tasks
  <2> QED BY <2>1, <2>2, FS_Union
<1>2. IsFiniteSet(S)
  BY <1>1, FS_Subset
<1>3. PICK w : w = weight
  OBVIOUS
<1>4. \A x \in S : w[x] \in Int
  BY <1>3 DEF Inv, TreeTypes
<1>5. /\ SumOver(w, {}) = 0 /\ SumOver(w, S) \in Int
      /\ \A x \in S : SumOver(w, S) = w[x] + SumOver(w, S \ {x})
  BY <1>2, <1>4, SumFacts
<1>6. ASSUME NEW x \in S, S = {x} PROVE SumOver(w, S) = w[x]
  <2>1. S \ {x} = {}
    BY <1>6
  <2>2. SumOver(w, S) = w[x] + 0
    BY <1>5, <2>1
  <2> QED BY <1>4, <2>2
<1> QED BY <1>2, <1>3, <1>4, <1>5, <1>6

(* The leaves below the task that a frame is in                            *)
Under(x) == {l \in steady : x \in Anc(parent, l)}

(* A frame at the end of its list has the sum of all leaves below its task *)
(* or is in a leaf.                                                        *)
LEMMA ReturnedSum ==
  ASSUME Inv, Rooted, ListsOf(state, parent, children), \A l \in steady : SteadyLeaf(l),
         steady = LeavesBelow(walk.caller), NEW f \in FrameType, OnList(f), NextLink(f) = 0,
         f.flag => f.at # 0, f.at # 0 => f.flag, SumRight(f, FALSE)
  PROVE  /\ f.task # walk.caller =>
              /\ Under(f.task) # {}
              /\ (IF f.flag THEN f.sum ELSE Int32(f.sum + weight[f.task]))
                   = Int32(SumOver(weight, Under(f.task)))
         /\ f.flag => f.sum = Int32(SumOver(weight, Under(f.task) \ {f.task}))
                      /\ Under(f.task) \ {f.task} # {}
         /\ ~f.flag => Under(f.task) \subseteq {f.task}
<1>1. PICK x, s : x = f.task /\ s = children[x]
  OBVIOUS
<1>2. /\ x \in Tasks /\ x # 0 /\ state[x] # "none" /\ walk.caller \in Anc(parent, x)
      /\ f.sum = Int32(SumOver(weight, Done(f, FALSE, children, parent, steady)))
      /\ f.flag => Done(f, FALSE, children, parent, steady) # {}
  BY <1>1 DEF SumRight, FrameType
<1>3. \A l \in steady : /\ l \in Tasks /\ l # 0 /\ state[l] # "none" /\ children[l] = <<>>
  BY DEF SteadyLeaf
<1>4. s \in Seq(Tasks) /\ AtEnd(s, f.at) /\ (f.at = 0 => \A c : ~Contains(s, c))
  BY <1>1, NextOf
<1>5. PICK D : D = Done(f, FALSE, children, parent, steady)
  OBVIOUS
<1>6. \A l \in steady : l \in D <=> \E c \in Anc(parent, l) : Contains(s, c)
  BY <1>1, <1>4, <1>5 DEF Done, AtEnd
<1>7. \A l \in steady : l \in Under(x) <=> l = x \/ l \in D
  <2>1. ASSUME NEW l \in steady
        PROVE  x \in Anc(parent, l) <=> l = x \/ \E c \in Anc(parent, l) : Contains(s, c)
    BY <1>1, <1>2, <1>3, ChildBetween
  <2> QED BY <1>6, <2>1 DEF Under
<1>8. D \subseteq steady /\ Under(x) \subseteq steady
  BY <1>5 DEF Done, Under
<1>9. CASE f.flag
  <2>1. Contains(s, f.at)
    BY <1>1, <1>9 DEF OnList
  <2>2. x \notin steady
    BY <1>1, <1>3, <2>1, EmptyHolds
  <2>3. Under(x) = D /\ Under(x) \ {x} = D
    BY <1>7, <1>8, <2>2
  <2> QED BY <1>1, <1>2, <1>5, <1>9, <2>3
<1>10. CASE ~f.flag
  <2>1. \A c : ~Contains(s, c)
    BY <1>4, <1>10
  <2>2. D = {} /\ Under(x) \subseteq {x}
    BY <1>6, <1>7, <1>8, <2>1
  <2>3. ASSUME x # walk.caller PROVE Under(x) = {x}
    <3>1. s = <<>>
      <4>1. Len(s) \in Nat /\ DOMAIN s = 1..Len(s)
        BY <1>4, LenProperties
      <4>2. ~(1 \in 1..Len(s))
        BY <2>1, <4>1 DEF Contains
      <4>3. Len(s) = 0
        BY <4>1, <4>2
      <4> QED BY <1>4, <4>3, EmptySeq
    <3>2. x \in LeavesBelow(walk.caller)
      BY <1>1, <1>2, <2>3, <3>1, AncestorsAre DEF LeavesBelow
    <3> QED BY <1>7, <2>2, <3>2
  <2>4. ASSUME x # walk.caller
        PROVE  Int32(f.sum + weight[x]) = Int32(SumOver(weight, Under(x)))
    <3>1. PICK U : U = Under(x) /\ U = {x}
      BY <2>3, <2>4
    <3>2. SumOver(weight, {}) = 0
      BY <1>2, <3>1, SumsHere
    <3>3. SumOver(weight, U) = weight[x]
      BY <1>2, <3>1, SumsHere
    <3>4. f.sum = 0
      BY <1>2, <1>5, <2>2, <3>2, WrapZero
    <3>5. weight[x] \in Int
      BY <1>2 DEF Inv, TreeTypes
    <3>6. f.sum + weight[x] = weight[x]
      BY <3>4, <3>5
    <3> QED BY <3>1, <3>3, <3>6
  <2> QED BY <1>1, <1>10, <2>2, <2>3, <2>4
<1> QED BY <1>9, <1>10

(* The sums are right when a frame is entered: its own is 0, and the one   *)
(* before it is done with no more leaves.                                  *)
LEMMA EnterSums ==
  ASSUME Inv, Rooted, ListsOf(state, parent, children), \A l \in steady : SteadyLeaf(l),
         NEW fs, NEW ft, NEW m, NEW n, Entered(fs, ft, m, n), OnList(fs[m + 1]),
         n = NextLink(fs[m + 1]), n # 0, SumsRight(fs, m + 1), walk.caller \in Tasks, walk.caller # 0
  PROVE  SumsRight(ft, m + 2)
<1>1. m \in Nat /\ \A k \in 1..m : ft[k] = fs[k]
  BY DEF Entered
<1>2. PICK f, g, h : f = fs[m + 1] /\ g = ft[m + 1] /\ h = ft[m + 2]
  OBVIOUS
<1>3. /\ f \in FrameType /\ g.task = f.task /\ g.at = n /\ g.sum = f.sum /\ g.flag = f.flag
      /\ h.task = n /\ h.at = 0 /\ h.sum = 0 /\ ~h.flag
  BY <1>2, EnteredIs
<1>4. m + 1 \in 1..(m + 1) /\ (m + 1 < m + 1) = FALSE
  BY <1>1
<1>5. SumRight(f, FALSE) /\ (m + 1 > 1 => f.task # walk.caller)
  <2>1. SumRight(fs[m + 1], m + 1 < m + 1) /\ (m + 1 > 1 => fs[m + 1].task # walk.caller)
    BY <1>4 DEF SumsRight
  <2> QED BY <1>2, <1>4, <2>1
<1>6. PICK s : s = children[f.task]
  OBVIOUS
<1>7. /\ GoesTo(s, f.at, n) /\ Contains(s, n) /\ ~Ahead(s, n, n) /\ n \in Tasks
      /\ state[n] # "none" /\ parent[n] = f.task
  <2>1. OnList(f) /\ n = NextLink(f)
    BY <1>2
  <2> QED BY <1>3, <1>6, <2>1, NextOf
<1>8. SumRight(g, TRUE)
  <2>1. ASSUME NEW c
        PROVE  Contains(s, c) /\ ~Ahead(s, f.at, c) <=> Contains(s, c) /\ ~Ahead(s, n, c) /\ c # n
    BY <1>7 DEF GoesTo
  <2>2. Done(g, TRUE, children, parent, steady) = Done(f, FALSE, children, parent, steady)
    BY <1>3, <1>6, <2>1 DEF Done
  <2> QED BY <1>3, <1>5, <2>2 DEF SumRight
<1>9. walk.caller \in Anc(parent, f.task) /\ f.task \in Tasks
  BY <1>3, <1>5 DEF SumRight, FrameType
<1>10. PICK p : p = parent
  OBVIOUS
<1>11. p \in [Tasks -> Tasks] /\ Acyclic(p)
  BY <1>10 DEF Inv, TreeTypes, Rooted
<1>12. walk.caller \in Anc(p, n) /\ n # walk.caller
  <2>1. Anc(p, n) = {n} \cup Anc(p, f.task)
    BY <1>7, <1>10, <1>11, AncUnfold
  <2>2. n \notin Anc(p, f.task)
    BY <1>7, <1>10, <1>11 DEF Acyclic
  <2> QED BY <1>9, <1>10, <2>1, <2>2
<1>13. SumRight(h, FALSE)
  <2>1. children[n] \in Seq(Tasks) /\ Different(children[n])
    BY <1>7 DEF Inv, TreeTypes, ListsOf
  <2>2. \A c : Ahead(children[n], 0, c) <=> Contains(children[n], c)
    BY <2>1, AheadFacts
  <2>3. Done(h, FALSE, children, parent, steady) = {}
    BY <1>3, <2>2 DEF Done
  <2>4. SumOver(weight, {}) = 0
    BY SumsHere
  <2> QED BY <1>3, <1>7, <1>10, <1>12, <2>3, <2>4, WrapZero DEF SumRight
<1> SUFFICES ASSUME NEW k \in 1..(m + 2)
             PROVE  SumRight(ft[k], k < m + 2) /\ (k > 1 => ft[k].task # walk.caller)
  BY DEF SumsRight
<1>14. CASE k \in 1..m
  <2>1. k \in 1..(m + 1) /\ (k < m + 1) = TRUE /\ (k < m + 2) = TRUE
    BY <1>1, <1>14
  <2>2. SumRight(fs[k], k < m + 1) /\ (k > 1 => fs[k].task # walk.caller)
    BY <2>1 DEF SumsRight
  <2> QED BY <1>1, <1>14, <2>1, <2>2
<1>15. CASE k = m + 1
  <2>1. (k < m + 2) = TRUE
    BY <1>1, <1>15
  <2> QED BY <1>2, <1>3, <1>5, <1>8, <1>15, <2>1
<1>16. CASE k = m + 2
  <2>1. (k < m + 2) = FALSE
    BY <1>1, <1>16
  <2> QED BY <1>2, <1>3, <1>12, <1>13, <1>16, <2>1
<1> QED BY <1>1, <1>14, <1>15, <1>16

(* The sums are right when a frame returns: the one before it is now also  *)
(* done with the leaves below the task that it stands on, and with none of *)
(* them twice.                                                             *)
LEMMA ReturnSums ==
  ASSUME Inv, Rooted, ListsOf(state, parent, children), \A l \in steady : SteadyLeaf(l),
         steady = LeavesBelow(walk.caller), NEW fs, NEW ft, NEW m, NEW v, Left(fs, ft, m, v),
         \A k \in 1..(m + 2) : OnList(fs[k]), NextLink(fs[m + 2]) = 0, Chained(fs),
         v = IF fs[m + 2].flag THEN fs[m + 2].sum ELSE Int32(fs[m + 2].sum + weight[fs[m + 2].task]),
         SumsRight(fs, m + 2)
  PROVE  SumsRight(ft, m + 1)
<1>1. m \in Nat /\ \A k \in 1..m : ft[k] = fs[k]
  BY DEF Left
<1>2. PICK f, g, h : f = fs[m + 1] /\ g = ft[m + 1] /\ h = fs[m + 2]
  OBVIOUS
<1>3. /\ f \in FrameType /\ h \in FrameType /\ g.task = f.task /\ g.at = f.at
      /\ g.sum = Int32(f.sum + v) /\ g.flag
  BY <1>2, LeftIs
<1>4. /\ m + 1 \in 1..(m + 2) /\ (m + 1 < m + 2) = TRUE
      /\ m + 2 \in 1..(m + 2) /\ (m + 2 < m + 2) = FALSE /\ m + 2 > 1
  BY <1>1
<1>5. SumRight(f, TRUE) /\ (m + 1 > 1 => f.task # walk.caller)
  <2>1. SumRight(fs[m + 1], m + 1 < m + 2) /\ (m + 1 > 1 => fs[m + 1].task # walk.caller)
    BY <1>4 DEF SumsRight
  <2> QED BY <1>2, <1>4, <2>1
<1>6. SumRight(h, FALSE) /\ h.task # walk.caller
  <2>1. SumRight(fs[m + 2], m + 2 < m + 2) /\ (m + 2 > 1 => fs[m + 2].task # walk.caller)
    BY <1>4 DEF SumsRight
  <2> QED BY <1>2, <1>4, <2>1
<1>7. PICK x, s, B : x = h.task /\ s = children[f.task] /\ B = Under(x)
  OBVIOUS
<1>8. x = f.at /\ f.at # 0 /\ (h.flag => h.at # 0) /\ (h.at # 0 => h.flag)
  <2>1. Len(fs) = m + 2 /\ (m + 1) + 1 = m + 2
    BY <1>1 DEF Left
  <2>2. fs[(m + 1) + 1].task = fs[m + 1].at /\ fs[m + 1].at # 0
    BY <1>4, <2>1 DEF Chained
  <2>3. (fs[m + 2].flag => fs[m + 2].at # 0) /\ (fs[m + 2].at # 0 => fs[m + 2].flag)
    BY <1>4, <2>1 DEF Chained
  <2> QED BY <1>2, <1>7, <2>1, <2>2, <2>3
<1>9. B # {} /\ v = Int32(SumOver(weight, B))
  <2>1. OnList(h) /\ NextLink(h) = 0
    BY <1>2, <1>4
  <2>2. /\ Under(h.task) # {}
        /\ (IF h.flag THEN h.sum ELSE Int32(h.sum + weight[h.task]))
             = Int32(SumOver(weight, Under(h.task)))
    BY <1>3, <1>6, <1>8, <2>1, ReturnedSum
  <2> QED BY <1>2, <1>7, <2>2
<1>10. Contains(s, x) /\ f.task \in Tasks /\ s \in Seq(Tasks) /\ Different(s)
  <2>1. f.task \in Tasks
    BY <1>3 DEF FrameType
  <2>2. OnList(f)
    BY <1>2, <1>4
  <2> QED BY <1>7, <1>8, <2>1, <2>2 DEF OnList, Inv, TreeTypes, ListsOf
<1>11. ~Ahead(s, x, x)
  BY <1>8, <1>10, AheadFacts
<1>12. PICK D, E : /\ D = Done(f, TRUE, children, parent, steady)
                   /\ E = Done(g, FALSE, children, parent, steady)
  OBVIOUS
<1>13. ASSUME NEW l \in steady
       PROVE  /\ l \in D <=> \E c \in Anc(parent, l) : Contains(s, c) /\ ~Ahead(s, x, c) /\ c # x
              /\ l \in E <=> \E c \in Anc(parent, l) : Contains(s, c) /\ ~Ahead(s, x, c)
              /\ l \in B <=> x \in Anc(parent, l)
  BY <1>3, <1>7, <1>8, <1>12 DEF Done, Under
<1>14. D \subseteq steady /\ E \subseteq steady /\ B \subseteq steady /\ steady \subseteq Tasks
  BY <1>7, <1>12 DEF Done, Under, SteadyLeaf
<1>15. E = D \cup B
  <2>1. ASSUME NEW l \in steady PROVE l \in E <=> l \in D \/ l \in B
    BY <1>10, <1>11, <1>13
  <2> QED BY <1>14, <2>1
<1>16. D \cap B = {}
  <2>1. ASSUME NEW l \in steady, l \in D, l \in B PROVE FALSE
    <3>1. PICK c \in Anc(parent, l) : Contains(s, c) /\ c # x
      BY <1>13, <2>1
    <3>2. x \in Anc(parent, l) /\ l \in Tasks
      BY <1>13, <1>14, <2>1
    <3> QED BY <1>7, <1>10, <3>1, <3>2, OneChildAbove
  <2> QED BY <1>14, <2>1
<1>17. SumOver(weight, E) = SumOver(weight, D) + SumOver(weight, B)
  <2>1. IsFiniteSet(E) /\ \A y \in E : weight[y] \in Int
    BY <1>14, SumsHere
  <2>2. D \in SUBSET E /\ B \in SUBSET E
    BY <1>15
  <2>3. PICK w : w = weight
    OBVIOUS
  <2>4. \A y \in E : w[y] \in Int
    BY <2>1, <2>3
  <2>5. SumOver(w, D \cup B) = SumOver(w, D) + SumOver(w, B)
    BY <1>16, <2>1, <2>2, <2>4, SumOfBoth
  <2> QED BY <1>15, <2>3, <2>5
<1>18. g.sum = Int32(SumOver(weight, E))
  <2>1. SumOver(weight, D) \in Int /\ SumOver(weight, B) \in Int
    BY <1>14, SumsHere
  <2>2. PICK d \in Int, b \in Int : d = SumOver(weight, D) /\ b = SumOver(weight, B)
    BY <2>1
  <2>3. f.sum = Int32(d) /\ v = Int32(b)
    BY <1>5, <1>9, <1>12, <2>2 DEF SumRight
  <2>4. Int32(Int32(d) + Int32(b)) = Int32(d + b)
    BY WrapSums
  <2> QED BY <1>3, <1>17, <2>2, <2>3, <2>4
<1>19. SumRight(g, FALSE)
  <2>1. f.task # 0 /\ state[f.task] # "none" /\ walk.caller \in Anc(parent, f.task)
    BY <1>5 DEF SumRight
  <2> QED BY <1>3, <1>9, <1>12, <1>15, <1>18, <2>1 DEF SumRight
<1> SUFFICES ASSUME NEW k \in 1..(m + 1)
             PROVE  SumRight(ft[k], k < m + 1) /\ (k > 1 => ft[k].task # walk.caller)
  BY DEF SumsRight
<1>20. CASE k \in 1..m
  <2>1. k \in 1..(m + 2) /\ (k < m + 1) = TRUE /\ (k < m + 2) = TRUE
    BY <1>1, <1>20
  <2>2. SumRight(fs[k], k < m + 2) /\ (k > 1 => fs[k].task # walk.caller)
    BY <2>1 DEF SumsRight
  <2> QED BY <1>1, <1>20, <2>1, <2>2
<1>21. CASE k = m + 1
  <2>1. (k < m + 1) = FALSE
    BY <1>1, <1>21
  <2> QED BY <1>2, <1>3, <1>5, <1>19, <1>21, <2>1
<1> QED BY <1>1, <1>20, <1>21

LEMMA CountingInit == Init => Counting
<1> SUFFICES ASSUME Init PROVE Counting
  OBVIOUS
<1>1. counted = <<>> /\ frames = <<>> /\ during = 0
  BY DEF Init
<1>2. counted \in Seq(Tasks)
  BY <1>1, EmptySeq
<1> QED BY <1>1, <1>2 DEF Counting, Summing

(* What a running call that is not astray stands on                        *)
LEMMA Standing ==
  ASSUME Inv, Summing, ~astray
  PROVE  /\ frames \in Seq(FrameType) /\ walk.caller \in Tasks
         /\ \A k \in 1..Len(frames) : frames[k] \in FrameType /\ OnList(frames[k])
<1>1. frames \in Seq(FrameType)
  BY DEF Inv, TreeTypes
<1>2. DOMAIN frames = 1..Len(frames)
  BY <1>1, LenProperties
<1>3. \A k \in 1..Len(frames) : frames[k] \in FrameType
  BY <1>1, ElementOfSeq
<1> QED BY <1>1, <1>2, <1>3 DEF Inv, Inside

(* The steps of the call leave the tree and the leaves as they are.        *)
LEMMA SumsKept ==
  ASSUME UNCHANGED <<state, parent, children, weight, walk, steady>>
  PROVE  /\ \A fs, n : SumsRight(fs, n)' <=> SumsRight(fs, n)
         /\ \A l : SteadyLeaf(l)' <=> SteadyLeaf(l)
         /\ LeavesBelow(walk.caller)' = LeavesBelow(walk.caller)
<1>1. ASSUME NEW fs, NEW n PROVE SumsRight(fs, n)' <=> SumsRight(fs, n)
  BY DEF SumsRight, SumRight, Done
<1>2. ASSUME NEW l PROVE SteadyLeaf(l)' <=> SteadyLeaf(l)
  BY DEF SteadyLeaf
<1>3. LeavesBelow(walk.caller)' = LeavesBelow(walk.caller)
  <2>1. \A l : Ancestors(l)' = Ancestors(l)
    BY AncestorsAre
  <2> QED BY <2>1 DEF LeavesBelow
<1> QED BY <1>1, <1>2, <1>3

(* One case for each step of the call                                      *)
LEMMA EnterCounting ==
  ASSUME CountInv, traverse_children_sum_weight
  PROVE  Counting'
<1>1. /\ Summing /\ ~astray /\ NextLink(Top) # 0
      /\ UNCHANGED <<state, parent, children, weight, walk, astray, counted, steady, during>>
  BY DEF traverse_children_sum_weight, tree, InLists
<1>2. Inv /\ Rooted /\ ListsOf(state, parent, children) /\ Counting
  BY DEF CountInv, ClimbInv
<1>3. PICK m : Entered(frames, frames', m, NextLink(Top)) /\ Top = frames[m + 1]
  BY <1>2, FramesEnter
<1>4. PICK n, fs, ft : n = NextLink(Top) /\ fs = frames /\ ft = frames'
  OBVIOUS
<1>5. Entered(fs, ft, m, n) /\ n # 0 /\ n = NextLink(fs[m + 1]) /\ Len(fs) = m + 1 /\ m \in Nat
      /\ Len(ft) = m + 2
  BY <1>1, <1>3, <1>4 DEF Entered
<1>6. /\ walk.caller \in Tasks /\ OnList(fs[m + 1])
  <2>1. m + 1 \in 1..(m + 1)
    BY <1>5
  <2> QED BY <1>1, <1>2, <1>4, <1>5, <2>1, Standing
<1>7. /\ counted \in Seq(Tasks) /\ during \in Nat /\ walk.caller # 0 /\ Chained(fs)
      /\ \A l \in steady : SteadyLeaf(l) /\ Covered(l)
      /\ during = 0 => Summed
  BY <1>1, <1>2, <1>4 DEF Counting
<1>8. Chained(ft)
  BY <1>5, <1>7, ChainedEnter
<1>9. ASSUME NEW l \in steady PROVE Covered(l)'
  <2>1. l \in Tasks /\ l # 0 /\ state[l] # "none" /\ Covered(l)
    BY <1>7 DEF SteadyLeaf
  <2>2. PICK A : A = Anc(parent, l)
    OBVIOUS
  <2>3. Waits(ft, children, l, A) <=> Waits(fs, children, l, A)
    BY <1>2, <1>5, <1>6, <2>1, <2>2, EnterWaits
  <2>4. Anc(parent, l)' = A /\ children' = children /\ counted' = counted /\ frames' = ft
    BY <1>1, <1>4, <2>2
  <2>5. Waits(frames, children, l, Anc(parent, l))' <=> Waits(ft, children, l, A)
    BY <2>4
  <2> QED BY <1>4, <2>1, <2>2, <2>3, <2>4, <2>5 DEF Covered
<1>10. during = 0 => Summed'
  <2> SUFFICES ASSUME during = 0 PROVE Summed'
    OBVIOUS
  <2>1. steady = LeavesBelow(walk.caller) /\ SumsRight(fs, m + 1)
    BY <1>4, <1>5, <1>7 DEF Summed
  <2>2. SumsRight(ft, m + 2)
    BY <1>2, <1>5, <1>6, <1>7, <2>1, EnterSums
  <2>3. SumsRight(ft, m + 2)' /\ LeavesBelow(walk.caller)' = steady'
    BY <1>1, <2>1, <2>2, SumsKept
  <2> QED BY <1>4, <1>5, <2>3 DEF Summed
<1>11. \A l \in steady : SteadyLeaf(l)'
  BY <1>1, <1>7, SumsKept
<1>12. Summing'
  <2>1. Len(ft) # 0
    BY <1>5
  <2>2. ft # <<>>
    BY <2>1, EmptySeq
  <2> QED BY <1>4, <2>2 DEF Summing
<1> QED BY <1>1, <1>4, <1>7, <1>8, <1>9, <1>10, <1>11, <1>12 DEF Counting

LEMMA ReturnCounting ==
  ASSUME CountInv, TraverseReturns
  PROVE  Counting'
<1>1. /\ Summing /\ ~astray /\ NextLink(Top) = 0
      /\ counted' = IF Top.flag THEN counted ELSE Append(counted, Top.task)
      /\ UNCHANGED <<state, parent, children, weight, walk, astray, steady, during>>
  BY DEF TraverseReturns, tree, InLists
<1>2. Inv /\ Rooted /\ ListsOf(state, parent, children) /\ Counting
  BY DEF CountInv, ClimbInv
<1>3. PICK m : Left(frames, frames', m, Sum) /\ Top = frames[m + 2]
  BY <1>2, FramesReturn
<1>4. PICK v, fs, ft, cs, ct : /\ v = Sum /\ fs = frames /\ ft = frames'
                               /\ cs = counted /\ ct = counted'
  OBVIOUS
<1>5. /\ Left(fs, ft, m, v) /\ NextLink(fs[m + 2]) = 0 /\ Len(fs) = m + 2 /\ m \in Nat
      /\ Len(ft) = m + 1 /\ Top = fs[m + 2]
  BY <1>1, <1>3, <1>4 DEF Left
<1>6. /\ v = IF fs[m + 2].flag THEN fs[m + 2].sum ELSE Int32(fs[m + 2].sum + weight[fs[m + 2].task])
      /\ fs[m + 2].flag => ct = cs
      /\ ~fs[m + 2].flag => ct = Append(cs, fs[m + 2].task)
  BY <1>1, <1>4, <1>5 DEF Sum
<1>7. walk.caller \in Tasks /\ \A k \in 1..(m + 2) : OnList(fs[k])
  BY <1>1, <1>2, <1>4, <1>5, Standing
<1>8. /\ cs \in Seq(Tasks) /\ during \in Nat /\ walk.caller # 0 /\ Chained(fs)
      /\ \A l \in steady : SteadyLeaf(l) /\ Covered(l)
      /\ during = 0 => Summed
  BY <1>1, <1>2, <1>4 DEF Counting
<1>9. Chained(ft)
  BY <1>5, <1>8, ChainedReturn
<1>10. ct \in Seq(Tasks)
  <2>1. fs[m + 2].task \in Tasks
    BY <1>5, LeftIs DEF FrameType
  <2> QED BY <1>6, <1>8, <2>1, AppendProperties
<1>11. ASSUME NEW l \in steady PROVE Covered(l)'
  <2>1. l \in Tasks /\ children[l] = <<>> /\ Covered(l)
    BY <1>8 DEF SteadyLeaf
  <2>2. PICK A : A = Anc(parent, l)
    OBVIOUS
  <2>3. (Waits(fs, children, l, A) <=> ~Contains(cs, l)) /\ Once(cs, l)
    BY <1>4, <2>1, <2>2 DEF Covered
  <2>4. (Waits(ft, children, l, A) <=> ~Contains(ct, l)) /\ Once(ct, l)
    BY <1>2, <1>5, <1>6, <1>7, <1>8, <2>1, <2>2, <2>3, ReturnWaits
  <2>5. Anc(parent, l)' = A /\ children' = children /\ counted' = ct /\ frames' = ft
    BY <1>1, <1>4, <2>2
  <2>6. Waits(frames, children, l, Anc(parent, l))' <=> Waits(ft, children, l, A)
    BY <2>5
  <2> QED BY <2>4, <2>5, <2>6 DEF Covered
<1>12. during = 0 => Summed'
  <2> SUFFICES ASSUME during = 0 PROVE Summed'
    OBVIOUS
  <2>1. steady = LeavesBelow(walk.caller) /\ SumsRight(fs, m + 2)
    BY <1>4, <1>5, <1>8 DEF Summed
  <2>2. SumsRight(ft, m + 1)
    BY <1>2, <1>5, <1>6, <1>7, <1>8, <2>1, ReturnSums
  <2>3. SumsRight(ft, m + 1)' /\ LeavesBelow(walk.caller)' = steady'
    BY <1>1, <2>1, <2>2, SumsKept
  <2> QED BY <1>4, <1>5, <2>3 DEF Summed
<1>13. \A l \in steady : SteadyLeaf(l)'
  BY <1>1, <1>8, SumsKept
<1>14. Summing'
  <2>1. Len(ft) # 0
    BY <1>5
  <2>2. ft # <<>>
    BY <2>1, EmptySeq
  <2> QED BY <1>4, <2>2 DEF Summing
<1> QED BY <1>1, <1>4, <1>8, <1>9, <1>10, <1>11, <1>12, <1>13, <1>14 DEF Counting

(* The call begins: it waits for every leaf below the caller.              *)
LEMMA EnterSumCounting ==
  ASSUME CountInv, NEW p \in Tasks, EnterSum(p)
  PROVE  Counting'
<1>1. /\ ~Summing /\ p # 0 /\ state[p] = "alive" /\ frames' = <<Frame(p)>>
      /\ steady' = LeavesBelow(p) /\ walk' = [NotWalking EXCEPT !.caller = p]
      /\ UNCHANGED <<state, parent, children, weight, astray, counted, during>>
  BY DEF EnterSum, Runs, tree
<1>2. Inv /\ Rooted /\ ListsOf(state, parent, children) /\ Counting /\ Linked
  BY DEF CountInv, ClimbInv, Inv
<1>3. walk'.caller = p
  BY <1>1 DEF NotWalking
<1>4. PICK f, fs : f = Frame(p) /\ fs = frames'
  OBVIOUS
<1>5. f.task = p /\ f.at = 0 /\ f.sum = 0 /\ ~f.flag
  BY <1>4 DEF Frame
<1>6. Len(fs) = 1 /\ fs[1] = f /\ \A k : k \in 1..1 <=> k = 1
  BY <1>1, <1>4
<1>7. Chained(fs)
  BY <1>5, <1>6 DEF Chained
<1>8. PICK g : g = parent
  OBVIOUS
<1>9. g \in [Tasks -> Tasks] /\ g[0] = 0
  BY <1>2, <1>8 DEF Inv, TreeTypes, Rooted
<1>10. ASSUME NEW l \in steady'
       PROVE  /\ l \in Tasks /\ l # 0 /\ l # p /\ state[l] # "none" /\ children[l] = <<>>
              /\ p \in Anc(g, l)
  <2>1. /\ l \in Tasks /\ l # p /\ state[l] # "none" /\ children[l] = <<>> /\ p \in Anc(g, l)
    BY <1>1, <1>8, <1>10, AncestorsAre DEF LeavesBelow
  <2>2. l # 0
    BY <1>1, <1>9, <2>1, AncOfIdle
  <2> QED BY <2>1, <2>2
<1>11. children[p] \in Seq(Tasks) /\ Different(children[p])
  BY <1>2 DEF Inv, TreeTypes, ListsOf
<1>12. \A c : Ahead(children[p], 0, c) <=> Contains(children[p], c)
  BY <1>11, AheadFacts
<1>13. \A l \in steady' : SteadyLeaf(l)'
  BY <1>1, <1>3, <1>8, <1>10 DEF SteadyLeaf
<1>14. ASSUME NEW l \in steady' PROVE Covered(l)'
  <2>1. \E c \in Anc(g, l) : Contains(children[p], c)
    BY <1>1, <1>2, <1>8, <1>10, ChildBetween
  <2>2. WaitsIn(f, children, l, Anc(g, l))
    BY <1>5, <1>12, <2>1 DEF WaitsIn
  <2>3. Waits(fs, children, l, Anc(g, l))
    BY <1>6, <2>2 DEF Waits
  <2>4. counted' = <<>> /\ ~Contains(<<>>, l) /\ Once(<<>>, l)
    BY <1>1, <1>2, EmptyHolds DEF Counting, Once
  <2>5. parent' = g /\ children' = children
    BY <1>1, <1>8
  <2>6. Waits(frames, children, l, Anc(parent, l))' <=> Waits(fs, children, l, Anc(g, l))
    BY <1>4, <2>5
  <2> QED BY <2>3, <2>4, <2>6 DEF Covered
<1>15. Summed'
  <2>1. Done(f, FALSE, children, parent, steady') = {}
    BY <1>5, <1>12 DEF Done
  <2>2. SumOver(weight, {}) = 0
    BY <1>2, SumsHere
  <2>3. p \in Anc(g, p)
    BY <1>9, AncIs
  <2>4. SumRight(f, FALSE)'
    BY <1>1, <1>3, <1>5, <1>8, <2>1, <2>2, <2>3, WrapZero DEF SumRight
  <2>5. (1 < 1) = FALSE /\ ~(1 > 1)
    OBVIOUS
  <2>6. SumsRight(fs, 1)'
    BY <1>6, <2>4, <2>5 DEF SumsRight
  <2>7. steady' = LeavesBelow(walk.caller)'
    <3>1. \A l : Ancestors(l)' = Ancestors(l)
      BY <1>1, AncestorsAre
    <3> QED BY <1>1, <1>3, <3>1 DEF LeavesBelow
  <2> QED BY <1>4, <1>6, <2>6, <2>7 DEF Summed
<1> QED BY <1>1, <1>2, <1>3, <1>4, <1>7, <1>13, <1>14, <1>15 DEF Counting

LEMMA SumReturnsCounting ==
  ASSUME CountInv, SumReturns
  PROVE  Counting'
<1>1. frames' = <<>> /\ counted' = <<>> /\ during' = 0
  BY DEF SumReturns
<1>2. counted' \in Seq(Tasks)
  BY <1>1, EmptySeq
<1> QED BY <1>1, <1>2 DEF Counting, Summing

(* The other steps of the calls                                            *)
LEMMA OthersCounting ==
  ASSUME CountInv, \/ \E p \in Tasks : EnterWalk(p)
                   \/ Climb \/ Return \/ Lost \/ UNCHANGED vars
  PROVE  Counting'
<1>1. Inv /\ Counting
  BY DEF CountInv, ClimbInv
<1>2. CASE Lost \/ UNCHANGED vars
  <2>1. /\ UNCHANGED <<state, parent, children, weight, walk, steady>>
        /\ UNCHANGED <<frames, astray, counted, during>>
    BY <1>2 DEF Lost, vars, tree
  <2>2. \A l : Covered(l)' <=> Covered(l)
    BY <2>1 DEF Covered
  <2>3. Summed' <=> Summed
    BY <2>1, SumsKept DEF Summed
  <2> QED BY <1>1, <2>1, <2>2, <2>3, SumsKept DEF Counting, Summing
<1>3. CASE (\E p \in Tasks : EnterWalk(p)) \/ Climb \/ Return
  <2>1. ~Summing /\ UNCHANGED <<frames, counted>> /\ (during' = during \/ during' = 0)
    BY <1>1, <1>3 DEF EnterWalk, Climb, Return, Inv, Inside
  <2> QED BY <1>1, <2>1 DEF Counting, Summing
<1> QED BY <1>2, <1>3

-----------------------------------------------------------------------------
(* The tree changes                                                        *)

(* A list that changed has in one order what it had and has.               *)
LEMMA AheadKept ==
  ASSUME Inv, Inv', ListsOf(state, parent, children), ListsKept, NEW t \in Tasks,
         NEW at, at = 0 \/ Contains(children[t], at), at = 0 \/ Contains(children'[t], at),
         NEW c \in Tasks, c # 0, state[c] # "none", state'[c] # "none", parent'[c] = parent[c]
  PROVE  Ahead(children'[t], at, c) <=> Ahead(children[t], at, c)
<1>1. PICK s, r : s = children[t] /\ r = children'[t]
  OBVIOUS
<1>2. s \in Seq(Tasks) /\ r \in Seq(Tasks)
  BY <1>1 DEF Inv, TreeTypes
<1>3. Different(s) /\ Different(r)
  BY <1>1 DEF ListsOf, ListsKept
<1>4. Contains(s, c) <=> parent[c] = t
  BY <1>1, ChildrenAre
<1>5. Contains(r, c) <=> parent'[c] = t
  BY <1>1 DEF Inv, Linked, ListsKept, ListsOf
<1>6. (Ahead(s, at, c) => Contains(s, c)) /\ (Ahead(r, at, c) => Contains(r, c))
  BY <1>2, <1>3, AheadFacts
<1>7. Contains(s, c) /\ Contains(r, c) => (Ahead(r, at, c) <=> Ahead(s, at, c))
  <2>1. at = 0 \/ (Contains(children[t], at) /\ Contains(children'[t], at))
    OBVIOUS
  <2>2. SameOrder(children, children')
    BY DEF ListsKept
  <2>3. Contains(children[t], c) /\ Contains(children'[t], c)
          => (Ahead(children'[t], at, c) <=> Ahead(children[t], at, c))
    BY <2>1, <2>2 DEF SameOrder
  <2> QED BY <1>1, <2>3
<1> QED BY <1>1, <1>4, <1>5, <1>6, <1>7

(* Forks, exits and reapings: what the frames wait for above a steady leaf *)
(* is what they waited for.                                                *)
LEMMA ChangeCounting ==
  ASSUME CountInv, ClimbInv', ListsKept, Change
  PROVE  Counting'
<1>1. /\ UNCHANGED <<walk, frames, counted>>
      /\ astray' = (astray \/ \E i \in DOMAIN frames : ~OnList(frames[i])')
      /\ Summing => \A l \in steady' : /\ l \in steady /\ children'[l] = <<>>
                                       /\ parent'[l] = parent[l] /\ Ancestors(l)' = Ancestors(l)
      /\ during' = IF Summing THEN during + 1 ELSE 0
  <2>1. Watch
    BY DEF Change, SetWeight, Fork, Exit, Reap
  <2> QED BY <2>1 DEF Watch
<1>2. Inv /\ Rooted /\ ListsOf(state, parent, children) /\ Counting /\ Inv'
  BY DEF CountInv, ClimbInv
<1>3. during' \in Nat /\ (Summing => during' # 0) /\ Summing' = Summing
  BY <1>1, <1>2 DEF Counting, Summing
<1>4. CASE ~Summing \/ astray'
  BY <1>1, <1>2, <1>3, <1>4 DEF Counting
<1>5. CASE Summing /\ ~astray'
  <2>1. ~astray /\ Summing'
    BY <1>1, <1>3, <1>5
  <2>2. walk.caller # 0 /\ Chained(frames) /\ \A l \in steady : SteadyLeaf(l) /\ Covered(l)
    BY <1>2, <1>5, <2>1 DEF Counting
  <2>3. \A k \in 1..Len(frames) : frames[k] \in FrameType /\ OnList(frames[k])
    BY <1>2, <1>5, <2>1, Standing
  <2>4. \A k \in 1..Len(frames) : OnList(frames[k])'
    <3>1. DOMAIN frames = 1..Len(frames)
      BY <1>2, LenProperties DEF Inv, TreeTypes
    <3> QED BY <1>1, <1>5, <3>1
  <2>5. ASSUME NEW l \in steady' PROVE SteadyLeaf(l)' /\ Covered(l)'
    <3>1. /\ l \in steady /\ children'[l] = <<>> /\ parent'[l] = parent[l]
          /\ Anc(parent', l) = Anc(parent, l)
      BY <1>1, <1>5, AncestorsAre
    <3>2. /\ l \in Tasks /\ l # 0 /\ l # walk.caller /\ state[l] # "none" /\ children[l] = <<>>
          /\ walk.caller \in Anc(parent, l) /\ Covered(l)
      BY <2>2, <3>1 DEF SteadyLeaf
    <3>3. PICK A : A = Anc(parent, l)
      OBVIOUS
    <3>4. ASSUME NEW c \in A, c # 0
          PROVE  /\ c \in Tasks /\ state[c] # "none" /\ state'[c] # "none" /\ parent'[c] = parent[c]
      BY <1>2, <3>1, <3>2, <3>3, <3>4, PathKept
    <3>5. l \in A
      <4>1. PICK g : g = parent
        OBVIOUS
      <4>2. g \in [Tasks -> Tasks]
        BY <1>2, <4>1 DEF Inv, TreeTypes
      <4> QED BY <3>2, <3>3, <4>1, <4>2, AncIs
    <3>6. SteadyLeaf(l)'
      BY <1>1, <3>1, <3>2, <3>4, <3>5 DEF SteadyLeaf
    <3>7. ASSUME NEW k \in 1..Len(frames)
          PROVE  WaitsIn(frames[k], children', l, A) <=> WaitsIn(frames[k], children, l, A)
      <4>1. PICK f : f = frames[k]
        OBVIOUS
      <4>2. /\ f.task \in Tasks
            /\ f.at = 0 \/ Contains(children[f.task], f.at)
            /\ f.at = 0 \/ Contains(children'[f.task], f.at)
        <5>1. f \in FrameType /\ OnList(f)
          BY <2>3, <4>1
        <5>2. OnList(f)'
          BY <1>1, <2>4, <4>1
        <5> QED BY <5>1, <5>2 DEF FrameType, OnList
      <4>3. ASSUME NEW c \in A
            PROVE  Ahead(children'[f.task], f.at, c) <=> Ahead(children[f.task], f.at, c)
        <5>1. CASE c = 0
          <6>1. ~Contains(children[f.task], 0) /\ ~Contains(children'[f.task], 0)
            BY <1>2, <4>2 DEF ListsOf, ListsKept
          <6>2. /\ children[f.task] \in Seq(Tasks) /\ Different(children[f.task])
                /\ children'[f.task] \in Seq(Tasks) /\ Different(children'[f.task])
            BY <1>2, <4>2 DEF Inv, TreeTypes, ListsOf, ListsKept
          <6>3. ~Ahead(children[f.task], f.at, 0) /\ ~Ahead(children'[f.task], f.at, 0)
            BY <6>1, <6>2, AheadFacts
          <6> QED BY <5>1, <6>3
        <5>2. CASE c # 0
          <6>1. /\ c \in Tasks /\ state[c] # "none" /\ state'[c] # "none"
                /\ parent'[c] = parent[c]
            BY <3>4, <5>2
          <6> QED BY <1>2, <4>2, <5>2, <6>1, AheadKept
        <5> QED BY <5>1, <5>2
      <4> QED BY <4>1, <4>3 DEF WaitsIn
    <3>8. Waits(frames, children', l, A) <=> Waits(frames, children, l, A)
      BY <3>7 DEF Waits
    <3>9. Waits(frames, children, l, Anc(parent, l))' <=> Waits(frames, children', l, A)
      BY <1>1, <3>1, <3>3
    <3>10. Covered(l)'
      BY <1>1, <3>2, <3>3, <3>8, <3>9 DEF Covered
    <3> QED BY <3>6, <3>10
  <2> QED BY <1>1, <1>2, <1>3, <1>5, <2>1, <2>2, <2>5 DEF Counting
<1> QED BY <1>4, <1>5

LEMMA CountInvInit == Init => CountInv
  BY ClimbInvInit, ListsInit, CountingInit DEF CountInv

(* One case for each action                                                *)
LEMMA CountInvNext == CountInv /\ [Next]_vars => CountInv'
<1> SUFFICES ASSUME CountInv, [Next]_vars PROVE CountInv'
  OBVIOUS
<1>1. ClimbInv' /\ Inv /\ Rooted /\ ListsOf(state, parent, children)
  BY ClimbInvNext DEF CountInv, ClimbInv
<1>2. ListsKept
  <2>1. CASE Change
    BY <1>1, <2>1, ChangeLists
  <2>2. CASE ~Change
    <3>1. UNCHANGED <<state, parent, children>>
      BY <2>2 DEF Next, EnterWalk, EnterSum, Climb, Return, LeafSum, traverse_children_sum_weight,
         TraverseReturns, SumReturns, Lost, vars, tree
    <3> QED BY <1>1, <3>1, TreeLists
  <2> QED BY <2>1, <2>2
<1> SUFFICES Counting'
  BY <1>1, <1>2 DEF CountInv, ListsKept
<1>3. CASE Change
  BY <1>1, <1>2, <1>3, ChangeCounting
<1>4. CASE \E p \in Tasks : EnterSum(p)
  BY <1>4, EnterSumCounting
<1>5. CASE LeafSum
  BY <1>5, EnterCounting, ReturnCounting, SumReturnsCounting DEF LeafSum
<1>6. CASE \/ \E p \in Tasks : EnterWalk(p)
           \/ Climb \/ Return \/ Lost \/ UNCHANGED vars
  BY <1>6, OthersCounting
<1> QED BY <1>3, <1>4, <1>5, <1>6 DEF Next

(* What the last step of the call answers                                  *)
LeafSumStep ==
  Summing /\ ~Summing' =>
    /\ \A l \in steady : Cardinality({i \in DOMAIN counted : counted[i] = l}) = 1
    /\ during = 0 => sys_get_leaf_children_sum =
                  IF steady = {} THEN -ECHILD
                  ELSE Int32(MapThenSumSet(LAMBDA l : weight[l], steady))

(* At the end nothing is waited for.                                       *)
LEMMA AnswerIsSum == CountInv /\ [Next]_vars => LeafSumStep
<1> SUFFICES ASSUME CountInv, [Next]_vars, Summing, ~Summing' PROVE LeafSumStep
  BY DEF LeafSumStep
<1>1. Inv /\ Rooted /\ ListsOf(state, parent, children) /\ Counting
  BY DEF CountInv, ClimbInv
<1>2. SumReturns
  <2>1. frames # <<>> /\ frames' = <<>> /\ ~Walking
    BY <1>1 DEF Summing, Inv, Inside
  <2>2. ASSUME traverse_children_sum_weight PROVE FALSE
    <3>1. PICK m : Entered(frames, frames', m, NextLink(Top))
      BY <1>1, <2>2, FramesEnter
    <3>2. PICK t : t = frames'
      OBVIOUS
    <3>3. Len(t) = m + 2 /\ m \in Nat
      BY <3>1, <3>2 DEF Entered
    <3> QED BY <2>1, <3>2, <3>3, EmptySeq
  <2>3. ASSUME TraverseReturns PROVE FALSE
    <3>1. PICK m : Left(frames, frames', m, Sum)
      BY <1>1, <2>3, FramesReturn
    <3>2. PICK t : t = frames'
      OBVIOUS
    <3>3. Len(t) = m + 1 /\ m \in Nat
      BY <3>1, <3>2 DEF Left
    <3> QED BY <2>1, <3>2, <3>3, EmptySeq
  <2>4. ~Change /\ ~(\E p \in Tasks : EnterWalk(p) \/ EnterSum(p)) /\ ~Climb /\ ~Return /\ ~Lost
        /\ ~(UNCHANGED vars)
    BY <2>1 DEF Summing, Change, SetWeight, Fork, Exit, Reap, Watch, EnterWalk, EnterSum, Climb,
       Return, Lost, vars
  <2> QED BY <2>2, <2>3, <2>4 DEF Next, LeafSum
<1>3. /\ ~astray /\ NextLink(Top) = 0 /\ Len(frames) = 1
  BY <1>2 DEF SumReturns, InLists
<1>4. /\ counted \in Seq(Tasks) /\ walk.caller # 0 /\ Chained(frames)
      /\ \A l \in steady : SteadyLeaf(l) /\ Covered(l)
      /\ during = 0 => Summed
  BY <1>1, <1>3 DEF Counting
<1>5. PICK f : f = frames[1]
  OBVIOUS
<1>6. /\ f \in FrameType /\ OnList(f) /\ f = Top /\ f.task = walk.caller /\ walk.caller \in Tasks
      /\ f.flag => f.at # 0
      /\ f.at # 0 => f.flag
  <2>1. 1 \in 1..Len(frames) /\ ~(1 < Len(frames))
    BY <1>3
  <2>2. f \in FrameType /\ OnList(f) /\ walk.caller \in Tasks
    BY <1>1, <1>3, <1>5, <2>1, Standing
  <2>3. f = Top
    BY <1>1, <1>3, <1>5, TopFrame DEF InLists
  <2>4. (f.flag => f.at # 0) /\ (f.at # 0 => f.flag)
    BY <1>3, <1>4, <1>5, <2>1 DEF Chained
  <2>5. f.task = walk.caller
    BY <1>1, <1>5 DEF Inv, Inside
  <2> QED BY <2>2, <2>3, <2>4, <2>5
<1>7. ASSUME NEW l \in steady
      PROVE  Cardinality({i \in DOMAIN counted : counted[i] = l}) = 1
  <2>1. l \in Tasks /\ l # walk.caller /\ Covered(l)
    BY <1>4 DEF SteadyLeaf
  <2>2. PICK A : A = Anc(parent, l)
    OBVIOUS
  <2>3. ~WaitsIn(f, children, l, A)
    <3>1. NextLink(f) = 0
      BY <1>3, <1>6
    <3> QED BY <1>1, <1>6, <2>1, <3>1, EndWaits
  <2>4. ~Waits(frames, children, l, A)
    <3>1. \A k \in 1..Len(frames) : k = 1
      BY <1>3
    <3> QED BY <1>5, <2>3, <3>1 DEF Waits
  <2>5. Contains(counted, l) /\ Once(counted, l)
    BY <2>1, <2>2, <2>4 DEF Covered
  <2>6. PICK i \in DOMAIN counted : counted[i] = l
    BY <1>4, <2>5, LenProperties DEF Contains
  <2>7. {j \in DOMAIN counted : counted[j] = l} = {i}
    BY <2>5, <2>6 DEF Once
  <2> QED BY <2>7, FS_Singleton
<1>8. ASSUME during = 0
      PROVE  sys_get_leaf_children_sum =
               IF steady = {} THEN -ECHILD
               ELSE Int32(MapThenSumSet(LAMBDA l : weight[l], steady))
  <2>1. steady = LeavesBelow(walk.caller) /\ SumsRight(frames, Len(frames))
    BY <1>4, <1>8 DEF Summed
  <2>2. SumRight(f, FALSE)
    <3>1. 1 \in 1..Len(frames) /\ (1 < Len(frames)) = FALSE
      BY <1>3
    <3>2. SumRight(frames[1], 1 < Len(frames))
      BY <2>1, <3>1 DEF SumsRight
    <3> QED BY <1>5, <3>1, <3>2
  <2>3. PICK c : c = walk.caller
    OBVIOUS
  <2>4. Under(c) = steady /\ c \notin steady
    BY <1>4, <2>3 DEF Under, SteadyLeaf
  <2>5. /\ f.flag => f.sum = Int32(SumOver(weight, Under(c) \ {c})) /\ Under(c) \ {c} # {}
        /\ ~f.flag => Under(c) \subseteq {c}
    <3>1. NextLink(f) = 0
      BY <1>3, <1>6
    <3> QED BY <1>1, <1>4, <1>6, <2>1, <2>2, <2>3, <3>1, ReturnedSum
  <2>6. Under(c) \ {c} = steady
    BY <2>4
  <2>7. MapThenSumSet(LAMBDA l : weight[l], steady) = SumOver(weight, steady)
    BY SumIs
  <2>8. sys_get_leaf_children_sum = IF f.flag THEN f.sum ELSE -ECHILD
    BY <1>6 DEF sys_get_leaf_children_sum
  <2>9. f.flag => sys_get_leaf_children_sum = Int32(SumOver(weight, steady)) /\ steady # {}
    BY <2>5, <2>6, <2>8
  <2>10. ~f.flag => sys_get_leaf_children_sum = -ECHILD /\ steady = {}
    BY <2>4, <2>5, <2>8
  <2> QED BY <2>7, <2>9, <2>10
<1> QED BY <1>7, <1>8 DEF LeafSumStep

(* Whatever others fork, reap or reparent while it runs, when              *)
(* sys_get_leaf_children_sum returns it has counted each leaf that was     *)
(* below the caller all along, once; and if nothing changed its answer is  *)
(* the sum of their weights, as an int, or -ECHILD if there is none.       *)
THEOREM LeavesCounted == Spec => LeafSumExact
<1>1. [][LeafSumStep]_vars <=> LeafSumExact
  BY DEF LeafSumStep, LeafSumExact
<1>2. Init => CountInv
  BY CountInvInit
<1>3. CountInv /\ [Next]_vars => CountInv'
  BY CountInvNext
<1>4. CountInv /\ [Next]_vars => [LeafSumStep]_vars
  BY AnswerIsSum
<1> QED BY <1>1, <1>2, <1>3, <1>4, PTL DEF Spec

=============================================================================
