--------------------------- MODULE EndToEndProofs ---------------------------
(***************************************************************************)
(* The device is restored: Recovers holds in every reachable state, for    *)
(* any number of threads, mounts, blocks, objects and epochs, when the     *)
(* module is used as in EpochCountProofs and no file is written before the *)
(* mount call has returned.  Before that: EndToEnd implements DeviceEpochs *)
(* and so has its safety invariants.                                       *)
(***************************************************************************)
EXTENDS EndToEnd, EpochCountProofs

-----------------------------------------------------------------------------
(* A queue and what its make_snapshot works carry.  The block of the work  *)
(* at place i is as far back in load as there are make_snapshot works up   *)
(* to i.                                                                   *)

Rank(q, i) == Cardinality({j \in 1..i : q[j].kind = "snap"})
BlockAt(q, l, i) == l[Rank(q, i)]
Aligned(q, l) == Len(l) = Rank(q, Len(q))

Records == [blk : Blocks, old : Contents]

(* Ranks are natural numbers and grow; a make_snapshot work counts itself. *)
LEMMA RankFacts ==
  ASSUME NEW q, NEW i \in Nat
  PROVE  /\ Rank(q, i) \in Nat
         /\ \A j \in Nat : j <= i => Rank(q, j) <= Rank(q, i)
         /\ i >= 1 /\ q[i].kind = "snap" => Rank(q, i) >= 1
         /\ i > 1 /\ q[i].kind = "snap" /\ q[1].kind = "snap" => Rank(q, i) >= 2
  <1> DEFINE S(n) == {j \in 1..n : q[j].kind = "snap"}
  <1>1. ASSUME NEW n \in Nat
        PROVE  IsFiniteSet(S(n)) /\ Cardinality(S(n)) \in Nat
    <2>1. IsFiniteSet(1..n)
      BY FS_Interval
    <2>2. S(n) \subseteq 1..n
      OBVIOUS
    <2>3. QED
      BY <2>1, <2>2, FS_Subset, FS_CardinalityType
  <1>2. Rank(q, i) = Cardinality(S(i))
    BY DEF Rank
  <1>3. ASSUME NEW j \in Nat, j <= i
        PROVE  Rank(q, j) <= Rank(q, i)
    <2>1. S(j) \subseteq S(i)
      BY <1>3
    <2>2. Cardinality(S(j)) <= Cardinality(S(i))
      BY <1>1, <2>1, FS_Subset
    <2>3. QED
      BY <2>2 DEF Rank
  <1>4. ASSUME i >= 1, q[i].kind = "snap"
        PROVE  Rank(q, i) >= 1
    <2>1. i \in S(i)
      BY <1>4
    <2>2. {i} \subseteq S(i)
      BY <2>1
    <2>3. Cardinality({i}) <= Cardinality(S(i))
      BY <1>1, <2>2, FS_Subset
    <2>4. QED
      BY <1>1, <1>2, <2>3, FS_Singleton
  <1>5. ASSUME i > 1, q[i].kind = "snap", q[1].kind = "snap"
        PROVE  Rank(q, i) >= 2
    <2>1. {1, i} \subseteq S(i)
      BY <1>5
    <2>2. IsFiniteSet({1}) /\ Cardinality({1}) = 1
      BY FS_Singleton
    <2>3. Cardinality({1} \cup {i}) = 2
      <3>1. i \notin {1}
        BY <1>5
      <3>2. Cardinality({1} \cup {i}) =
              IF i \in {1} THEN Cardinality({1}) ELSE Cardinality({1}) + 1
        BY <2>2, FS_AddElement
      <3>3. QED
        BY <2>2, <3>1, <3>2
    <2>4. {1, i} = {1} \cup {i}
      OBVIOUS
    <2>5. Cardinality({1} \cup {i}) <= Cardinality(S(i))
      <3> HIDE DEF S
      <3>1. IsFiniteSet(S(i)) /\ {1} \cup {i} \in SUBSET S(i)
        BY <1>1, <2>1, <2>4
      <3>2. QED
        BY <3>1, FS_Subset
    <2>6. QED
      BY <1>1, <1>2, <2>3, <2>5
  <1>6. QED
    BY <1>1, <1>2, <1>3, <1>4, <1>5

(* A work at the end changes no rank but its own. *)
LEMMA RankAppend ==
  ASSUME NEW q \in Seq(Works), NEW x \in Works
  PROVE  /\ \A i \in 0..Len(q) : Rank(Append(q, x), i) = Rank(q, i)
         /\ Rank(Append(q, x), Len(q) + 1) =
               IF x.kind = "snap" THEN Rank(q, Len(q)) + 1 ELSE Rank(q, Len(q))
  <1> DEFINE p == Append(q, x)
             n == Len(q)
             S(s, m) == {j \in 1..m : s[j].kind = "snap"}
  <1>1. /\ n \in Nat
        /\ \A j \in 1..n : p[j] = q[j]
        /\ p[n + 1] = x
    OBVIOUS
  <1>2. \A i \in 0..n : S(p, i) = S(q, i)
    BY <1>1
  <1>3. IsFiniteSet(S(q, n)) /\ n + 1 \notin S(q, n)
    <2>1. IsFiniteSet(1..n)
      BY <1>1, FS_Interval
    <2>2. S(q, n) \subseteq 1..n
      OBVIOUS
    <2>3. n + 1 \notin 1..n
      BY <1>1
    <2>4. QED
      BY <2>1, <2>2, <2>3, FS_Subset
  <1>4. S(p, n + 1) = IF x.kind = "snap" THEN S(q, n) \cup {n + 1} ELSE S(q, n)
    <2>1. 1..(n + 1) = (1..n) \cup {n + 1}
      BY <1>1
    <2>2. ASSUME NEW j
          PROVE  j \in S(p, n + 1) <=> j \in S(q, n) \/ (j = n + 1 /\ x.kind = "snap")
      BY <1>1, <2>1
    <2>3. QED
      BY <2>2
  <1>5. Cardinality(S(p, n + 1)) =
          IF x.kind = "snap" THEN Cardinality(S(q, n)) + 1 ELSE Cardinality(S(q, n))
    BY <1>3, <1>4, FS_AddElement
  <1>6. QED
    BY <1>2, <1>5 DEF Rank

(* The head taken off, the ranks behind it go down by its own. *)
LEMMA RankTail ==
  ASSUME NEW q \in Seq(Works), q # <<>>
  PROVE  \A i \in 0..(Len(q) - 1) :
            Rank(q, i + 1) = Rank(Tail(q), i) + IF q[1].kind = "snap" THEN 1 ELSE 0
  <1> DEFINE S(s, m) == {j \in 1..m : s[j].kind = "snap"}
  <1>1. /\ Len(q) \in Nat /\ Len(q) >= 1
        /\ \A j \in 1..(Len(q) - 1) : Tail(q)[j] = q[j + 1]
    OBVIOUS
  <1>2. SUFFICES ASSUME NEW i \in 0..(Len(q) - 1)
                 PROVE  Rank(q, i + 1) =
                          Rank(Tail(q), i) + IF q[1].kind = "snap" THEN 1 ELSE 0
    OBVIOUS
  <1>3. i \in Nat /\ i <= Len(q) - 1
    BY <1>1
  <1> DEFINE A == S(Tail(q), i)
             B == S(q, i + 1) \ {1}
             f == [j \in A |-> j + 1]
  <1>4. IsFiniteSet(A) /\ IsFiniteSet(S(q, i + 1))
    <2>1. IsFiniteSet(1..i) /\ IsFiniteSet(1..(i + 1))
      BY <1>3, FS_Interval
    <2>2. A \subseteq 1..i /\ S(q, i + 1) \subseteq 1..(i + 1)
      OBVIOUS
    <2>3. QED
      BY <2>1, <2>2, FS_Subset
  <1>5. \A j \in A : j \in Nat /\ j + 1 \in B
    BY <1>1, <1>3
  <1>6. \A k \in B : k \in Nat /\ k - 1 \in A /\ (k - 1) + 1 = k
    BY <1>1, <1>3
  <1>7. f \in Bijection(A, B)
    <2> HIDE DEF A, B
    <2>1. f \in [A -> B]
      BY <1>5
    <2>2. IsInjective(f)
      BY <1>5 DEF IsInjective
    <2>3. \A k \in B : \E j \in A : f[j] = k
      BY <1>6
    <2>4. QED
      BY <2>1, <2>2, <2>3 DEF Bijection, Injection, Surjection
  <1>8. ExistsBijection(A, B)
    BY <1>7 DEF ExistsBijection
  <1>9. Cardinality(B) = Cardinality(A) /\ Cardinality(A) \in Nat
    BY <1>4, <1>8, FS_Bijection, FS_CardinalityType
  <1>10. 1 \in S(q, i + 1) <=> q[1].kind = "snap"
    BY <1>3
  <1>11. Cardinality(B) = IF q[1].kind = "snap" THEN Cardinality(S(q, i + 1)) - 1
                          ELSE Cardinality(S(q, i + 1))
    BY <1>4, <1>10, FS_RemoveElement
  <1>12. Cardinality(S(q, i + 1)) \in Nat
    BY <1>4, FS_CardinalityType
  <1>13. Rank(q, i + 1) = Cardinality(S(q, i + 1)) /\ Rank(Tail(q), i) = Cardinality(A)
    BY DEF Rank
  <1>14. QED
    <2> HIDE DEF S, A, B
    <2>1. QED
      BY <1>9, <1>11, <1>12, <1>13

(* A work and its block are queued; a cleanup work is queued. *)
LEMMA LoadAppend ==
  ASSUME NEW q \in Seq(Works), NEW l \in Seq(Records), Aligned(q, l),
         NEW x \in Works, NEW y \in Records
  PROVE  /\ x.kind = "snap" =>
               /\ Aligned(Append(q, x), Append(l, y))
               /\ \A i \in 1..Len(q) : q[i].kind = "snap" =>
                     BlockAt(Append(q, x), Append(l, y), i) = BlockAt(q, l, i)
               /\ BlockAt(Append(q, x), Append(l, y), Len(q) + 1) = y
         /\ x.kind # "snap" =>
               /\ Aligned(Append(q, x), l)
               /\ \A i \in 1..Len(q) : BlockAt(Append(q, x), l, i) = BlockAt(q, l, i)
  <1>1. /\ Len(q) \in Nat /\ Len(l) \in Nat /\ Len(Append(q, x)) = Len(q) + 1
        /\ Len(Append(l, y)) = Len(l) + 1
        /\ \A j \in 1..Len(l) : Append(l, y)[j] = l[j]
        /\ Append(l, y)[Len(l) + 1] = y
    OBVIOUS
  <1>2. Len(l) = Rank(q, Len(q))
    BY DEF Aligned
  <1>3. /\ \A i \in 0..Len(q) : Rank(Append(q, x), i) = Rank(q, i)
        /\ Rank(Append(q, x), Len(q) + 1) =
             IF x.kind = "snap" THEN Rank(q, Len(q)) + 1 ELSE Rank(q, Len(q))
    BY RankAppend
  <1>4. ASSUME NEW i \in 1..Len(q), q[i].kind = "snap"
        PROVE  Rank(q, i) \in 1..Len(l)
    <2>1. i \in Nat /\ i <= Len(q) /\ i >= 1
      BY <1>1
    <2>2. Rank(q, i) \in Nat /\ Rank(q, i) >= 1
      BY <1>4, <2>1, RankFacts
    <2>3. Rank(q, i) <= Rank(q, Len(q))
      BY <1>1, <2>1, RankFacts
    <2>4. QED
      BY <1>1, <1>2, <2>2, <2>3
  <1>5. ASSUME x.kind = "snap"
        PROVE  /\ Aligned(Append(q, x), Append(l, y))
               /\ \A i \in 1..Len(q) : q[i].kind = "snap" =>
                     BlockAt(Append(q, x), Append(l, y), i) = BlockAt(q, l, i)
               /\ BlockAt(Append(q, x), Append(l, y), Len(q) + 1) = y
    <2>1. Aligned(Append(q, x), Append(l, y))
      BY <1>1, <1>2, <1>3, <1>5 DEF Aligned
    <2>2. ASSUME NEW i \in 1..Len(q), q[i].kind = "snap"
          PROVE  BlockAt(Append(q, x), Append(l, y), i) = BlockAt(q, l, i)
      <3>1. Rank(Append(q, x), i) = Rank(q, i)
        BY <1>1, <1>3
      <3>2. Append(l, y)[Rank(q, i)] = l[Rank(q, i)]
        BY <1>1, <1>4, <2>2
      <3>3. QED
        BY <3>1, <3>2 DEF BlockAt
    <2>3. BlockAt(Append(q, x), Append(l, y), Len(q) + 1) = y
      BY <1>1, <1>2, <1>3, <1>5 DEF BlockAt
    <2>4. QED
      BY <2>1, <2>2, <2>3
  <1>6. ASSUME x.kind # "snap"
        PROVE  /\ Aligned(Append(q, x), l)
               /\ \A i \in 1..Len(q) : BlockAt(Append(q, x), l, i) = BlockAt(q, l, i)
    BY <1>1, <1>2, <1>3, <1>6 DEF Aligned, BlockAt
  <1>7. QED
    BY <1>5, <1>6

(* The work at the head leaves, and its block with it if it has one. *)
LEMMA LoadTail ==
  ASSUME NEW q \in Seq(Works), NEW l \in Seq(Records), Aligned(q, l), q # <<>>
  PROVE  /\ q[1].kind = "snap" =>
               /\ l # <<>>
               /\ Head(l) = BlockAt(q, l, 1)
               /\ Aligned(Tail(q), Tail(l))
               /\ \A i \in 1..(Len(q) - 1) : q[i + 1].kind = "snap" =>
                     BlockAt(Tail(q), Tail(l), i) = BlockAt(q, l, i + 1)
         /\ q[1].kind # "snap" =>
               /\ Aligned(Tail(q), l)
               /\ \A i \in 1..(Len(q) - 1) : BlockAt(Tail(q), l, i) = BlockAt(q, l, i + 1)
  <1>1. /\ Len(q) \in Nat /\ Len(q) >= 1 /\ Len(l) \in Nat /\ Len(Tail(q)) = Len(q) - 1
        /\ l # <<>> => /\ Len(Tail(l)) = Len(l) - 1 /\ Head(l) = l[1]
                       /\ \A j \in 1..(Len(l) - 1) : Tail(l)[j] = l[j + 1]
        /\ Len(l) >= 1 => l # <<>>
    OBVIOUS
  <1>2. Len(l) = Rank(q, Len(q))
    BY DEF Aligned
  <1>3. \A i \in 0..(Len(q) - 1) :
            Rank(q, i + 1) = Rank(Tail(q), i) + IF q[1].kind = "snap" THEN 1 ELSE 0
    BY RankTail
  <1>4. \A i \in Nat : Rank(q, i) \in Nat /\ Rank(Tail(q), i) \in Nat
    BY RankFacts
  <1>5. Rank(q, 1) = IF q[1].kind = "snap" THEN 1 ELSE 0
    <2>1. Rank(Tail(q), 0) = 0
      <3>1. {j \in 1..0 : Tail(q)[j].kind = "snap"} = {}
        OBVIOUS
      <3>2. QED
        BY <3>1, FS_EmptySet DEF Rank
    <2>2. 0 \in 0..(Len(q) - 1) /\ 0 + 1 = 1
      BY <1>1
    <2>3. QED
      BY <1>3, <2>1, <2>2
  <1>6. Rank(q, Len(q)) = Rank(Tail(q), Len(q) - 1) + IF q[1].kind = "snap" THEN 1 ELSE 0
    <2>1. Len(q) - 1 \in 0..(Len(q) - 1) /\ (Len(q) - 1) + 1 = Len(q)
      BY <1>1
    <2>2. QED
      BY <1>3, <2>1
  <1>7. ASSUME q[1].kind = "snap"
        PROVE  /\ l # <<>>
               /\ Head(l) = BlockAt(q, l, 1)
               /\ Aligned(Tail(q), Tail(l))
               /\ \A i \in 1..(Len(q) - 1) : q[i + 1].kind = "snap" =>
                     BlockAt(Tail(q), Tail(l), i) = BlockAt(q, l, i + 1)
    <2>1. Len(l) >= 1
      <3>1. Rank(q, 1) <= Rank(q, Len(q))
        BY <1>1, RankFacts
      <3>2. QED
        BY <1>2, <1>5, <1>7, <3>1
    <2>2. l # <<>> /\ Head(l) = BlockAt(q, l, 1)
      BY <1>1, <1>5, <1>7, <2>1 DEF BlockAt
    <2>3. Aligned(Tail(q), Tail(l))
      <3>1. Len(q) - 1 \in Nat
        BY <1>1
      <3>2. Rank(Tail(q), Len(q) - 1) = Len(l) - 1
        BY <1>1, <1>2, <1>4, <1>6, <1>7, <3>1
      <3>3. QED
        BY <1>1, <2>2, <3>2 DEF Aligned
    <2>4. ASSUME NEW i \in 1..(Len(q) - 1), q[i + 1].kind = "snap"
          PROVE  BlockAt(Tail(q), Tail(l), i) = BlockAt(q, l, i + 1)
      <3>1. i \in Nat /\ i + 1 \in Nat /\ i + 1 > 1 /\ i + 1 <= Len(q) /\ i \in 0..(Len(q) - 1)
        BY <1>1
      <3>2. Rank(q, i + 1) >= 2
        BY <1>7, <2>4, <3>1, RankFacts
      <3>3. Rank(q, i + 1) <= Len(l)
        BY <1>1, <1>2, <3>1, RankFacts
      <3>4. Rank(q, i + 1) = Rank(Tail(q), i) + 1
        BY <1>3, <1>7, <3>1
      <3>5. Rank(Tail(q), i) \in 1..(Len(l) - 1)
        <4>1. Rank(Tail(q), i) \in Nat /\ Len(l) \in Nat
          BY <1>1, <1>4, <3>1
        <4>2. QED
          BY <3>2, <3>3, <3>4, <4>1
      <3>6. QED
        BY <1>1, <2>2, <3>4, <3>5 DEF BlockAt
    <2>5. QED
      BY <2>2, <2>3, <2>4
  <1>8. ASSUME q[1].kind # "snap"
        PROVE  /\ Aligned(Tail(q), l)
               /\ \A i \in 1..(Len(q) - 1) : BlockAt(Tail(q), l, i) = BlockAt(q, l, i + 1)
    <2>1. \A i \in 0..(Len(q) - 1) : Rank(q, i + 1) = Rank(Tail(q), i)
      <3>1. \A i \in 0..(Len(q) - 1) : i \in Nat
        BY <1>1
      <3>2. ASSUME NEW i \in 0..(Len(q) - 1)
            PROVE  Rank(q, i + 1) = Rank(Tail(q), i)
        <4>1. Rank(Tail(q), i) \in Nat
          BY <1>4, <3>1
        <4>2. QED
          BY <1>3, <1>8, <3>1, <4>1
      <3>3. QED
        BY <3>2
    <2>2. Rank(Tail(q), Len(q) - 1) = Len(l)
      <3>1. Len(q) - 1 \in 0..(Len(q) - 1) /\ (Len(q) - 1) + 1 = Len(q)
        BY <1>1
      <3>2. QED
        BY <1>2, <2>1, <3>1
    <2>3. \A i \in 1..(Len(q) - 1) : i \in 0..(Len(q) - 1)
      BY <1>1
    <2>4. QED
      BY <1>1, <2>1, <2>2, <2>3 DEF Aligned, BlockAt
  <1>9. QED
    BY <1>7, <1>8


-----------------------------------------------------------------------------
(* What saves a block of an epoch.  The parameters are the epoch k, the    *)
(* device d and what it was before, bs, the snapshot s, the queues Q with  *)
(* their blocks L, and what is changed but not yet queued, F.              *)

WorkOf(q, i, k) == i \in 1..Len(q) /\ q[i].kind = "snap" /\ q[i].ep = k

Kept(k, s, Q, L, b) ==
    \/ b \in DOMAIN s
    \/ \E o \in Objs : \E i \in Nat : WorkOf(Q[o], i, k) /\ BlockAt(Q[o], L[o], i).blk = b

\* A work carries what the block was, unless the block is saved, or will be by
\* a work further ahead
FirstOf(k, s, q, l, i) ==
    /\ BlockAt(q, l, i).blk \notin DOMAIN s
    /\ \A j \in Nat : WorkOf(q, j, k) /\ j < i =>
           BlockAt(q, l, j).blk # BlockAt(q, l, i).blk
SoundWork(k, bs, s, q, l, i) ==
    /\ q[i].dated
    /\ FirstOf(k, s, q, l, i) => BlockAt(q, l, i).old = bs[BlockAt(q, l, i).blk]

Sound(k, d, bs, s, Q, L, F) ==
    /\ \A b \in DOMAIN s : s[b] = bs[b]
    /\ \A o \in Objs : \A i \in Nat :
           WorkOf(Q[o], i, k) => SoundWork(k, bs, s, Q[o], L[o], i)
    /\ \A f \in F : ~Kept(k, s, Q, L, f.blk) => f.old = bs[f.blk]
    /\ \A b \in Blocks : \/ d[b] = bs[b]
                         \/ Kept(k, s, Q, L, b)
                         \/ \E f \in F : f.blk = b

(* An epoch begins: nothing has been changed. *)
LEMMA SoundNew ==
  ASSUME NEW k, NEW bs, NEW s, NEW Q, NEW L,
         DOMAIN s = {}, \A o \in Objs : \A i \in Nat : ~WorkOf(Q[o], i, k)
  PROVE  Sound(k, bs, bs, s, Q, L, {})
  BY DEF Sound

(* A block is changed. *)
LEMMA SoundChange ==
  ASSUME NEW k, NEW d \in [Blocks -> Contents], NEW bs, NEW s, NEW Q, NEW L,
         NEW b \in Blocks, NEW v \in Contents, Sound(k, d, bs, s, Q, L, {})
  PROVE  Sound(k, [d EXCEPT ![b] = v], bs, s, Q, L, {[blk |-> b, old |-> d[b]]})
  <1> DEFINE f == [blk |-> b, old |-> d[b]]
  <1>1. /\ \A c \in DOMAIN s : s[c] = bs[c]
        /\ \A o \in Objs : \A i \in Nat :
               WorkOf(Q[o], i, k) => SoundWork(k, bs, s, Q[o], L[o], i)
        /\ \A c \in Blocks : d[c] = bs[c] \/ Kept(k, s, Q, L, c)
    BY DEF Sound
  <1>2. f.blk = b /\ f.old = d[b]
    OBVIOUS
  <1>3. \A c \in Blocks : c # b => [d EXCEPT ![b] = v][c] = d[c]
    OBVIOUS
  <1>4. QED
    <2> HIDE DEF f
    <2>1. \A g \in {f} : ~Kept(k, s, Q, L, g.blk) => g.old = bs[g.blk]
      BY <1>1, <1>2
    <2>2. \A c \in Blocks : \/ [d EXCEPT ![b] = v][c] = bs[c]
                            \/ Kept(k, s, Q, L, c)
                            \/ \E g \in {f} : g.blk = c
      BY <1>1, <1>2, <1>3
    <2>3. Sound(k, [d EXCEPT ![b] = v], bs, s, Q, L, {f})
      BY <1>1, <2>1, <2>2 DEF Sound
    <2>4. QED
      BY <2>3 DEF f

(* The works of k move up by c places in their queue, or stay. *)
Moved(q, l, p, m, k, c) ==
    /\ \A i \in Nat : WorkOf(p, i, k) =>
           /\ WorkOf(q, i + c, k)
           /\ p[i].dated = q[i + c].dated
           /\ BlockAt(p, m, i) = BlockAt(q, l, i + c)
    /\ \A i \in Nat : WorkOf(q, i, k) => \/ i = 1 /\ c = 1
                                         \/ i - c \in Nat /\ WorkOf(p, i - c, k)

(* The epoch stays sound when its works move up. *)
LEMMA SoundMoved ==
  ASSUME NEW k, NEW d, NEW bs, NEW s, NEW Q, NEW L, NEW F, NEW P, NEW M,
         Sound(k, d, bs, s, Q, L, F),
         \A o \in Objs : \E c \in {0, 1} :
             /\ Moved(Q[o], L[o], P[o], M[o], k, c)
             /\ c = 1 => ~WorkOf(Q[o], 1, k)
  PROVE  Sound(k, d, bs, s, P, M, F)
  <1>1. ASSUME NEW o \in Objs, NEW i \in Nat, WorkOf(P[o], i, k)
        PROVE  SoundWork(k, bs, s, P[o], M[o], i)
    <2>1. PICK c \in {0, 1} : /\ Moved(Q[o], L[o], P[o], M[o], k, c)
                              /\ c = 1 => ~WorkOf(Q[o], 1, k)
      OBVIOUS
    <2>2. c \in Nat /\ i + c \in Nat
      OBVIOUS
    <2>3. /\ WorkOf(Q[o], i + c, k)
          /\ P[o][i].dated = Q[o][i + c].dated
          /\ BlockAt(P[o], M[o], i) = BlockAt(Q[o], L[o], i + c)
      BY <1>1, <2>1 DEF Moved
    <2>4. SoundWork(k, bs, s, Q[o], L[o], i + c)
      BY <2>2, <2>3 DEF Sound
    <2>5. ASSUME FirstOf(k, s, P[o], M[o], i)
          PROVE  FirstOf(k, s, Q[o], L[o], i + c)
      <3>1. SUFFICES ASSUME NEW j \in Nat, WorkOf(Q[o], j, k), j < i + c
                     PROVE  BlockAt(Q[o], L[o], j).blk # BlockAt(Q[o], L[o], i + c).blk
        BY <2>3, <2>5 DEF FirstOf
      <3>2. ~(j = 1 /\ c = 1)
        BY <2>1, <3>1
      <3>3. j - c \in Nat /\ WorkOf(P[o], j - c, k)
        BY <2>1, <3>1, <3>2 DEF Moved
      <3>4. (j - c) + c = j /\ j - c < i
        BY <2>2, <3>1, <3>3
      <3>5. BlockAt(P[o], M[o], j - c) = BlockAt(Q[o], L[o], j)
        BY <2>1, <3>3, <3>4 DEF Moved
      <3>6. BlockAt(P[o], M[o], j - c).blk # BlockAt(P[o], M[o], i).blk
        BY <2>5, <3>3, <3>4 DEF FirstOf
      <3>7. QED
        BY <2>3, <3>5, <3>6
    <2>6. QED
      BY <2>3, <2>4, <2>5 DEF SoundWork
  <1>2. ASSUME NEW b, Kept(k, s, Q, L, b)
        PROVE  Kept(k, s, P, M, b)
    <2>1. CASE b \in DOMAIN s
      BY <2>1 DEF Kept
    <2>2. ASSUME NEW o \in Objs, NEW i \in Nat, WorkOf(Q[o], i, k),
                 BlockAt(Q[o], L[o], i).blk = b
          PROVE  Kept(k, s, P, M, b)
      <3>1. PICK c \in {0, 1} : /\ Moved(Q[o], L[o], P[o], M[o], k, c)
                                /\ c = 1 => ~WorkOf(Q[o], 1, k)
        OBVIOUS
      <3>2. i - c \in Nat /\ WorkOf(P[o], i - c, k) /\ (i - c) + c = i
        BY <2>2, <3>1 DEF Moved
      <3>3. BlockAt(P[o], M[o], i - c) = BlockAt(Q[o], L[o], i)
        BY <3>1, <3>2 DEF Moved
      <3>4. QED
        BY <2>2, <3>2, <3>3 DEF Kept
    <2>3. QED
      BY <1>2, <2>1, <2>2 DEF Kept
  <1>3. /\ \A b \in DOMAIN s : s[b] = bs[b]
        /\ \A f \in F : ~Kept(k, s, Q, L, f.blk) => f.old = bs[f.blk]
        /\ \A b \in Blocks : \/ d[b] = bs[b]
                             \/ Kept(k, s, Q, L, b)
                             \/ \E f \in F : f.blk = b
    BY DEF Sound
  <1>4. \A b : Kept(k, s, Q, L, b) => Kept(k, s, P, M, b)
    BY <1>2
  <1>5. QED
    BY <1>1, <1>3, <1>4 DEF Sound


(* The work at the head of the queue of o saves its block. *)
LEMMA SoundSave ==
  ASSUME NEW k, NEW d, NEW bs, NEW s, NEW Q, NEW L, NEW F, NEW P, NEW M, NEW o \in Objs,
         Sound(k, d, bs, s, Q, L, F),
         WorkOf(Q[o], 1, k), Moved(Q[o], L[o], P[o], M[o], k, 1),
         \A p \in Objs : p # o => P[p] = Q[p] /\ M[p] = L[p]
  PROVE  Sound(k, d, bs,
               AddBlock(s, BlockAt(Q[o], L[o], 1).blk, BlockAt(Q[o], L[o], 1).old),
               P, M, F)
  <1> DEFINE r == BlockAt(Q[o], L[o], 1)
             t == AddBlock(s, r.blk, r.old)
  <1>1. /\ DOMAIN t = DOMAIN s \cup {r.blk}
        /\ \A b \in DOMAIN s : t[b] = s[b]
        /\ r.blk \notin DOMAIN s => t[r.blk] = r.old
    BY DEF AddBlock
  <1>2. /\ \A b \in DOMAIN s : s[b] = bs[b]
        /\ \A p \in Objs : \A i \in Nat :
               WorkOf(Q[p], i, k) => SoundWork(k, bs, s, Q[p], L[p], i)
        /\ \A f \in F : ~Kept(k, s, Q, L, f.blk) => f.old = bs[f.blk]
        /\ \A b \in Blocks : \/ d[b] = bs[b]
                             \/ Kept(k, s, Q, L, b)
                             \/ \E f \in F : f.blk = b
    BY DEF Sound
  <1>3. r.blk \notin DOMAIN s => r.old = bs[r.blk]
    <2>1. SoundWork(k, bs, s, Q[o], L[o], 1)
      BY <1>2
    <2>2. ASSUME r.blk \notin DOMAIN s
          PROVE  FirstOf(k, s, Q[o], L[o], 1)
      <3>1. \A j \in Nat : ~(WorkOf(Q[o], j, k) /\ j < 1)
        BY DEF WorkOf
      <3>2. QED
        BY <2>2, <3>1 DEF FirstOf
    <2>3. QED
      BY <2>1, <2>2 DEF SoundWork
  <1> HIDE DEF t, r
  <1>4. \A b \in DOMAIN t : t[b] = bs[b]
    BY <1>1, <1>2, <1>3
  <1>5. ASSUME NEW b, Kept(k, s, Q, L, b)
        PROVE  Kept(k, t, P, M, b)
    <2>1. CASE b \in DOMAIN s
      BY <1>1, <2>1 DEF Kept
    <2>2. ASSUME NEW p \in Objs, NEW i \in Nat, WorkOf(Q[p], i, k),
                 BlockAt(Q[p], L[p], i).blk = b
          PROVE  Kept(k, t, P, M, b)
      <3>1. CASE p # o
        BY <2>2, <3>1 DEF Kept
      <3>2. CASE p = o /\ i = 1
        BY <1>1, <2>2, <3>2 DEF Kept, r
      <3>3. CASE p = o /\ i # 1
        <4>1. i - 1 \in Nat /\ WorkOf(P[o], i - 1, k) /\ (i - 1) + 1 = i
          BY <2>2, <3>3 DEF Moved
        <4>2. BlockAt(P[o], M[o], i - 1) = BlockAt(Q[o], L[o], i)
          BY <4>1 DEF Moved
        <4>3. BlockAt(P[o], M[o], i - 1).blk = b
          BY <2>2, <3>3, <4>2
        <4>4. QED
          BY <4>1, <4>3 DEF Kept
      <3>4. QED
        BY <3>1, <3>2, <3>3
    <2>3. QED
      BY <1>5, <2>1, <2>2 DEF Kept
  <1>6. ASSUME NEW p \in Objs, NEW i \in Nat, WorkOf(P[p], i, k)
        PROVE  SoundWork(k, bs, t, P[p], M[p], i)
    <2>1. CASE p # o
      <3>1. WorkOf(Q[p], i, k) /\ P[p] = Q[p] /\ M[p] = L[p]
        BY <1>6, <2>1
      <3>2. SoundWork(k, bs, s, Q[p], L[p], i)
        BY <1>2, <3>1
      <3>3. FirstOf(k, t, P[p], M[p], i) => FirstOf(k, s, Q[p], L[p], i)
        BY <1>1, <3>1 DEF FirstOf
      <3>4. QED
        BY <3>1, <3>2, <3>3 DEF SoundWork
    <2>2. CASE p = o
      <3>1. /\ WorkOf(Q[o], i + 1, k)
            /\ P[o][i].dated = Q[o][i + 1].dated
            /\ BlockAt(P[o], M[o], i) = BlockAt(Q[o], L[o], i + 1)
        BY <1>6, <2>2 DEF Moved
      <3>2. SoundWork(k, bs, s, Q[o], L[o], i + 1)
        BY <1>2, <3>1
      <3>3. ASSUME FirstOf(k, t, P[o], M[o], i)
            PROVE  FirstOf(k, s, Q[o], L[o], i + 1)
        <4>1. BlockAt(P[o], M[o], i).blk \notin DOMAIN s /\ BlockAt(P[o], M[o], i).blk # r.blk
          BY <1>1, <3>3 DEF FirstOf
        <4>2. ASSUME NEW j \in Nat, WorkOf(Q[o], j, k), j < i + 1
              PROVE  BlockAt(Q[o], L[o], j).blk # BlockAt(Q[o], L[o], i + 1).blk
          <5>1. CASE j = 1
            BY <3>1, <4>1, <5>1 DEF r
          <5>2. CASE j # 1
            <6>1. j - 1 \in Nat /\ WorkOf(P[o], j - 1, k) /\ (j - 1) + 1 = j /\ j - 1 < i
              BY <4>2, <5>2 DEF Moved
            <6>2. BlockAt(P[o], M[o], j - 1) = BlockAt(Q[o], L[o], j)
              BY <6>1 DEF Moved
            <6>3. BlockAt(P[o], M[o], j - 1).blk # BlockAt(P[o], M[o], i).blk
              BY <3>3, <6>1 DEF FirstOf
            <6>4. QED
              BY <3>1, <6>2, <6>3
          <5>3. QED
            BY <5>1, <5>2
        <4>3. QED
          BY <3>1, <4>1, <4>2 DEF FirstOf
      <3>4. QED
        BY <2>2, <3>1, <3>2, <3>3 DEF SoundWork
    <2>3. QED
      BY <2>1, <2>2
  <1>7. \A b : Kept(k, s, Q, L, b) => Kept(k, t, P, M, b)
    BY <1>5
  <1>8. Sound(k, d, bs, t, P, M, F)
    BY <1>2, <1>4, <1>6, <1>7 DEF Sound
  <1>9. QED
    BY <1>8 DEF t, r

(* What was changed is queued behind the works of its epoch, which are all *)
(* in the same queue.                                                      *)
Joined(k, Q, L, P, M, o, n, f) ==
    /\ \A p \in Objs : p # o => P[p] = Q[p] /\ M[p] = L[p]
    /\ \A p \in Objs : \A i \in Nat : WorkOf(Q[p], i, k) => p = o /\ i <= n
    /\ WorkOf(P[o], n + 1, k) /\ P[o][n + 1].dated /\ BlockAt(P[o], M[o], n + 1) = f
    /\ \A i \in Nat : WorkOf(P[o], i, k) => i <= n + 1
    /\ \A i \in Nat : i <= n =>
           /\ WorkOf(P[o], i, k) <=> WorkOf(Q[o], i, k)
           /\ WorkOf(Q[o], i, k) =>
                /\ P[o][i].dated = Q[o][i].dated
                /\ BlockAt(P[o], M[o], i) = BlockAt(Q[o], L[o], i)

(* The epoch stays sound when the block in flight is queued. *)
LEMMA SoundQueue ==
  ASSUME NEW k, NEW d, NEW bs, NEW s, NEW Q, NEW L, NEW f, NEW P, NEW M, NEW o \in Objs,
         NEW n \in Nat,
         Sound(k, d, bs, s, Q, L, {f}), Joined(k, Q, L, P, M, o, n, f)
  PROVE  Sound(k, d, bs, s, P, M, {})
  <1>0. /\ \A p \in Objs : p # o => P[p] = Q[p] /\ M[p] = L[p]
        /\ \A p \in Objs : \A i \in Nat : WorkOf(Q[p], i, k) => p = o /\ i <= n
        /\ WorkOf(P[o], n + 1, k) /\ P[o][n + 1].dated /\ BlockAt(P[o], M[o], n + 1) = f
        /\ \A i \in Nat : WorkOf(P[o], i, k) => i <= n + 1
        /\ \A i \in Nat : i <= n =>
               /\ WorkOf(P[o], i, k) <=> WorkOf(Q[o], i, k)
               /\ WorkOf(Q[o], i, k) =>
                    /\ P[o][i].dated = Q[o][i].dated
                    /\ BlockAt(P[o], M[o], i) = BlockAt(Q[o], L[o], i)
    BY DEF Joined
  <1>1. /\ \A b \in DOMAIN s : s[b] = bs[b]
        /\ \A p \in Objs : \A i \in Nat :
               WorkOf(Q[p], i, k) => SoundWork(k, bs, s, Q[p], L[p], i)
        /\ ~Kept(k, s, Q, L, f.blk) => f.old = bs[f.blk]
        /\ \A b \in Blocks : \/ d[b] = bs[b]
                             \/ Kept(k, s, Q, L, b)
                             \/ f.blk = b
    BY DEF Sound
  <1>2. ASSUME NEW b, Kept(k, s, Q, L, b)
        PROVE  Kept(k, s, P, M, b)
    <2>1. CASE b \in DOMAIN s
      BY <2>1 DEF Kept
    <2>2. ASSUME NEW p \in Objs, NEW i \in Nat, WorkOf(Q[p], i, k),
                 BlockAt(Q[p], L[p], i).blk = b
          PROVE  Kept(k, s, P, M, b)
      <3>1. p = o /\ i <= n
        BY <1>0, <2>2
      <3>2. WorkOf(P[o], i, k) /\ BlockAt(P[o], M[o], i).blk = b
        BY <1>0, <2>2, <3>1
      <3>3. QED
        BY <3>2 DEF Kept
    <2>3. QED
      BY <1>2, <2>1, <2>2 DEF Kept
  <1>3. Kept(k, s, P, M, f.blk)
    <2>1. n + 1 \in Nat
      OBVIOUS
    <2>2. QED
      BY <1>0, <2>1 DEF Kept
  <1>4. ASSUME NEW p \in Objs, NEW i \in Nat, WorkOf(P[p], i, k)
        PROVE  SoundWork(k, bs, s, P[p], M[p], i)
    <2>1. p = o /\ i <= n + 1
      BY <1>0, <1>4
    <2>2. CASE i <= n
      <3>1. WorkOf(Q[o], i, k) /\ P[o][i].dated = Q[o][i].dated
            /\ BlockAt(P[o], M[o], i) = BlockAt(Q[o], L[o], i)
        BY <1>0, <1>4, <2>1, <2>2
      <3>2. SoundWork(k, bs, s, Q[o], L[o], i)
        BY <1>1, <3>1
      <3>3. ASSUME FirstOf(k, s, P[o], M[o], i)
            PROVE  FirstOf(k, s, Q[o], L[o], i)
        <4>1. ASSUME NEW j \in Nat, WorkOf(Q[o], j, k), j < i
              PROVE  BlockAt(Q[o], L[o], j).blk # BlockAt(Q[o], L[o], i).blk
          <5>1. j <= n /\ WorkOf(P[o], j, k)
            BY <1>0, <2>2, <4>1
          <5>2. BlockAt(P[o], M[o], j) = BlockAt(Q[o], L[o], j)
            BY <1>0, <4>1, <5>1
          <5>3. BlockAt(P[o], M[o], j).blk # BlockAt(P[o], M[o], i).blk
            BY <3>3, <4>1, <5>1 DEF FirstOf
          <5>4. QED
            BY <3>1, <5>2, <5>3
        <4>2. BlockAt(Q[o], L[o], i).blk \notin DOMAIN s
          BY <3>1, <3>3 DEF FirstOf
        <4>3. QED
          BY <4>1, <4>2 DEF FirstOf
      <3>4. QED
        BY <2>1, <3>1, <3>2, <3>3 DEF SoundWork
    <2>3. CASE i = n + 1
      <3>1. ASSUME FirstOf(k, s, P[o], M[o], n + 1)
            PROVE  ~Kept(k, s, Q, L, f.blk)
        <4>1. f.blk \notin DOMAIN s
          BY <1>0, <3>1 DEF FirstOf
        <4>2. ASSUME NEW h \in Objs, NEW j \in Nat, WorkOf(Q[h], j, k),
                     BlockAt(Q[h], L[h], j).blk = f.blk
              PROVE  FALSE
          <5>1. Q[h] = Q[o] /\ L[h] = L[o] /\ j <= n /\ j < n + 1
            BY <1>0, <4>2
          <5>2. WorkOf(P[o], j, k) /\ BlockAt(P[o], M[o], j) = BlockAt(Q[o], L[o], j)
            BY <1>0, <4>2, <5>1
          <5>3. BlockAt(P[o], M[o], j).blk # f.blk
            BY <1>0, <3>1, <5>1, <5>2 DEF FirstOf
          <5>4. QED
            BY <4>2, <5>1, <5>2, <5>3
        <4>3. QED
          BY <4>1, <4>2 DEF Kept
      <3>2. QED
        BY <1>0, <1>1, <2>1, <2>3, <3>1 DEF SoundWork
    <2>4. QED
      BY <2>1, <2>2, <2>3
  <1>5. \A b : Kept(k, s, Q, L, b) => Kept(k, s, P, M, b)
    BY <1>2
  <1>6. QED
    BY <1>1, <1>3, <1>4, <1>5 DEF Sound


(* A work is queued at the end that is none of k, the head leaves, nothing *)
(* happens.                                                                *)
LEMMA Moves ==
  ASSUME NEW q \in Seq(Works), NEW l \in Seq(Records), Aligned(q, l), NEW k
  PROVE  /\ Moved(q, l, q, l, k, 0)
         /\ \A x \in Works : x.kind # "snap" => Moved(q, l, Append(q, x), l, k, 0)
         /\ q # <<>> /\ q[1].kind = "snap" => Moved(q, l, Tail(q), Tail(l), k, 1)
         /\ q # <<>> /\ q[1].kind # "snap" => Moved(q, l, Tail(q), l, k, 1)
  <1>1. Len(q) \in Nat
    OBVIOUS
  <1>2. Moved(q, l, q, l, k, 0)
    BY <1>1 DEF Moved, WorkOf
  <1>3. ASSUME NEW x \in Works, x.kind # "snap"
        PROVE  Moved(q, l, Append(q, x), l, k, 0)
    <2>1. /\ Len(Append(q, x)) = Len(q) + 1
          /\ \A i \in 1..Len(q) : Append(q, x)[i] = q[i]
          /\ Append(q, x)[Len(q) + 1] = x
      OBVIOUS
    <2>2. \A i \in 1..Len(q) : BlockAt(Append(q, x), l, i) = BlockAt(q, l, i)
      <3>1. CASE Records = {}
        <4>1. l = <<>>
          BY <3>1
        <4>2. \A i \in 0..Len(q) : Rank(Append(q, x), i) = Rank(q, i)
          BY RankAppend
        <4>3. QED
          BY <1>1, <4>2 DEF BlockAt
      <3>2. ASSUME NEW y \in Records
            PROVE  \A i \in 1..Len(q) : BlockAt(Append(q, x), l, i) = BlockAt(q, l, i)
        BY <1>3, LoadAppend
      <3>3. QED
        BY <3>1, <3>2
    <2>3. ASSUME NEW i \in Nat
          PROVE  WorkOf(Append(q, x), i, k) <=> WorkOf(q, i, k)
      BY <1>1, <1>3, <2>1 DEF WorkOf
    <2>4. \A i \in Nat : i + 0 = i /\ i - 0 = i
      OBVIOUS
    <2>5. \A i \in Nat : WorkOf(q, i, k) => i \in 1..Len(q)
      BY DEF WorkOf
    <2>6. QED
      BY <2>1, <2>2, <2>3, <2>4, <2>5 DEF Moved
  <1>4. ASSUME q # <<>>
        PROVE  \A i \in Nat : /\ WorkOf(Tail(q), i, k) =>
                                   /\ WorkOf(q, i + 1, k)
                                   /\ Tail(q)[i].dated = q[i + 1].dated
                                   /\ i \in 1..(Len(q) - 1)
                              /\ WorkOf(q, i, k) =>
                                   i = 1 \/ (i - 1 \in Nat /\ WorkOf(Tail(q), i - 1, k))
    <2>1. /\ Len(q) >= 1 /\ Len(Tail(q)) = Len(q) - 1
          /\ \A i \in 1..(Len(q) - 1) : Tail(q)[i] = q[i + 1]
      BY <1>4
    <2>2. ASSUME NEW i \in Nat, WorkOf(Tail(q), i, k)
          PROVE  /\ WorkOf(q, i + 1, k)
                 /\ Tail(q)[i].dated = q[i + 1].dated
                 /\ i \in 1..(Len(q) - 1)
      BY <1>1, <2>1, <2>2 DEF WorkOf
    <2>3. ASSUME NEW i \in Nat, WorkOf(q, i, k), i # 1
          PROVE  i - 1 \in Nat /\ WorkOf(Tail(q), i - 1, k)
      <3>1. i \in 1..Len(q) /\ i - 1 \in 1..(Len(q) - 1) /\ (i - 1) + 1 = i
        BY <1>1, <2>3 DEF WorkOf
      <3>2. Tail(q)[i - 1] = q[i]
        BY <2>1, <3>1
      <3>3. QED
        BY <1>1, <2>1, <2>3, <3>1, <3>2 DEF WorkOf
    <2>4. QED
      BY <2>2, <2>3
  <1>5. ASSUME q # <<>>, q[1].kind = "snap"
        PROVE  Moved(q, l, Tail(q), Tail(l), k, 1)
    <2>1. \A i \in 1..(Len(q) - 1) : q[i + 1].kind = "snap" =>
              BlockAt(Tail(q), Tail(l), i) = BlockAt(q, l, i + 1)
      BY <1>5, LoadTail
    <2>2. \A i \in Nat : WorkOf(q, i + 1, k) => q[i + 1].kind = "snap"
      BY DEF WorkOf
    <2>3. QED
      BY <1>4, <1>5, <2>1, <2>2 DEF Moved
  <1>6. ASSUME q # <<>>, q[1].kind # "snap"
        PROVE  Moved(q, l, Tail(q), l, k, 1)
    <2>1. \A i \in 1..(Len(q) - 1) : BlockAt(Tail(q), l, i) = BlockAt(q, l, i + 1)
      BY <1>6, LoadTail
    <2>2. QED
      BY <1>4, <1>6, <2>1 DEF Moved
  <1>7. QED
    BY <1>2, <1>3, <1>5, <1>6

-----------------------------------------------------------------------------
(* The inductive invariant.                                                *)

WriteRecords == [stage : Stages, m : Mounts \cup {Null}, caught : BOOLEAN,
                 blk : Blocks \cup {Null}, old : Contents \cup {Null}]

DataType ==
    /\ disk \in [Blocks -> Contents]
    /\ write \in [Writers -> WriteRecords]
    /\ \A w \in Writers : write[w].stage \in {"changed", "probed"} =>
           write[w].blk \in Blocks /\ write[w].old \in Contents
    /\ load \in [Objs -> Seq(Records)]
    /\ saved = [k \in Epochs \cup {Null} |-> saved[k]]
    /\ base \in [Blocks -> Contents] \cup {NoBlocks}
    /\ current \in Epochs \cup {Null}

\* Every make_snapshot work has a block
LoadInv == \A o \in Objs : Aligned(wq[o], load[o])

\* A writer writes through a mount whose call has returned, and holds the
\* inode lock from the change of the block until the probe is done
WriteInv ==
    /\ \A w \in Writers : write[w].stage # "none" =>
           write[w].m \in Up /\ (MountPending => write[w].m # fresh)
    /\ \A w \in Writers : pc[w] # "idle" => write[w].stage = "probed"
    /\ \A w, x \in Writers : write[w].stage \in {"changed", "probed"}
                             /\ write[x].stage \in {"changed", "probed"} => w = x

\* While the device is covered and mounted it is active, its epoch is the
\* current one, and writers are seen and work on its object
PeriodInv ==
    /\ MountPending => fresh \in Up
    /\ ~Covered => current = Null
    /\ Covered /\ Up # {} => ht # Null /\ current = e[ht]
    /\ Covered /\ ~MountPending => current # Null
    /\ \A w \in Writers : Covered /\ write[w].stage # "none" => write[w].caught
    /\ \A w \in Writers : Covered /\ pc[w] # "idle" => data[w] = ht
    /\ \A ep \in Epochs : n_currently_mounted[ep] > 0 => dated[ep]
    /\ \A ep \in Epochs : epmem[ep] = "unused" => DOMAIN saved[ep] = {}

\* What has been changed and is not yet queued
InFlight(w) ==
    write[w].stage = "changed" \/ (write[w].stage = "probed" /\ pc[w] # "idle")
Flight == {[blk |-> write[w].blk, old |-> write[w].old] : w \in {x \in Writers : InFlight(x)}}

\* The period of mounts can be undone.  (The quantifiers name the values of
\* the variables.)
BlockInv ==
    Covered => \A k, d, bs, s, Q, L, F :
        /\ k = current /\ d = disk /\ bs = base /\ s = saved[current]
        /\ Q = wq /\ L = load /\ F = Flight
        => IF k = Null THEN d = bs ELSE Sound(k, d, bs, s, Q, L, F)

EndInv == DataType /\ LoadInv /\ WriteInv /\ PeriodInv /\ BlockInv

(* Nothing is mounted, changed or queued at first. *)
LEMMA InitEnd == EndInit => EndInv
  <1> SUFFICES ASSUME EndInit
               PROVE  EndInv
    OBVIOUS
  <1> USE DEF EndInit, Init
  <1>1. DataType
    BY DEF DataType, WriteRecords, NoWrite, Stages
  <1>2. LoadInv
    <2>1. Rank(<<>>, 0) = 0
      <3>1. {j \in 1..0 : <<>>[j].kind = "snap"} = {}
        OBVIOUS
      <3>2. QED
        BY <3>1, FS_EmptySet DEF Rank
    <2>2. QED
      BY <2>1 DEF LoadInv, Aligned
  <1>3. WriteInv
    BY DEF WriteInv, NoWrite, Threads
  <1>4. ~Covered /\ ~MountPending /\ Up = {}
    BY DEF Covered, MountPending, MountPcs, Threads, Up
  <1>5. PeriodInv
    BY <1>4 DEF PeriodInv, NoBlocks
  <1>6. BlockInv
    BY <1>4 DEF BlockInv
  <1>7. QED
    BY <1>1, <1>2, <1>3, <1>5, <1>6 DEF EndInv

\* A writer has a mount
Carried ==
    /\ disk \in [Blocks -> Contents]
    /\ write \in [Writers -> WriteRecords]
    /\ \A w \in Writers : write[w].stage # "none" => write[w].m \in Mounts

(* The steps are steps of DeviceEpochs. *)
LEMMA Inherits ==
  ASSUME Carried, EndNext \/ UNCHANGED allvars
  PROVE  [Next]_vars
  <1>1. CASE UNCHANGED allvars
    BY <1>1 DEF allvars
  <1>2. ASSUME NEW w \in Writers,
               \/ \E m \in Mounts : EnterWrite(w, m)
               \/ \E b \in Blocks, v \in Contents : ChangeBlock(w, b, v)
               \/ LeaveWrite(w)
        PROVE  UNCHANGED vars
    BY <1>2 DEF EnterWrite, ChangeBlock, LeaveWrite
  <1>3. ASSUME NEW w \in Writers, ProbeWrite(w) \/ ProbeSteps(w) \/ QueueBlock(w)
        PROVE  WriterNext(w)
    <2>1. CASE ProbeWrite(w)
      <3>1. write[w].m \in Mounts /\ SearchDevice(w, write[w].m)
        BY <2>1 DEF ProbeWrite, Carried
      <3>2. QED
        BY <3>1 DEF WriterNext
    <2>2. CASE ProbeSteps(w)
      BY <2>2 DEF ProbeSteps, WriterNext
    <2>3. CASE QueueBlock(w)
      BY <2>3 DEF QueueBlock, WriterNext
    <2>4. QED
      BY <1>3, <2>1, <2>2, <2>3
  <1>4. ASSUME NEW a \in Admins,
               \/ \E m \in Mounts : MountDevice(a, m) \/ UmountDevice(a, m)
               \/ CountEvent(a)
               \/ \E ep \in Epochs : BeginEpoch(a, ep)
        PROVE  AdminNext(a)
    BY <1>4 DEF MountDevice, UmountDevice, CountEvent, BeginEpoch, AdminNext
  <1>5. ASSUME NEW u \in Users, UserStep(u)
        PROVE  UserNext(u)
    BY <1>5 DEF UserStep
  <1>6. ASSUME NEW o \in Objs, SaveBlock(o) \/ KernelStep(o)
        PROVE  KernelNext(o)
    BY <1>6 DEF SaveBlock, KernelStep, KernelNext
  <1>7. CASE EndRest
    BY <1>7 DEF EndRest, Rest
  <1>8. QED
    BY <1>1, <1>2, <1>3, <1>4, <1>5, <1>6, <1>7 DEF EndNext, Next

(* A writer whose mount call has returned finds the epoch begun. *)
LEMMA MountHasEpoch ==
  ASSUME UseInv, PeriodInv, Covered, NEW m \in Up, MountPending => m # fresh
  PROVE  /\ ht \in Objs /\ Valid(ht)
         /\ current = e[ht] /\ current \in Epochs /\ current # Null
         /\ dated[current]
  <1>1. ht # Null /\ current = e[ht]
    BY DEF PeriodInv
  <1>2. /\ ht \in Objs /\ e[ht] \in Epochs \cup {Null} /\ ~wq_is_destroyed[ht]
        /\ n_currently_mounted \in [Epochs -> Nat]
    BY <1>1 DEF UseInv, IInv, TypeInv, TypeOK, WayInv, NotMarked
  <1>3. IsFiniteSet(Up) /\ Cardinality(Up) \in Nat
    BY FS_CardinalityType DEF UseInv, CountInv, EventInv
  <1>4. Cardinality(Up) >= 1
    BY <1>3, FS_EmptySet
  <1>5. MountPending => Cardinality(Up) >= 2
    <2> SUFFICES ASSUME MountPending
                 PROVE  Cardinality(Up) >= 2
      OBVIOUS
    <2>1. fresh \in Up /\ fresh # m
      BY DEF PeriodInv
    <2>2. IsFiniteSet(Up \ {m}) /\ Cardinality(Up \ {m}) = Cardinality(Up) - 1
      BY <1>3, FS_RemoveElement
    <2>3. Cardinality(Up \ {m}) # 0
      BY <2>1, <2>2, FS_EmptySet
    <2>4. QED
      BY <1>3, <1>4, <2>2, <2>3
  <1>6. /\ e[ht] = Null => Cardinality(Up) = IF MountPending THEN 1 ELSE 0
        /\ e[ht] # Null =>
               n_currently_mounted[e[ht]] + (IF MountPending THEN 1 ELSE 0) =
                   Cardinality(Up) + (IF UmountPending THEN 1 ELSE 0)
    BY <1>1 DEF UseInv, CountInv, TableCount
  <1>7. e[ht] # Null
    BY <1>3, <1>4, <1>5, <1>6
  <1>8. n_currently_mounted[e[ht]] > 0
    BY <1>2, <1>3, <1>4, <1>5, <1>6, <1>7
  <1>9. dated[e[ht]]
    BY <1>2, <1>7, <1>8 DEF PeriodInv
  <1>10. QED
    BY <1>1, <1>2, <1>7, <1>9 DEF Valid


-----------------------------------------------------------------------------
(* Writes.                                                                 *)

(* What is in flight depends on the writers that carry it only. *)
LEMMA FlightSame ==
  ASSUME \A x \in Writers : /\ InFlight(x)' <=> InFlight(x)
                            /\ InFlight(x) => write'[x].blk = write[x].blk
                                              /\ write'[x].old = write[x].old
  PROVE  Flight' = Flight
  <1>1. ASSUME NEW f
        PROVE  f \in Flight' <=> f \in Flight
    <2>1. f \in Flight <=> \E x \in Writers : InFlight(x)
                              /\ f = [blk |-> write[x].blk, old |-> write[x].old]
      BY DEF Flight
    <2>2. f \in Flight' <=> \E x \in Writers : InFlight(x)'
                              /\ f = [blk |-> write'[x].blk, old |-> write'[x].old]
      BY DEF Flight
    <2>3. QED
      BY <2>1, <2>2
  <1>2. QED
    BY <1>1

(* A step that leaves data and queues alone keeps the period undoable. *)
LEMMA BlockSame ==
  ASSUME BlockInv, Flight' = Flight, UNCHANGED <<disk, base, current, saved, wq, load>>
  PROVE  BlockInv'
  BY DEF BlockInv, Covered

(* A write enters the file system: nothing is changed yet. *)
LEMMA EnterStep ==
  ASSUME UseInv, EndInv, ~EarlyWrites, NEW w \in Writers, NEW m \in Mounts, EnterWrite(w, m)
  PROVE  EndInv'
  <1>1. /\ write \in [Writers -> WriteRecords]
        /\ write[w].stage = "none" /\ m \in Up /\ m # fresh
        /\ UNCHANGED <<vars, disk, load, saved, base, current, fresh>>
    BY DEF EndInv, DataType, EnterWrite, Up
  <1>2. /\ \A x \in Writers : x # w => write'[x] = write[x]
        /\ write' \in [Writers -> WriteRecords]
        /\ write'[w].stage = "entered" /\ write'[w].m = m /\ write'[w].caught = TestDevice
    <2>1. PICK c \in BOOLEAN : c = TestDevice
      BY DEF TestDevice
    <2>2. write' = [write EXCEPT ![w] = [write[w] EXCEPT !.stage = "entered", !.m = m,
                                                         !.caught = c]]
      BY <2>1 DEF EnterWrite
    <2>3. write[w] \in WriteRecords
      BY <1>1
    <2>4. /\ [write[w] EXCEPT !.stage = "entered", !.m = m, !.caught = c] \in WriteRecords
          /\ [write[w] EXCEPT !.stage = "entered", !.m = m, !.caught = c].stage = "entered"
          /\ [write[w] EXCEPT !.stage = "entered", !.m = m, !.caught = c].m = m
          /\ [write[w] EXCEPT !.stage = "entered", !.m = m, !.caught = c].caught = c
      BY <2>3 DEF WriteRecords, Stages
    <2>5. QED
      BY <1>1, <2>1, <2>2, <2>4
  <1>3. write'[w].caught <=> TestDevice
    BY <1>2
  <1>4. DataType'
    BY <1>1, <1>2, <1>3 DEF EndInv, DataType
  <1>5. LoadInv'
    BY <1>1 DEF EndInv, LoadInv, Aligned, Rank, vars, wqvars
  <1>6. Up' = Up /\ MountPending' = MountPending /\ pc' = pc /\ data' = data
    BY <1>1 DEF Up, MountPending, vars, thrvars
  <1>7. WriteInv'
    <2>1. ASSUME NEW x \in Writers
          PROVE  /\ write'[x].stage # "none" =>
                      write'[x].m \in Up /\ (MountPending => write'[x].m # fresh)
                 /\ pc[x] # "idle" => write'[x].stage = "probed"
                 /\ write'[x].stage \in {"changed", "probed"} =>
                      write'[x].stage = write[x].stage
      BY <1>1, <1>2 DEF EndInv, WriteInv
    <2>2. QED
      BY <1>1, <1>6, <2>1 DEF EndInv, WriteInv
  <1>8. Covered => TestDevice
    BY <1>1, MountHasEpoch, NullAssumption DEF EndInv, TestDevice
  <1>9. PeriodInv'
    BY <1>1, <1>2, <1>3, <1>6, <1>8
       DEF EndInv, PeriodInv, Covered, vars, objvars, wqvars, epvars
  <1>10. Flight' = Flight
    <2>1. ASSUME NEW x \in Writers
          PROVE  /\ InFlight(x)' <=> InFlight(x)
                 /\ InFlight(x) => write'[x].blk = write[x].blk
                                   /\ write'[x].old = write[x].old
      BY <1>1, <1>2, <1>3, <1>6 DEF InFlight
    <2>2. QED
      BY <2>1, FlightSame
  <1>11. BlockInv'
    BY <1>1, <1>10, BlockSame DEF EndInv, vars, wqvars
  <1>12. QED
    BY <1>4, <1>5, <1>7, <1>9, <1>11 DEF EndInv


(* A write changes its block, with the old contents in hand. *)
LEMMA ChangeStep ==
  ASSUME UseInv, EndInv, NEW w \in Writers, NEW b \in Blocks, NEW v \in Contents,
         ChangeBlock(w, b, v)
  PROVE  EndInv'
  <1>1. /\ write \in [Writers -> WriteRecords] /\ disk \in [Blocks -> Contents]
        /\ write[w].stage = "entered"
        /\ \A x \in Writers : write[x].stage \notin {"changed", "probed"}
        /\ UNCHANGED <<vars, load, saved, base, current, fresh>>
        /\ disk' = [disk EXCEPT ![b] = v]
    BY DEF EndInv, DataType, ChangeBlock
  <1>2. /\ \A x \in Writers : x # w => write'[x] = write[x]
        /\ write' \in [Writers -> WriteRecords]
        /\ write'[w].stage = "changed" /\ write'[w].blk = b /\ write'[w].old = disk[b]
        /\ write'[w].m = write[w].m /\ write'[w].caught = write[w].caught
    <2>1. PICK c \in Contents : c = disk[b]
      BY <1>1
    <2> DEFINE r == [write[w] EXCEPT !.stage = "changed", !.blk = b, !.old = c]
    <2>2. write' = [write EXCEPT ![w] = r]
      BY <2>1 DEF ChangeBlock
    <2>3. write[w] \in WriteRecords
      BY <1>1
    <2>4. /\ r \in WriteRecords /\ r.stage = "changed" /\ r.blk = b /\ r.old = c
          /\ r.m = write[w].m /\ r.caught = write[w].caught
      BY <2>3 DEF WriteRecords, Stages
    <2>5. QED
      <3> HIDE DEF r
      <3>1. QED
        BY <1>1, <2>1, <2>2, <2>4
  <1>3. disk[b] \in Contents
    BY <1>1
  <1>4. DataType'
    BY <1>1, <1>2, <1>3 DEF EndInv, DataType
  <1>5. LoadInv'
    BY <1>1 DEF EndInv, LoadInv, Aligned, Rank, vars, wqvars
  <1>6. Up' = Up /\ MountPending' = MountPending /\ pc' = pc /\ data' = data
    BY <1>1 DEF Up, MountPending, vars, thrvars
  <1>7. WriteInv'
    <2>1. ASSUME NEW x \in Writers
          PROVE  /\ write'[x].stage # "none" =>
                      write'[x].m \in Up /\ (MountPending => write'[x].m # fresh)
                 /\ pc[x] = "idle"
                 /\ write'[x].stage \in {"changed", "probed"} => x = w
      BY <1>1, <1>2 DEF EndInv, WriteInv
    <2>2. QED
      BY <1>1, <1>6, <2>1 DEF WriteInv
  <1>8. PeriodInv'
    BY <1>1, <1>2, <1>6
       DEF EndInv, PeriodInv, Covered, vars, objvars, wqvars, epvars
  <1>9. Flight = {}
    BY <1>1 DEF Flight, InFlight
  <1>10. Flight' = {[blk |-> b, old |-> disk[b]]}
    <2>1. \A x \in Writers : InFlight(x)' <=> x = w
      BY <1>1, <1>2 DEF InFlight
    <2>2. ASSUME NEW f
          PROVE  f \in Flight' <=> f = [blk |-> b, old |-> disk[b]]
      <3>1. f \in Flight' <=> \E x \in Writers : InFlight(x)'
                              /\ f = [blk |-> write'[x].blk, old |-> write'[x].old]
        BY DEF Flight
      <3>2. QED
        BY <1>2, <2>1, <3>1
    <2>3. QED
      BY <2>2
  <1>11. BlockInv'
    <2>1. SUFFICES ASSUME Covered',
                          NEW k, NEW d, NEW bs, NEW s, NEW Q, NEW L, NEW F,
                          k = current', d = disk', bs = base', s = saved'[current'],
                          Q = wq', L = load', F = Flight'
                   PROVE  IF k = Null THEN d = bs ELSE Sound(k, d, bs, s, Q, L, F)
      BY DEF BlockInv
    <2>2. Covered /\ k = current /\ bs = base /\ s = saved[current] /\ Q = wq /\ L = load
      BY <1>1, <2>1 DEF Covered, vars, wqvars
    <2>3. write[w].m \in Up /\ (MountPending => write[w].m # fresh)
      BY <1>1 DEF EndInv, WriteInv
    <2>4. k # Null
      BY <2>2, <2>3, MountHasEpoch DEF EndInv
    <2>5. PICK d0 \in [Blocks -> Contents] : d0 = disk
      BY <1>1
    <2>6. Sound(k, d0, bs, s, Q, L, {})
      BY <1>9, <2>2, <2>4, <2>5 DEF EndInv, BlockInv
    <2>7. Sound(k, [d0 EXCEPT ![b] = v], bs, s, Q, L, {[blk |-> b, old |-> d0[b]]})
      BY <2>6, SoundChange
    <2>8. d = [d0 EXCEPT ![b] = v] /\ F = {[blk |-> b, old |-> d0[b]]}
      BY <1>1, <1>10, <2>1, <2>5
    <2>9. QED
      BY <2>4, <2>7, <2>8
  <1>12. QED
    BY <1>4, <1>5, <1>7, <1>8, <1>11 DEF EndInv

(* A write returns. *)
LEMMA LeaveStep ==
  ASSUME UseInv, EndInv, NEW w \in Writers, LeaveWrite(w)
  PROVE  EndInv'
  <1>1. /\ write \in [Writers -> WriteRecords]
        /\ \/ write[w].stage = "changed" /\ (~write[w].caught \/ ht = Null)
           \/ write[w].stage = "probed" /\ pc[w] = "idle"
        /\ UNCHANGED <<vars, disk, load, saved, base, current, fresh>>
    BY DEF EndInv, DataType, LeaveWrite
  <1>2. /\ \A x \in Writers : x # w => write'[x] = write[x]
        /\ write' \in [Writers -> WriteRecords]
        /\ write'[w].stage = "none"
    <2>1. NoWrite \in WriteRecords /\ NoWrite.stage = "none"
      BY DEF NoWrite, WriteRecords, Stages
    <2>2. write' = [write EXCEPT ![w] = NoWrite]
      BY DEF LeaveWrite
    <2>3. QED
      BY <1>1, <2>1, <2>2
  <1>3. DataType'
    BY <1>1, <1>2 DEF EndInv, DataType
  <1>4. LoadInv'
    BY <1>1 DEF EndInv, LoadInv, Aligned, Rank, vars, wqvars
  <1>5. Up' = Up /\ MountPending' = MountPending /\ pc' = pc /\ data' = data
    BY <1>1 DEF Up, MountPending, vars, thrvars
  <1>6. pc[w] = "idle"
    BY <1>1 DEF EndInv, WriteInv
  <1>7. WriteInv'
    <2>1. ASSUME NEW x \in Writers
          PROVE  /\ write'[x].stage # "none" =>
                      write'[x].m \in Up /\ (MountPending => write'[x].m # fresh)
                 /\ pc[x] # "idle" => write'[x].stage = "probed"
                 /\ write'[x].stage \in {"changed", "probed"} =>
                      write'[x].stage = write[x].stage
      BY <1>1, <1>2, <1>6 DEF EndInv, WriteInv
    <2>2. QED
      BY <1>1, <1>5, <2>1 DEF EndInv, WriteInv
  <1>8. PeriodInv'
    BY <1>1, <1>2, <1>5
       DEF EndInv, PeriodInv, Covered, vars, objvars, wqvars, epvars
  <1>9. BlockInv'
    <2>1. CASE ~Covered
      BY <1>1, <2>1 DEF BlockInv, Covered
    <2>2. CASE Covered
      <3>1. write[w].stage = "probed"
        <4>1. write[w].caught /\ write[w].m \in Up /\ (MountPending => write[w].m # fresh)
          BY <1>1, <2>2 DEF EndInv, WriteInv, PeriodInv
        <4>2. ht \in Objs
          BY <2>2, <4>1, MountHasEpoch DEF EndInv
        <4>3. QED
          BY <1>1, <4>1, <4>2, NullAssumption
      <3>2. ASSUME NEW x \in Writers
            PROVE  /\ InFlight(x)' <=> InFlight(x)
                   /\ InFlight(x) => write'[x].blk = write[x].blk
                                     /\ write'[x].old = write[x].old
        BY <1>2, <1>5, <1>6, <3>1 DEF InFlight
      <3>3. Flight' = Flight
        BY <3>2, FlightSame
      <3>4. QED
        BY <1>1, <3>3, BlockSame DEF EndInv, vars, wqvars
    <2>3. QED
      BY <2>1, <2>2
  <1>10. QED
    BY <1>3, <1>4, <1>7, <1>8, <1>9 DEF EndInv

(* The writer's probe calls into the module with the old contents. *)
LEMMA ProbeWriteStep ==
  ASSUME UseInv, EndInv, NEW w \in Writers, ProbeWrite(w)
  PROVE  EndInv'
  <1>1. /\ write \in [Writers -> WriteRecords]
        /\ write[w].stage = "changed" /\ pc[w] = "idle"
        /\ UNCHANGED <<ht, e, wq, epvars, mounts, disk, load, saved, base, current, fresh>>
    BY DEF EndInv, DataType, ProbeWrite, SearchDevice, objvars, wqvars
  <1>2. /\ \A x \in Writers : x # w => write'[x] = write[x]
        /\ write' \in [Writers -> WriteRecords]
        /\ write'[w].stage = "probed" /\ write'[w].blk = write[w].blk
        /\ write'[w].old = write[w].old
        /\ write'[w].m = write[w].m /\ write'[w].caught = write[w].caught
    <2> DEFINE r == [write[w] EXCEPT !.stage = "probed"]
    <2>2. write' = [write EXCEPT ![w] = r]
      BY DEF ProbeWrite
    <2>3. write[w] \in WriteRecords
      BY <1>1
    <2>4. /\ r \in WriteRecords /\ r.stage = "probed" /\ r.blk = write[w].blk
          /\ r.old = write[w].old
          /\ r.m = write[w].m /\ r.caught = write[w].caught
      BY <2>3 DEF WriteRecords, Stages
    <2>5. QED
      <3> HIDE DEF r
      <3>1. QED
        BY <1>1, <2>2, <2>4
  <1>3. /\ pc'[w] = "w_search" /\ data'[w] = ht
        /\ \A t \in Threads : t # w => pc'[t] = pc[t] /\ data'[t] = data[t]
    <2>1. /\ pc \in [Threads -> UserPcs \cup AdminPcs \cup WriterPcs]
          /\ data \in [Threads -> Objs \cup {Null}] /\ w \in Threads
      BY DEF UseInv, IInv, TypeInv, TypeOK, Threads
    <2>2. pc' = [pc EXCEPT ![w] = "w_search"] /\ data' = [data EXCEPT ![w] = ht]
      BY DEF ProbeWrite, SearchDevice, Goto
    <2>3. QED
      BY <2>1, <2>2
  <1>4. DataType'
    BY <1>1, <1>2 DEF EndInv, DataType
  <1>5. LoadInv'
    BY <1>1 DEF EndInv, LoadInv, Aligned, Rank
  <1>6. Up' = Up /\ MountPending' = MountPending
    BY <1>1, <1>3, ThreadsAssumption DEF Up, MountPending, Threads
  <1>7. WriteInv'
    <2>1. ASSUME NEW x \in Writers
          PROVE  /\ write'[x].stage # "none" =>
                      write'[x].m \in Up /\ (MountPending => write'[x].m # fresh)
                 /\ pc'[x] # "idle" => write'[x].stage = "probed"
                 /\ write'[x].stage \in {"changed", "probed"} =>
                      write[x].stage \in {"changed", "probed"}
      BY <1>1, <1>2, <1>3 DEF EndInv, WriteInv, Threads
    <2>2. QED
      BY <1>1, <1>6, <2>1 DEF EndInv, WriteInv
  <1>8. PeriodInv'
    <2>1. ASSUME NEW x \in Writers
          PROVE  /\ Covered /\ write'[x].stage # "none" => write'[x].caught
                 /\ Covered /\ pc'[x] # "idle" => data'[x] = ht
      BY <1>1, <1>2, <1>3 DEF EndInv, PeriodInv, Threads
    <2>2. Covered' <=> Covered
      BY <1>1 DEF Covered
    <2>3. QED
      BY <1>1, <1>6, <2>1, <2>2 DEF EndInv, PeriodInv, epvars
  <1>9. Flight' = Flight
    <2>1. ASSUME NEW x \in Writers
          PROVE  /\ InFlight(x)' <=> InFlight(x)
                 /\ InFlight(x) => write'[x].blk = write[x].blk
                                   /\ write'[x].old = write[x].old
      BY <1>1, <1>2, <1>3 DEF InFlight, Threads
    <2>2. QED
      BY <2>1, FlightSame
  <1>10. BlockInv'
    BY <1>1, <1>9, BlockSame DEF EndInv
  <1>11. QED
    BY <1>4, <1>5, <1>7, <1>8, <1>10 DEF EndInv


(* The module's interface on the way to the queue. *)
LEMMA ProbeStepsStep ==
  ASSUME ~AllocMayFail, UseInv, EndInv, NEW w \in Writers, ProbeSteps(w)
  PROVE  EndInv'
  <1>1. /\ UNCHANGED <<ht, e, wq, epvars, mounts, disk, write, load, saved, base, current, fresh>>
        /\ pc[w] # "idle"
        /\ \A t \in Threads : t # w => pc'[t] = pc[t] /\ data'[t] = data[t]
        /\ \/ pc'[w] # "idle" /\ data'[w] = data[w]
           \/ ~Valid(data[w])
    <2>1. /\ pc \in [Threads -> UserPcs \cup AdminPcs \cup WriterPcs]
          /\ data \in [Threads -> Objs \cup {Null}] /\ w \in Threads
          /\ UNCHANGED datavars
      BY DEF UseInv, IInv, TypeInv, TypeOK, Threads, ProbeSteps
    <2>2. CASE CheckValid(w)
      BY <2>1, <2>2 DEF CheckValid, Goto, WriteReturn, Return, wqvars, datavars
    <2>3. CASE MakeLock(w)
      BY <2>1, <2>3 DEF MakeLock, Goto, WriteReturn, Return, wqvars, datavars, Valid
    <2>4. CASE QueueCheck(w)
      BY <2>1, <2>4 DEF QueueCheck, Goto, WriteReturn, Return, wqvars, datavars, Valid
    <2>5. CASE QueueLoad(w)
      BY <2>1, <2>5 DEF QueueLoad, Goto, objvars, wqvars, datavars
    <2>6. CASE QueueAllocFails(w)
      BY <2>6 DEF QueueAllocFails
    <2>7. QED
      BY <2>2, <2>3, <2>4, <2>5, <2>6 DEF ProbeSteps
  <1>2. Covered => pc'[w] # "idle" /\ data'[w] = data[w]
    <2> SUFFICES ASSUME Covered
                 PROVE  pc'[w] # "idle" /\ data'[w] = data[w]
      OBVIOUS
    <2>1. data[w] = ht /\ write[w].m \in Up /\ (MountPending => write[w].m # fresh)
      BY <1>1 DEF EndInv, WriteInv, PeriodInv
    <2>2. Valid(ht)
      BY <2>1, MountHasEpoch DEF EndInv
    <2>3. QED
      BY <1>1, <2>1, <2>2
  <1>3. DataType'
    BY <1>1 DEF EndInv, DataType
  <1>4. LoadInv'
    BY <1>1 DEF EndInv, LoadInv, Aligned, Rank
  <1>5. Up' = Up /\ MountPending' = MountPending
    BY <1>1, ThreadsAssumption DEF Up, MountPending, Threads
  <1>6. WriteInv'
    <2>1. \A x \in Writers : pc'[x] # "idle" => write[x].stage = "probed"
      BY <1>1 DEF EndInv, WriteInv, Threads
    <2>2. QED
      BY <1>1, <1>5, <2>1 DEF EndInv, WriteInv
  <1>7. PeriodInv'
    <2>1. \A x \in Writers : Covered /\ pc'[x] # "idle" => data'[x] = ht
      BY <1>1, <1>2 DEF EndInv, PeriodInv, Threads
    <2>2. Covered' <=> Covered
      BY <1>1 DEF Covered
    <2>3. QED
      BY <1>1, <1>5, <2>1, <2>2 DEF EndInv, PeriodInv, epvars
  <1>8. BlockInv'
    <2>1. CASE ~Covered
      BY <1>1, <2>1 DEF BlockInv, Covered
    <2>2. CASE Covered
      <3>1. ASSUME NEW x \in Writers
            PROVE  /\ InFlight(x)' <=> InFlight(x)
                   /\ InFlight(x) => write'[x].blk = write[x].blk
                                     /\ write'[x].old = write[x].old
        BY <1>1, <1>2, <2>2 DEF InFlight, Threads
      <3>2. Flight' = Flight
        BY <3>1, FlightSame
      <3>3. QED
        BY <1>1, <3>2, BlockSame DEF EndInv
    <2>3. QED
      BY <2>1, <2>2
  <1>9. QED
    BY <1>3, <1>4, <1>6, <1>7, <1>8 DEF EndInv

(* The works of an epoch that is in an object are in the queue of the object. *)
LEMMA WorkHome ==
  ASSUME UseInv, NEW o \in Objs, e[o] # Null, NEW p \in Objs, NEW i \in Nat,
         WorkOf(wq[p], i, e[o])
  PROVE  p = o
  <1>1. wq[p] \in Seq(Works)
    BY DEF UseInv, IInv, TypeInv, TypeOK
  <1>2. IsSnap(wq[p], i) /\ wq[p][i].ep = e[o]
    BY <1>1 DEF WorkOf, IsSnap
  <1>3. SafeWork(p, i, wq[p][i].ep)
    BY <1>2 DEF UseInv, WorkInv
  <1>4. SafeWork(p, i, e[o])
    BY <1>2, <1>3
  <1>5. /\ \A u \in Users : ref[u] # e[o]
        /\ waddw_epoch[p] # e[o]
        /\ \A j \in Nat : IsCleanup(wq[p], j) => wq[p][j].ep # e[o]
        /\ e[p] = e[o] => p = o
    BY DEF UseInv, IInv, OwnerInv, ObjOnly, ObjUnique
  <1>6. QED
    BY <1>4, <1>5 DEF SafeWork

(* The old contents get into the queue of the object of the epoch. *)
LEMMA QueueBlockStep ==
  ASSUME UseInv, EndInv, NEW w \in Writers, QueueBlock(w)
  PROVE  EndInv'
  <1>1. /\ UNCHANGED <<ht, e, epvars, mounts, disk, write, saved, base, current, fresh>>
        /\ pc[w] = "w_date" /\ write[w].stage = "probed"
    BY DEF EndInv, WriteInv, QueueBlock, QueueWork
  <1>2. PICK o \in Objs : o = data[w]
    BY <1>1 DEF UseInv, IInv, TypeInv, DataTyped, BusyPcs, RcuPcs, Threads
  <1>3. ref[w] = e[o] /\ e[o] # Null
    BY <1>1, <1>2 DEF UseInv, WriterInv
  <1>4. /\ pc \in [Threads -> UserPcs \cup AdminPcs \cup WriterPcs]
        /\ data \in [Threads -> Objs \cup {Null}] /\ w \in Threads
        /\ wq \in [Objs -> Seq(Works)] /\ e \in [Objs -> Epochs \cup {Null}]
        /\ dated \in [Epochs -> BOOLEAN] /\ load \in [Objs -> Seq(Records)]
    BY DEF UseInv, IInv, TypeInv, TypeOK, Threads, EndInv, DataType
  <1>5. PICK k \in Epochs : k = e[o]
    BY <1>3, <1>4
  <1>6. PICK x \in Works : x = SnapWork(k, dated[k])
    BY <1>4 DEF SnapWork, Works
  <1>7. x.kind = "snap" /\ x.ep = k /\ x.dated = dated[k]
    BY <1>6 DEF SnapWork
  <1>8. /\ wq' = [wq EXCEPT ![o] = Append(wq[o], x)]
        /\ pc' = [pc EXCEPT ![w] = "idle"] /\ data' = [data EXCEPT ![w] = Null]
    BY <1>1, <1>2, <1>3, <1>5, <1>6 DEF QueueBlock, QueueWork, WriteReturn, Return
  <1>9. PICK q \in Seq(Works) : q = wq[o]
    BY <1>4
  <1>10. PICK l \in Seq(Records) : l = load[o]
    BY <1>4
  <1>11. PICK y \in Records : y = [blk |-> write[w].blk, old |-> write[w].old]
    BY <1>1 DEF EndInv, DataType, Records
  <1>12. /\ Len(q) \in Nat /\ Len(Append(q, x)) = Len(q) + 1 /\ Append(q, x) # q
         /\ \A i \in 1..Len(q) : Append(q, x)[i] = q[i]
         /\ Append(q, x)[Len(q) + 1] = x
         /\ Append(q, x) \in Seq(Works) /\ Append(l, y) \in Seq(Records)
    OBVIOUS
  <1>13. /\ wq'[o] = Append(q, x)
         /\ \A p \in Objs : p # o => wq'[p] = wq[p]
    BY <1>4, <1>8, <1>9
  <1>14. load' = [load EXCEPT ![o] = Append(l, y)]
    <2>1. wq' # wq
      BY <1>9, <1>12, <1>13
    <2>2. QED
      BY <1>2, <1>10, <1>11, <2>1 DEF QueueBlock
  <1>15. /\ load'[o] = Append(l, y) /\ load' \in [Objs -> Seq(Records)]
         /\ \A p \in Objs : p # o => load'[p] = load[p]
    BY <1>4, <1>12, <1>14
  <1>16. /\ pc'[w] = "idle"
         /\ \A t \in Threads : t # w => pc'[t] = pc[t] /\ data'[t] = data[t]
    BY <1>4, <1>8
  <1>17. DataType'
    BY <1>1, <1>15 DEF EndInv, DataType
  <1>18. Aligned(q, l)
    BY <1>9, <1>10 DEF EndInv, LoadInv
  <1>19. /\ Aligned(Append(q, x), Append(l, y))
         /\ \A i \in 1..Len(q) : q[i].kind = "snap" =>
               BlockAt(Append(q, x), Append(l, y), i) = BlockAt(q, l, i)
         /\ BlockAt(Append(q, x), Append(l, y), Len(q) + 1) = y
    BY <1>7, <1>18, LoadAppend
  <1>20. LoadInv'
    <2>1. ASSUME NEW p \in Objs
          PROVE  Len(load'[p]) = Rank(wq'[p], Len(wq'[p]))
      <3>1. CASE p = o
        BY <1>13, <1>15, <1>19, <3>1 DEF Aligned
      <3>2. CASE p # o
        BY <1>13, <1>15, <3>2 DEF EndInv, LoadInv, Aligned
      <3>3. QED
        BY <3>1, <3>2
    <2>2. QED
      BY <2>1 DEF LoadInv, Aligned, Rank
  <1>21. Up' = Up /\ MountPending' = MountPending
    BY <1>1, <1>16, ThreadsAssumption DEF Up, MountPending, Threads
  <1>22. WriteInv'
    <2>1. \A z \in Writers : pc'[z] # "idle" => write[z].stage = "probed"
      BY <1>1, <1>16 DEF EndInv, WriteInv, Threads
    <2>2. QED
      BY <1>1, <1>21, <2>1 DEF EndInv, WriteInv
  <1>23. PeriodInv'
    <2>1. \A z \in Writers : Covered /\ pc'[z] # "idle" => data'[z] = ht
      BY <1>1, <1>16 DEF EndInv, PeriodInv, Threads
    <2>2. Covered' <=> Covered
      BY <1>1 DEF Covered
    <2>3. QED
      BY <1>1, <1>21, <2>1, <2>2 DEF EndInv, PeriodInv, epvars
  <1>24. Flight = {y} /\ Flight' = {}
    <2>1. \A z \in Writers : InFlight(z) <=> z = w
      BY <1>1 DEF EndInv, WriteInv, InFlight
    <2>2. \A z \in Writers : ~InFlight(z)'
      BY <1>1, <1>16, <2>1 DEF InFlight, Threads
    <2>3. Flight = {y}
      BY <1>11, <2>1 DEF Flight
    <2>4. Flight' = {}
      BY <2>2 DEF Flight
    <2>5. QED
      BY <2>3, <2>4
  <1>25. BlockInv'
    <2>1. SUFFICES ASSUME Covered',
                          NEW h, NEW d, NEW bs, NEW s, NEW Q, NEW L, NEW F,
                          h = current', d = disk', bs = base', s = saved'[current'],
                          Q = wq', L = load', F = Flight'
                   PROVE  IF h = Null THEN d = bs ELSE Sound(h, d, bs, s, Q, L, F)
      BY DEF BlockInv
    <2>2. Covered /\ h = current /\ d = disk /\ bs = base /\ s = saved[current]
      BY <1>1, <2>1 DEF Covered
    <2>3. o = ht /\ write[w].m \in Up /\ (MountPending => write[w].m # fresh)
      BY <1>1, <1>2, <2>2 DEF EndInv, WriteInv, PeriodInv
    <2>4. h = k /\ h # Null /\ dated[k]
      BY <1>5, <2>2, <2>3, MountHasEpoch DEF EndInv
    <2>5. PICK Q0 : Q0 = wq
      OBVIOUS
    <2>6. PICK L0 : L0 = load
      OBVIOUS
    <2>7. Sound(k, d, bs, s, Q0, L0, {y})
      BY <1>24, <2>2, <2>4, <2>5, <2>6 DEF EndInv, BlockInv
    <2>8. \A p \in Objs : p # o => Q[p] = Q0[p] /\ L[p] = L0[p]
      BY <1>13, <1>15, <2>1, <2>5, <2>6
    <2>9. Q0[o] = q /\ Q[o] = Append(q, x) /\ L0[o] = l /\ L[o] = Append(l, y)
      BY <1>9, <1>10, <1>13, <1>15, <2>1, <2>5, <2>6
    <2>10. ASSUME NEW p \in Objs, NEW i \in Nat, WorkOf(Q0[p], i, k)
           PROVE  p = o /\ i <= Len(q)
      <3>1. p = o
        BY <1>3, <1>5, <2>5, <2>10, WorkHome
      <3>2. QED
        BY <1>12, <2>9, <2>10, <3>1 DEF WorkOf
    <2>11. /\ WorkOf(Q[o], Len(q) + 1, k) /\ Q[o][Len(q) + 1].dated
           /\ BlockAt(Q[o], L[o], Len(q) + 1) = y
      <3>1. x.dated
        BY <1>7, <2>4
      <3>2. Len(q) + 1 \in 1..(Len(q) + 1)
        BY <1>12
      <3>3. WorkOf(Q[o], Len(q) + 1, k)
        BY <1>7, <1>12, <2>9, <3>2 DEF WorkOf
      <3>4. QED
        BY <1>12, <1>19, <2>9, <3>1, <3>3
    <2>12. \A i \in Nat : WorkOf(Q[o], i, k) => i <= Len(q) + 1
      BY <1>12, <2>9 DEF WorkOf
    <2>13. ASSUME NEW i \in Nat, i <= Len(q)
           PROVE  /\ WorkOf(Q[o], i, k) <=> WorkOf(Q0[o], i, k)
                  /\ WorkOf(Q0[o], i, k) =>
                       /\ Q[o][i].dated = Q0[o][i].dated
                       /\ BlockAt(Q[o], L[o], i) = BlockAt(Q0[o], L0[o], i)
      <3>1. WorkOf(Q[o], i, k) <=> WorkOf(Q0[o], i, k)
        BY <1>12, <2>9, <2>13 DEF WorkOf
      <3>2. ASSUME WorkOf(Q0[o], i, k)
            PROVE  /\ Q[o][i].dated = Q0[o][i].dated
                   /\ BlockAt(Q[o], L[o], i) = BlockAt(Q0[o], L0[o], i)
        <4>1. i \in 1..Len(q) /\ q[i].kind = "snap"
          BY <2>9, <3>2 DEF WorkOf
        <4>2. QED
          BY <1>12, <1>19, <2>9, <4>1
      <3>3. QED
        BY <3>1, <3>2
    <2>14. Sound(k, d, bs, s, Q, L, {})
      <3>1. PICK n \in Nat : n = Len(q)
        BY <1>12
      <3>2. \A p \in Objs : \A i \in Nat : WorkOf(Q0[p], i, k) => p = o /\ i <= n
        BY <2>10, <3>1
      <3>3. /\ WorkOf(Q[o], n + 1, k) /\ Q[o][n + 1].dated
            /\ BlockAt(Q[o], L[o], n + 1) = y
            /\ \A i \in Nat : WorkOf(Q[o], i, k) => i <= n + 1
        BY <2>11, <2>12, <3>1
      <3>4. \A i \in Nat : i <= n =>
                /\ WorkOf(Q[o], i, k) <=> WorkOf(Q0[o], i, k)
                /\ WorkOf(Q0[o], i, k) =>
                     /\ Q[o][i].dated = Q0[o][i].dated
                     /\ BlockAt(Q[o], L[o], i) = BlockAt(Q0[o], L0[o], i)
        BY <2>13, <3>1
      <3>5. Joined(k, Q0, L0, Q, L, o, n, y)
        BY <2>8, <3>2, <3>3, <3>4 DEF Joined
      <3>6. QED
        BY <2>7, <3>5, SoundQueue
    <2>15. QED
      BY <1>24, <2>1, <2>4, <2>14
  <1>26. QED
    BY <1>17, <1>20, <1>22, <1>23, <1>25 DEF EndInv


-----------------------------------------------------------------------------
(* Mounts and works.                                                       *)

(* The works move, or a cleanup work joins them. *)
LEMMA BlockMoved ==
  ASSUME BlockInv, Flight' = Flight, UNCHANGED <<disk, base, current>>,
         NEW h, h = current, h # Null => saved'[h] = saved[h],
         \A o \in Objs : \E c \in {0, 1} :
             /\ Moved(wq[o], load[o], wq'[o], load'[o], h, c)
             /\ c = 1 => ~WorkOf(wq[o], 1, h)
  PROVE  BlockInv'
  <1>1. SUFFICES ASSUME Covered',
                        NEW k, NEW d, NEW bs, NEW s, NEW Q, NEW L, NEW F,
                        k = current', d = disk', bs = base', s = saved'[current'],
                        Q = wq', L = load', F = Flight'
                 PROVE  IF k = Null THEN d = bs ELSE Sound(k, d, bs, s, Q, L, F)
    BY DEF BlockInv
  <1>2. /\ Covered /\ k = current /\ d = disk /\ bs = base
        /\ k # Null => s = saved[current]
        /\ F = Flight
    BY <1>1 DEF Covered
  <1>3. PICK Q0 : Q0 = wq
    OBVIOUS
  <1>4. PICK L0 : L0 = load
    OBVIOUS
  <1>5. IF k = Null THEN d = bs ELSE Sound(k, d, bs, s, Q0, L0, F)
    BY <1>2, <1>3, <1>4 DEF BlockInv
  <1>6. \A o \in Objs : \E c \in {0, 1} : /\ Moved(Q0[o], L0[o], Q[o], L[o], k, c)
                                          /\ c = 1 => ~WorkOf(Q0[o], 1, k)
    BY <1>1, <1>2, <1>3, <1>4
  <1>7. ASSUME k # Null
        PROVE  Sound(k, d, bs, s, Q, L, F)
    <2>1. Sound(k, d, bs, s, Q0, L0, F)
      BY <1>5, <1>7
    <2>2. QED
      BY <1>6, <2>1, SoundMoved
  <1>8. QED
    BY <1>5, <1>7

(* Steps that leave the writers alone change nothing of what is in flight. *)
LEMMA FlightKept ==
  ASSUME \A x \in Writers : write'[x] = write[x] /\ pc'[x] = pc[x]
  PROVE  Flight' = Flight
  <1>1. \A x \in Writers : /\ InFlight(x)' <=> InFlight(x)
                           /\ InFlight(x) => write'[x].blk = write[x].blk
                                             /\ write'[x].old = write[x].old
    BY DEF InFlight
  <1>2. QED
    BY <1>1, FlightSame

(* The device is mounted; the first mount starts a period. *)
LEMMA MountStep ==
  ASSUME ~OverlapEvents, UseInv, EndInv, NEW a \in Admins, NEW m \in Mounts, MountDevice(a, m)
  PROVE  EndInv'
  <1>1. /\ UNCHANGED <<ht, e, wq, epvars, data, disk, write, load, saved>>
        /\ fresh' = m /\ NoEventPending /\ mounts[m] = "unused"
        /\ \/ /\ Up = {}
              /\ base' = IF ht # Null THEN disk ELSE NoBlocks
              /\ current' = Null
           \/ Up # {} /\ UNCHANGED <<base, current>>
        /\ mounts' = [mounts EXCEPT ![m] = "up"] /\ pc' = [pc EXCEPT ![a] = "m_lookup"]
    BY DEF MountDevice, MountCall, Goto, objvars, wqvars
  <1>2. /\ pc'[a] = "m_lookup" /\ \A t \in Threads : t # a => pc'[t] = pc[t]
        /\ Up' = Up \cup {m} /\ m \notin Up
    <2>1. /\ pc \in [Threads -> UserPcs \cup AdminPcs \cup WriterPcs] /\ a \in Threads
          /\ mounts \in [Mounts -> {"unused", "up", "down"}]
      BY DEF UseInv, IInv, TypeInv, TypeOK, Threads
    <2>2. ASSUME NEW x \in Mounts
          PROVE  mounts'[x] = IF x = m THEN "up" ELSE mounts[x]
      BY <1>1, <2>1
    <2>3. Up' = Up \cup {m}
      BY <2>2 DEF Up
    <2>4. m \notin Up
      BY <1>1 DEF Up
    <2>5. QED
      BY <1>1, <2>1, <2>3, <2>4
  <1>3. MountPending'
    BY <1>2 DEF MountPending, MountPcs
  <1>4. \A x \in Writers : pc'[x] = pc[x]
    BY <1>2, ThreadsAssumption DEF Threads
  <1>5. DataType'
    BY <1>1 DEF EndInv, DataType
  <1>6. LoadInv'
    BY <1>1 DEF EndInv, LoadInv, Aligned, Rank
  <1>7. WriteInv'
    BY <1>1, <1>2, <1>4 DEF EndInv, WriteInv
  <1>8. CASE Up = {}
    <2>1. base' = (IF ht # Null THEN disk ELSE NoBlocks) /\ current' = Null
      BY <1>1, <1>8
    <2>2. Covered' => ht # Null
      BY <2>1 DEF Covered
    <2>3. Covered' => e[ht] = Null
      <3> SUFFICES ASSUME ht # Null, e[ht] # Null
                   PROVE  FALSE
        BY <2>2
      <3>1. ~MountPending /\ ~UmountPending /\ \A b \in Admins : pc[b] # "m_count"
        BY <1>1 DEF NoEventPending, MountPending, UmountPending, MountPcs, UmountPcs
      <3>2. Cardinality(Up) = 0
        BY <1>8, FS_EmptySet
      <3>3. e[ht] \in Epochs /\ n_currently_mounted[e[ht]] \in Nat
        BY DEF UseInv, IInv, TypeInv, TypeOK
      <3>4. /\ n_currently_mounted[e[ht]] + (IF MountPending THEN 1 ELSE 0) =
                  Cardinality(Up) + (IF UmountPending THEN 1 ELSE 0)
            /\ n_currently_mounted[e[ht]] = 0 => \E b \in Admins : pc[b] = "m_count"
        BY DEF UseInv, CountInv, TableCount
      <3>5. QED
        BY <3>1, <3>2, <3>3, <3>4
    <2>4. \A x \in Writers : write[x].stage = "none" /\ pc[x] = "idle"
      BY <1>8 DEF EndInv, WriteInv
    <2>5. PeriodInv'
      BY <1>1, <1>2, <1>3, <1>4, <2>1, <2>2, <2>3, <2>4 DEF EndInv, PeriodInv, epvars
    <2>6. BlockInv'
      BY <1>1, <2>1, <2>2 DEF BlockInv
    <2>7. QED
      BY <1>5, <1>6, <1>7, <2>5, <2>6 DEF EndInv
  <1>9. CASE Up # {}
    <2>1. UNCHANGED <<base, current>> /\ (Covered' <=> Covered)
      BY <1>1, <1>9 DEF Covered
    <2>2. PeriodInv'
      BY <1>1, <1>2, <1>3, <1>4, <1>9, <2>1 DEF EndInv, PeriodInv, epvars
    <2>3. Flight' = Flight
      BY <1>1, <1>4, FlightKept
    <2>4. BlockInv'
      BY <1>1, <2>1, <2>3, BlockSame DEF EndInv
    <2>5. QED
      BY <1>5, <1>6, <1>7, <2>2, <2>4 DEF EndInv
  <1>10. QED
    BY <1>8, <1>9

(* A mount goes, and no writer is in it. *)
LEMMA UmountStep ==
  ASSUME ~OverlapEvents, UseInv, EndInv, NEW a \in Admins, NEW m \in Mounts, UmountDevice(a, m)
  PROVE  EndInv'
  <1>1. /\ UNCHANGED <<ht, e, wq, epvars, data, disk, write, load, saved, base, current, fresh>>
        /\ NoEventPending
        /\ \A w \in Writers : write[w].m # m
        /\ mounts' = [mounts EXCEPT ![m] = "down"] /\ pc' = [pc EXCEPT ![a] = "u_lookup"]
    BY DEF UmountDevice, UmountCall, Goto, objvars, wqvars, datavars
  <1>2. /\ pc'[a] = "u_lookup" /\ \A t \in Threads : t # a => pc'[t] = pc[t]
        /\ Up' = Up \ {m}
    <2>1. /\ pc \in [Threads -> UserPcs \cup AdminPcs \cup WriterPcs] /\ a \in Threads
          /\ mounts \in [Mounts -> {"unused", "up", "down"}]
      BY DEF UseInv, IInv, TypeInv, TypeOK, Threads
    <2>2. ASSUME NEW x \in Mounts
          PROVE  mounts'[x] = IF x = m THEN "down" ELSE mounts[x]
      BY <1>1, <2>1
    <2>3. Up' = Up \ {m}
      BY <2>2 DEF Up
    <2>4. QED
      BY <1>1, <2>1, <2>3
  <1>3. ~MountPending /\ ~MountPending'
    BY <1>1, <1>2 DEF NoEventPending, MountPending, MountPcs, Threads
  <1>4. \A x \in Writers : pc'[x] = pc[x]
    BY <1>2, ThreadsAssumption DEF Threads
  <1>5. DataType'
    BY <1>1 DEF EndInv, DataType
  <1>6. LoadInv'
    BY <1>1 DEF EndInv, LoadInv, Aligned, Rank
  <1>7. WriteInv'
    BY <1>1, <1>2, <1>3, <1>4 DEF EndInv, WriteInv
  <1>8. PeriodInv'
    BY <1>1, <1>2, <1>3, <1>4 DEF EndInv, PeriodInv, epvars, Covered
  <1>9. Flight' = Flight
    BY <1>1, <1>4, FlightKept
  <1>10. BlockInv'
    BY <1>1, <1>9, BlockSame DEF EndInv
  <1>11. QED
    BY <1>5, <1>6, <1>7, <1>8, <1>10 DEF EndInv

(* An epoch begins in an object that has none. *)
LEMMA BeginStep ==
  ASSUME UseInv, EndInv, NEW a \in Admins, NEW ep \in Epochs, BeginEpoch(a, ep)
  PROVE  EndInv'
  <1>1. /\ UNCHANGED <<ht, wq, n_currently_mounted, dated, mounts, data,
                       disk, write, load, saved, base, fresh>>
        /\ pc[a] = "m_alloc" /\ epmem[ep] = "unused"
        /\ e' = [e EXCEPT ![data[a]] = ep] /\ epmem' = [epmem EXCEPT ![ep] = "live"]
        /\ pc' = [pc EXCEPT ![a] = "m_count"]
        /\ current' = IF Covered THEN ep ELSE Null
    BY DEF BeginEpoch, AllocEpoch, Goto, wqvars
  <1>2. /\ pc \in [Threads -> UserPcs \cup AdminPcs \cup WriterPcs] /\ a \in Threads
        /\ e \in [Objs -> Epochs \cup {Null}]
        /\ epmem \in [Epochs -> {"unused", "live", "freed"}]
        /\ ht \in Objs \cup {Null} /\ wq \in [Objs -> Seq(Works)]
    BY DEF UseInv, IInv, TypeInv, TypeOK, Threads
  <1>3. /\ pc'[a] = "m_count" /\ \A t \in Threads : t # a => pc'[t] = pc[t]
        /\ \A k \in Epochs : epmem'[k] = "unused" => epmem[k] = "unused"
    BY <1>1, <1>2
  <1>4. MountPending /\ MountPending'
    BY <1>1, <1>3 DEF MountPending, MountPcs
  <1>5. Up' = Up
    BY <1>1 DEF Up
  <1>6. \A x \in Writers : pc'[x] = pc[x]
    BY <1>3, ThreadsAssumption DEF Threads
  <1>7. fresh \in Up
    BY <1>4 DEF EndInv, PeriodInv
  <1>8. e[data[a]] = Null
    BY <1>1 DEF UseInv, WayInv, AllocEmpty
  <1>9. Covered => ht \in Objs /\ data[a] = ht /\ e[ht] = Null /\ current = Null /\ e'[ht] = ep
    <2> SUFFICES ASSUME Covered
                 PROVE  /\ ht \in Objs /\ data[a] = ht /\ e[ht] = Null /\ current = Null
                        /\ e'[ht] = ep
      OBVIOUS
    <2>1. ht # Null /\ current = e[ht]
      BY <1>7 DEF EndInv, PeriodInv
    <2>2. data[a] = ht
      BY <1>1, <2>1 DEF UseInv, CountInv, EventInv, FoundPcs
    <2>3. QED
      BY <1>1, <1>2, <1>8, <2>1, <2>2
  <1>10. DataType'
    BY <1>1 DEF EndInv, DataType
  <1>11. LoadInv'
    BY <1>1 DEF EndInv, LoadInv, Aligned, Rank
  <1>12. WriteInv'
    BY <1>1, <1>4, <1>5, <1>6 DEF EndInv, WriteInv
  <1>13. Covered' <=> Covered
    BY <1>1 DEF Covered
  <1>14. PeriodInv'
    BY <1>1, <1>3, <1>4, <1>5, <1>6, <1>9, <1>13 DEF EndInv, PeriodInv
  <1>15. BlockInv'
    <2>1. SUFFICES ASSUME Covered',
                          NEW k, NEW d, NEW bs, NEW s, NEW Q, NEW L, NEW F,
                          k = current', d = disk', bs = base', s = saved'[current'],
                          Q = wq', L = load', F = Flight'
                   PROVE  IF k = Null THEN d = bs ELSE Sound(k, d, bs, s, Q, L, F)
      BY DEF BlockInv
    <2>2. Covered /\ k = ep /\ d = disk /\ bs = base /\ s = saved[ep] /\ Q = wq /\ L = load
      BY <1>1, <1>13, <2>1
    <2>3. d = bs
      BY <1>9, <2>2 DEF EndInv, BlockInv
    <2>4. DOMAIN s = {}
      BY <1>1, <2>2 DEF EndInv, PeriodInv
    <2>5. ASSUME NEW o \in Objs, NEW i \in Nat, WorkOf(Q[o], i, k)
          PROVE  FALSE
      <3>1. wq[o] \in Seq(Works) /\ DOMAIN wq[o] = 1..Len(wq[o])
        BY <1>2
      <3>2. i \in DOMAIN wq[o] /\ wq[o][i].kind = "snap" /\ wq[o][i].ep = ep
        BY <2>2, <2>5, <3>1 DEF WorkOf
      <3>3. epmem[ep] = "live"
        BY <3>2, UseNoFreed DEF NoUseAfterFree
      <3>4. QED
        BY <1>1, <3>3
    <2>6. Flight' = {}
      <3>1. ASSUME NEW x \in Writers
            PROVE  write[x].stage = "none"
        <4>1. ASSUME write[x].stage # "none"
              PROVE  FALSE
          <5>1. write[x].m \in Up /\ write[x].m # fresh
            BY <1>4, <4>1 DEF EndInv, WriteInv
          <5>2. current # Null
            BY <2>2, <5>1, MountHasEpoch DEF EndInv
          <5>3. QED
            BY <1>9, <2>2, <5>2
        <4>2. QED
          BY <4>1
      <3>2. \A x \in Writers : ~InFlight(x)'
        BY <1>1, <3>1 DEF InFlight
      <3>3. QED
        BY <3>2 DEF Flight
    <2>7. Sound(k, bs, bs, s, Q, L, {})
      BY <2>4, <2>5, SoundNew
    <2>8. QED
      BY <2>1, <2>2, <2>3, <2>6, <2>7, NullAssumption
  <1>16. QED
    BY <1>10, <1>11, <1>12, <1>14, <1>15 DEF EndInv


(* An event is counted.  Only the end of an epoch changes e and the queue. *)
LEMMA CountEventStep ==
  ASSUME ~AllocMayFail, UseInv, EndInv, NEW a \in Admins, CountEvent(a)
  PROVE  EndInv'
  <1>1. /\ pc \in [Threads -> UserPcs \cup AdminPcs \cup WriterPcs] /\ a \in Threads
        /\ data \in [Threads -> Objs \cup {Null}]
        /\ e \in [Objs -> Epochs \cup {Null}] /\ ht \in Objs \cup {Null}
        /\ n_currently_mounted \in [Epochs -> Nat] /\ dated \in [Epochs -> BOOLEAN]
        /\ wq \in [Objs -> Seq(Works)] /\ load \in [Objs -> Seq(Records)]
    BY DEF UseInv, IInv, TypeInv, TypeOK, Threads, EndInv, DataType
  <1>2. /\ UNCHANGED <<ht, epmem, mounts, disk, write, load, saved, base, current>>
        /\ fresh' = IF pc'[a] = "idle" THEN Null ELSE fresh
        /\ \A t \in Threads : t # a => pc'[t] = pc[t] /\ data'[t] = data[t]
        /\ pc[a] # "idle"
        /\ pc'[a] \in MountPcs => pc[a] \in MountPcs
        /\ pc[a] \in MountPcs => \/ pc'[a] \in MountPcs
                                 \/ pc[a] = "m_lookup" /\ ht = Null
                                 \/ pc[a] = "m_count"
    <2> USE <1>1 DEF MountPcs
    <2>1. UNCHANGED <<disk, write, load, saved, base, current>>
          /\ fresh' = IF pc'[a] = "idle" THEN Null ELSE fresh
      BY DEF CountEvent
    <2>2. CASE EventLookup(a)
      BY <2>1, <2>2 DEF EventLookup, Return, Goto, objvars, epvars
    <2>3. CASE EventLock(a)
      BY <2>1, <2>3 DEF EventLock, Goto, objvars, epvars
    <2>4. CASE AllocEpochFails(a)
      BY <2>4 DEF AllocEpochFails
    <2>5. CASE CountMount(a)
      BY <2>1, <2>5 DEF CountMount, Return
    <2>6. CASE CountUmount(a)
      BY <2>1, <2>6 DEF CountUmount, Return
    <2>7. QED
      BY <2>2, <2>3, <2>4, <2>5, <2>6 DEF CountEvent
  <1>3. \/ UNCHANGED <<e, wq>>
        \/ /\ pc[a] = "u_count" /\ EndsEpoch(data[a])
           /\ e' = [e EXCEPT ![data[a]] = Null]
           /\ wq' = [wq EXCEPT ![data[a]] = Append(wq[data[a]], CleanupWork(e[data[a]]))]
    <2>1. CASE EventLookup(a) \/ EventLock(a)
      BY <2>1 DEF EventLookup, EventLock, objvars, wqvars
    <2>2. CASE CountMount(a) \/ AllocEpochFails(a)
      BY <2>2 DEF CountMount, AllocEpochFails, wqvars
    <2>3. CASE CountUmount(a)
      BY <2>3 DEF CountUmount
    <2>4. QED
      BY <2>1, <2>2, <2>3 DEF CountEvent
  <1>4. \A k \in Epochs : n_currently_mounted'[k] > 0 => dated'[k]
    <2>1. \A k \in Epochs : n_currently_mounted[k] > 0 => dated[k]
      BY DEF EndInv, PeriodInv
    <2>2. CASE EventLookup(a) \/ EventLock(a) \/ AllocEpochFails(a)
      BY <2>1, <2>2 DEF EventLookup, EventLock, AllocEpochFails, epvars
    <2>3. CASE CountMount(a)
      <3>1. SUFFICES ASSUME NEW k \in Epochs, n_currently_mounted'[k] > 0
                     PROVE  dated'[k]
        OBVIOUS
      <3>2. /\ n_currently_mounted'[k] = IF k = e[data[a]] THEN n_currently_mounted[k] + 1
                                         ELSE n_currently_mounted[k]
            /\ dated'[k] = (dated[k] \/ (k = e[data[a]] /\ n_currently_mounted[k] = 0))
        BY <2>3 DEF CountMount
      <3>3. n_currently_mounted[k] \in Nat
        BY <1>1
      <3>4. n_currently_mounted[k] > 0 \/ (k = e[data[a]] /\ n_currently_mounted[k] = 0)
        BY <3>1, <3>2, <3>3
      <3>5. QED
        BY <2>1, <3>2, <3>4
    <2>4. CASE CountUmount(a)
      <3>1. SUFFICES ASSUME NEW k \in Epochs, n_currently_mounted'[k] > 0
                     PROVE  dated'[k]
        OBVIOUS
      <3>2. /\ n_currently_mounted'[k] = IF k = e[data[a]] /\ n_currently_mounted[k] > 0
                                         THEN n_currently_mounted[k] - 1
                                         ELSE n_currently_mounted[k]
            /\ dated' = dated
        BY <2>4 DEF CountUmount
      <3>3. n_currently_mounted[k] \in Nat
        BY <1>1
      <3>4. n_currently_mounted[k] > 0
        BY <3>1, <3>2, <3>3
      <3>5. QED
        BY <2>1, <3>2, <3>4
    <2>5. QED
      BY <2>2, <2>3, <2>4 DEF CountEvent
  <1>5. \A b \in Admins : b # a => pc[b] = "idle" /\ pc'[b] = "idle"
    BY <1>2 DEF UseInv, CountInv, EventInv, Threads
  <1>6. /\ MountPending <=> pc[a] \in MountPcs
        /\ MountPending' <=> pc'[a] \in MountPcs
    BY <1>5 DEF MountPending, MountPcs
  <1>7. MountPending' => MountPending /\ fresh' = fresh
    BY <1>2, <1>6 DEF MountPcs
  <1>8. Up' = Up /\ (Covered' <=> Covered)
    BY <1>2 DEF Up, Covered
  <1>9. \A x \in Writers : x # a /\ pc'[x] = pc[x] /\ data'[x] = data[x]
    BY <1>2, ThreadsAssumption DEF Threads
  <1>10. DataType'
    BY <1>2 DEF EndInv, DataType
  <1>11. LoadInv'
    <2>1. CASE wq' = wq
      BY <1>2, <2>1 DEF EndInv, LoadInv, Aligned, Rank
    <2>2. CASE wq' # wq
      <3>1. PICK o \in Objs : o = data[a]
        BY <1>1, <1>3, <2>2 DEF UseInv, IInv, TypeInv, DataTyped, BusyPcs, RcuPcs
      <3>2. PICK x \in Works : x = CleanupWork(e[o])
        BY <1>1, <1>3, <2>2, <3>1 DEF EndsEpoch, CleanupWork, Works
      <3>3. x.kind # "snap"
        BY <3>2 DEF CleanupWork
      <3>4. wq'[o] = Append(wq[o], x) /\ \A p \in Objs : p # o => wq'[p] = wq[p]
        BY <1>1, <1>3, <2>2, <3>1, <3>2
      <3>5. \A p \in Objs : Aligned(wq[p], load[p])
        BY DEF EndInv, LoadInv
      <3>6. Rank(Append(wq[o], x), Len(wq[o]) + 1) = Rank(wq[o], Len(wq[o]))
        BY <1>1, <3>3, RankAppend
      <3>7. Len(Append(wq[o], x)) = Len(wq[o]) + 1
        BY <1>1
      <3>8. ASSUME NEW p \in Objs
            PROVE  Len(load'[p]) = Rank(wq'[p], Len(wq'[p]))
        BY <1>2, <3>4, <3>5, <3>6, <3>7 DEF Aligned
      <3>9. QED
        BY <3>8 DEF LoadInv, Aligned, Rank
    <2>3. QED
      BY <2>1, <2>2
  <1>12. WriteInv'
    BY <1>2, <1>7, <1>8, <1>9 DEF EndInv, WriteInv
  <1>13. Covered /\ Up # {} => e'[ht] = e[ht]
    <2> SUFFICES ASSUME Covered, Up # {}, e' # e
                 PROVE  FALSE
      OBVIOUS
    <2>1. pc[a] = "u_count" /\ EndsEpoch(data[a])
      BY <1>3
    <2>2. n_currently_mounted[e[data[a]]] = Cardinality(Up) + 1
      BY <2>1 DEF UseInv, CountInv, UmountCount, EndsEpoch
    <2>3. IsFiniteSet(Up) /\ Cardinality(Up) \in Nat
      BY FS_CardinalityType DEF UseInv, CountInv, EventInv
    <2>4. Cardinality(Up) = 0
      BY <2>1, <2>2, <2>3 DEF EndsEpoch
    <2>5. QED
      BY <2>3, <2>4, FS_EmptySet
  <1>14. Covered /\ ~MountPending' => current # Null
    <2> SUFFICES ASSUME Covered, ~MountPending', MountPending
                 PROVE  current # Null
      BY DEF EndInv, PeriodInv
    <2>1. fresh \in Up /\ ht # Null /\ current = e[ht]
      BY DEF EndInv, PeriodInv
    <2>2. pc[a] = "m_count"
      BY <1>2, <1>6, <2>1
    <2>3. data[a] = ht /\ e[data[a]] # Null
      BY <2>1, <2>2 DEF UseInv, CountInv, EventInv, FoundPcs, WayInv, AllocEmpty
    <2>4. QED
      BY <2>1, <2>3
  <1>15. PeriodInv'
    BY <1>2, <1>4, <1>7, <1>8, <1>9, <1>13, <1>14 DEF EndInv, PeriodInv
  <1>16. Flight' = Flight
    BY <1>2, <1>9, FlightKept
  <1>17. BlockInv'
    <2>1. CASE wq' = wq
      BY <1>2, <1>16, <2>1, BlockSame DEF EndInv
    <2>2. CASE wq' # wq
      <3>1. PICK o \in Objs : o = data[a]
        BY <1>1, <1>3, <2>2 DEF UseInv, IInv, TypeInv, DataTyped, BusyPcs, RcuPcs
      <3>2. PICK x \in Works : x = CleanupWork(e[o])
        BY <1>1, <1>3, <2>2, <3>1 DEF EndsEpoch, CleanupWork, Works
      <3>3. x.kind # "snap"
        BY <3>2 DEF CleanupWork
      <3>4. wq'[o] = Append(wq[o], x) /\ \A p \in Objs : p # o => wq'[p] = wq[p]
        BY <1>1, <1>3, <2>2, <3>1, <3>2
      <3>5. PICK h : h = current
        OBVIOUS
      <3>6. ASSUME NEW p \in Objs
            PROVE  Moved(wq[p], load[p], wq'[p], load'[p], h, 0)
        <4>1. Aligned(wq[p], load[p]) /\ wq[p] \in Seq(Works) /\ load[p] \in Seq(Records)
          BY <1>1 DEF EndInv, LoadInv
        <4>2. PICK q \in Seq(Works) : q = wq[p]
          BY <4>1
        <4>3. PICK l \in Seq(Records) : l = load[p]
          BY <4>1
        <4>4. Moved(q, l, q, l, h, 0) /\ Moved(q, l, Append(q, x), l, h, 0)
          BY <3>3, <4>1, <4>2, <4>3, Moves
        <4>5. QED
          BY <1>2, <3>4, <4>2, <4>3, <4>4
      <3>7. \A p \in Objs : \E c \in {0, 1} :
                /\ Moved(wq[p], load[p], wq'[p], load'[p], h, c)
                /\ c = 1 => ~WorkOf(wq[p], 1, h)
        BY <3>6
      <3>8. QED
        BY <1>2, <1>16, <3>5, <3>7, BlockMoved DEF EndInv
    <2>3. QED
      BY <2>1, <2>2
  <1>18. QED
    BY <1>10, <1>11, <1>12, <1>15, <1>17 DEF EndInv


(* Steps of activation, deactivation and unload. *)
LEMMA UserEndStep ==
  ASSUME UseInv, UnloadAlone', EndInv, NEW u \in Users, UserStep(u)
  PROVE  EndInv'
  <1>1. /\ UNCHANGED <<disk, write, load, saved>>
        /\ fresh' = IF module' = "destroying" THEN Null ELSE fresh
        /\ IF ht' = ht \/ Up = {} THEN UNCHANGED <<base, current>>
           ELSE base' = NoBlocks /\ current' = Null
        /\ UserNext(u)
    BY DEF UserStep
  <1>2. /\ TypeInv /\ u \in Threads
        /\ pc \in [Threads -> UserPcs \cup AdminPcs \cup WriterPcs]
        /\ data \in [Threads -> Objs \cup {Null}]
        /\ e \in [Objs -> Epochs \cup {Null}] /\ ht \in Objs \cup {Null}
    BY DEF UseInv, IInv, TypeInv, TypeOK, Threads
  <1>3. /\ UNCHANGED <<wq, epvars, mounts>>
        /\ \A x \in Writers : pc'[x] = pc[x] /\ data'[x] = data[x]
        /\ ~DestroyDevices(u) => \A b \in Admins : pc'[b] = pc[b]
        /\ DestroyDevices(u) => ht' = Null /\ module' = "destroying"
    <2>1. CASE DestroyDevices(u)
      <3>1. \A x \in Writers : pc[x] \in WriterPcs /\ x \in Threads /\ x # u
        BY <1>2, ThreadsAssumption DEF TypeInv, TypeOK, Threads
      <3>2. \A x \in Writers : pc[x] = "idle"
        BY <2>1, <3>1 DEF DestroyDevices, WriterPcs
      <3>3. QED
        BY <1>2, <2>1, <3>1, <3>2 DEF DestroyDevices, wqvars
    <2>2. CASE ~DestroyDevices(u)
      <3>1. UNCHANGED <<wq, epvars, mounts>> /\ Others(u)
        BY <1>1, <1>2, <2>2, UserFrame
      <3>2. QED
        BY <2>2, <3>1, ThreadsAssumption DEF Others, Threads
    <2>3. QED
      BY <2>1, <2>2
  <1>4. ht # Null => e'[ht] = e[ht]
    <2> SUFFICES ASSUME ht # Null
                 PROVE  e'[ht] = e[ht]
      OBVIOUS
    <2>1. CASE CleanupTake(u)
      <3>1. pc[u] = "c_take" /\ data[u] # ht
        BY <2>1 DEF CleanupTake, UseInv, IInv, ObjInv, CleanerAlone, CleanPcs
      <3>2. QED
        BY <1>2, <2>1, <3>1 DEF CleanupTake
    <2>2. CASE (\E o \in Objs : RegisterInit(u, o)) \/ RegisterInsert(u) \/ RegisterFails(u)
      BY <2>2 DEF RegisterInit, RegisterInsert, RegisterFails
    <2>3. CASE UnregisterLookup(u) \/ UnregisterRemove(u) \/ CleanupLock(u) \/ CleanupMark(u)
      BY <2>3 DEF UnregisterLookup, UnregisterRemove, CleanupLock, CleanupMark, objvars
    <2>4. CASE \/ CleanupDefer(u) \/ CleanupDeferFails(u) \/ CleanupList(u)
               \/ DestroyDevices(u) \/ FlushWorklist(u)
      BY <2>4 DEF CleanupDefer, CleanupDeferFails, CleanupList, DestroyDevices, FlushWorklist,
                  objvars
    <2>5. QED
      BY <1>1, <2>1, <2>2, <2>3, <2>4 DEF UserNext
  <1>5. module' = "destroying" => ~MountPending'
    <2> SUFFICES ASSUME module' = "destroying", NEW b \in Admins, pc'[b] # "idle"
                 PROVE  FALSE
      BY DEF MountPending, MountPcs
    <2>1. b \in Users
      BY DEF UnloadAlone, Threads
    <2>2. QED
      BY <2>1, ThreadsAssumption
  <1>6. MountPending' => MountPending /\ fresh' = fresh
    BY <1>1, <1>3, <1>5 DEF MountPending
  <1>7. MountPending /\ ~MountPending' => DestroyDevices(u)
    BY <1>3 DEF MountPending
  <1>8. Up' = Up
    BY <1>3 DEF Up
  <1>9. Covered' => Covered /\ UNCHANGED <<base, current>> /\ (ht' = ht \/ Up = {})
    BY <1>1 DEF Covered
  <1>10. DataType'
    <2>1. base' \in [Blocks -> Contents] \cup {NoBlocks} /\ current' \in Epochs \cup {Null}
      BY <1>1 DEF EndInv, DataType
    <2>2. QED
      BY <1>1, <2>1 DEF EndInv, DataType
  <1>11. LoadInv'
    BY <1>1, <1>3 DEF EndInv, LoadInv, Aligned, Rank
  <1>12. WriteInv'
    BY <1>1, <1>3, <1>6, <1>8 DEF EndInv, WriteInv
  <1>13. ~Covered' => current' = Null
    <2>1. CASE UNCHANGED <<base, current>>
      BY <2>1 DEF EndInv, PeriodInv, Covered
    <2>2. CASE ~UNCHANGED <<base, current>>
      BY <1>1, <2>2
    <2>3. QED
      BY <2>1, <2>2
  <1>14. Covered' /\ Up # {} => ht' # Null /\ current' = e'[ht']
    BY <1>4, <1>9 DEF EndInv, PeriodInv
  <1>15. Covered' /\ ~MountPending' => current' # Null
    <2> SUFFICES ASSUME Covered', ~MountPending'
                 PROVE  current' # Null
      OBVIOUS
    <2>1. CASE ~MountPending
      BY <1>9, <2>1 DEF EndInv, PeriodInv
    <2>2. CASE MountPending
      <3>1. fresh \in Up /\ ht # Null
        BY <1>9, <2>2 DEF EndInv, PeriodInv
      <3>2. ht' = Null
        BY <1>3, <1>7, <2>2
      <3>3. QED
        BY <1>9, <3>1, <3>2
    <2>3. QED
      BY <2>1, <2>2
  <1>16. \A x \in Writers : Covered' /\ pc'[x] # "idle" => data'[x] = ht'
    <2> SUFFICES ASSUME NEW x \in Writers, Covered', pc'[x] # "idle"
                 PROVE  data'[x] = ht'
      OBVIOUS
    <2>1. write[x].m \in Up
      BY <1>3 DEF EndInv, WriteInv
    <2>2. QED
      BY <1>3, <1>9, <2>1 DEF EndInv, PeriodInv
  <1>17. PeriodInv'
    BY <1>1, <1>3, <1>6, <1>8, <1>9, <1>13, <1>14, <1>15, <1>16
       DEF EndInv, PeriodInv, epvars
  <1>18. BlockInv'
    <2>1. CASE ~Covered'
      BY <2>1 DEF BlockInv
    <2>2. CASE Covered'
      <3>1. Flight' = Flight
        BY <1>1, <1>3, FlightKept
      <3>2. QED
        BY <1>1, <1>3, <1>9, <2>2, <3>1, BlockSame DEF EndInv
    <2>3. QED
      BY <2>1, <2>2
  <1>19. QED
    BY <1>10, <1>11, <1>12, <1>17, <1>18 DEF EndInv

(* The work at the head of a queue saves its block, if nobody did. *)
LEMMA SaveStep ==
  ASSUME UseInv, EndInv, NEW o \in Objs, SaveBlock(o)
  PROVE  EndInv'
  <1>1. /\ UNCHANGED <<ht, e, epvars, mounts, pc, data, disk, write, base, current, fresh>>
        /\ wq[o] # <<>> /\ Head(wq[o]).kind = "snap"
        /\ wq' = [wq EXCEPT ![o] = Tail(wq[o])] /\ load' = [load EXCEPT ![o] = Tail(load[o])]
    BY DEF SaveBlock, RunSnapshot, objvars, thrvars
  <1>2. /\ wq \in [Objs -> Seq(Works)] /\ load \in [Objs -> Seq(Records)]
        /\ saved = [k \in Epochs \cup {Null} |-> saved[k]] /\ current \in Epochs \cup {Null}
    BY DEF UseInv, IInv, TypeInv, TypeOK, EndInv, DataType
  <1>3. PICK q \in Seq(Works) : q = wq[o]
    BY <1>2
  <1>4. PICK l \in Seq(Records) : l = load[o]
    BY <1>2
  <1>5. q # <<>> /\ Head(q) = q[1] /\ q[1].kind = "snap" /\ q[1] \in Works /\ 1 \in DOMAIN q
        /\ 1 \in 1..Len(q)
    BY <1>1, <1>3
  <1>6. Aligned(q, l)
    BY <1>3, <1>4 DEF EndInv, LoadInv
  <1>7. /\ l # <<>> /\ Head(l) = BlockAt(q, l, 1) /\ Aligned(Tail(q), Tail(l))
    BY <1>5, <1>6, LoadTail
  <1>8. PICK k \in Epochs \cup {Null} : k = IF q[1].dated THEN q[1].ep ELSE Null
    BY <1>5 DEF Works
  <1>9. PICK r \in Records : r = Head(l)
    BY <1>7
  <1>10. saved' = [saved EXCEPT ![k] = AddBlock(saved[k], r.blk, r.old)]
    BY <1>3, <1>4, <1>5, <1>8, <1>9 DEF SaveBlock
  <1>11. /\ saved'[k] = AddBlock(saved[k], r.blk, r.old)
         /\ \A h \in Epochs \cup {Null} : h # k => saved'[h] = saved[h]
         /\ saved' = [h \in Epochs \cup {Null} |-> saved'[h]]
    BY <1>2, <1>10
  <1>12. /\ wq'[o] = Tail(q) /\ load'[o] = Tail(l) /\ load' \in [Objs -> Seq(Records)]
         /\ \A p \in Objs : p # o => wq'[p] = wq[p] /\ load'[p] = load[p]
    <2>1. Tail(l) \in Seq(Records)
      BY <1>7
    <2>2. QED
      BY <1>1, <1>2, <1>3, <1>4, <2>1
  <1>13. DataType'
    BY <1>1, <1>11, <1>12 DEF EndInv, DataType
  <1>14. LoadInv'
    <2>1. ASSUME NEW p \in Objs
          PROVE  Len(load'[p]) = Rank(wq'[p], Len(wq'[p]))
      <3>1. CASE p = o
        BY <1>7, <1>12, <3>1 DEF Aligned
      <3>2. CASE p # o
        BY <1>12, <3>2 DEF EndInv, LoadInv, Aligned
      <3>3. QED
        BY <3>1, <3>2
    <2>2. QED
      BY <2>1 DEF LoadInv, Aligned, Rank
  <1>15. Up' = Up /\ (MountPending' <=> MountPending) /\ (Covered' <=> Covered)
    BY <1>1 DEF Up, MountPending, Covered
  <1>16. WriteInv'
    BY <1>1, <1>15 DEF EndInv, WriteInv
  <1>17. \A ep \in Epochs : epmem[ep] = "unused" => DOMAIN saved'[ep] = {}
    <2> SUFFICES ASSUME NEW ep \in Epochs, epmem[ep] = "unused"
                 PROVE  DOMAIN saved'[ep] = {}
      OBVIOUS
    <2>1. epmem[q[1].ep] = "live"
      BY <1>3, <1>5, UseNoFreed DEF NoUseAfterFree
    <2>2. ep # k
      BY <1>8, <2>1, NullAssumption
    <2>3. QED
      BY <1>11, <2>2 DEF EndInv, PeriodInv
  <1>18. PeriodInv'
    BY <1>1, <1>15, <1>17 DEF EndInv, PeriodInv, epvars
  <1>19. Flight' = Flight
    BY <1>1, FlightKept
  <1>20. PICK h : h = current
    OBVIOUS
  <1>21. ASSUME NEW p \in Objs
         PROVE  Moved(wq[p], load[p], wq'[p], load'[p], h, IF p = o THEN 1 ELSE 0)
    <2>1. CASE p = o
      BY <1>3, <1>4, <1>5, <1>6, <1>12, <2>1, Moves
    <2>2. CASE p # o
      <3>1. PICK q2 \in Seq(Works) : q2 = wq[p]
        BY <1>2
      <3>2. PICK l2 \in Seq(Records) : l2 = load[p]
        BY <1>2
      <3>3. Aligned(q2, l2)
        BY <3>1, <3>2 DEF EndInv, LoadInv
      <3>4. Moved(q2, l2, q2, l2, h, 0)
        BY <3>3, Moves
      <3>5. QED
        BY <1>12, <2>2, <3>1, <3>2, <3>4
    <2>3. QED
      BY <2>1, <2>2
  <1>22. BlockInv'
    <2>1. CASE ~WorkOf(q, 1, h) \/ h = Null
      <3>1. ~WorkOf(q, 1, h)
        BY <1>5, <2>1, NullAssumption DEF WorkOf, Works
      <3>2. h # Null => saved'[h] = saved[h]
        BY <1>2, <1>5, <1>8, <1>11, <1>20, <3>1 DEF WorkOf
      <3>3. \A p \in Objs : \E c \in {0, 1} :
                /\ Moved(wq[p], load[p], wq'[p], load'[p], h, c)
                /\ c = 1 => ~WorkOf(wq[p], 1, h)
        <4>1. SUFFICES ASSUME NEW p \in Objs
                       PROVE  \E c \in {0, 1} :
                                /\ Moved(wq[p], load[p], wq'[p], load'[p], h, c)
                                /\ c = 1 => ~WorkOf(wq[p], 1, h)
          OBVIOUS
        <4>2. CASE p = o
          BY <1>3, <1>21, <3>1, <4>2
        <4>3. CASE p # o
          BY <1>21, <4>3
        <4>4. QED
          BY <4>2, <4>3
      <3>4. QED
        BY <1>1, <1>19, <1>20, <3>2, <3>3, BlockMoved DEF EndInv
    <2>2. CASE WorkOf(q, 1, h) /\ h # Null
      <3>1. SUFFICES ASSUME Covered',
                            NEW k2, NEW d, NEW bs, NEW s, NEW Q, NEW L, NEW F,
                            k2 = current', d = disk', bs = base', s = saved'[current'],
                            Q = wq', L = load', F = Flight'
                     PROVE  IF k2 = Null THEN d = bs ELSE Sound(k2, d, bs, s, Q, L, F)
        BY DEF BlockInv
      <3>2. Covered /\ k2 = h /\ d = disk /\ bs = base /\ F = Flight
        BY <1>1, <1>15, <1>19, <1>20, <3>1
      <3>3. PICK Q0 : Q0 = wq
        OBVIOUS
      <3>4. PICK L0 : L0 = load
        OBVIOUS
      <3>5. PICK s0 : s0 = saved[h]
        OBVIOUS
      <3>6. Sound(h, d, bs, s0, Q0, L0, F)
        BY <1>20, <2>2, <3>2, <3>3, <3>4, <3>5 DEF EndInv, BlockInv
      <3>7. Q0[o] = q /\ L0[o] = l /\ Q[o] = Tail(q) /\ L[o] = Tail(l)
            /\ \A p \in Objs : p # o => Q[p] = Q0[p] /\ L[p] = L0[p]
        BY <1>3, <1>4, <1>12, <3>1, <3>3, <3>4
      <3>8. q[1].dated /\ k = h
        <4>1. SoundWork(h, bs, s0, Q0[o], L0[o], 1)
          BY <2>2, <3>6, <3>7 DEF Sound
        <4>2. q[1].dated
          BY <3>7, <4>1 DEF SoundWork
        <4>3. QED
          BY <1>8, <2>2, <4>2 DEF WorkOf
      <3>9. s = AddBlock(s0, BlockAt(q, l, 1).blk, BlockAt(q, l, 1).old)
        BY <1>7, <1>9, <1>11, <3>1, <3>2, <3>5, <3>8
      <3>10. Moved(Q0[o], L0[o], Q[o], L[o], h, 1)
        BY <1>5, <1>6, <3>7, Moves
      <3>11. Sound(h, d, bs, AddBlock(s0, BlockAt(Q0[o], L0[o], 1).blk,
                                          BlockAt(Q0[o], L0[o], 1).old), Q, L, F)
        BY <2>2, <3>6, <3>7, <3>10, SoundSave
      <3>12. QED
        BY <2>2, <3>2, <3>7, <3>9, <3>11
    <2>3. QED
      BY <2>1, <2>2
  <1>23. QED
    BY <1>13, <1>14, <1>16, <1>18, <1>22 DEF EndInv

(* Steps of the workqueues and of the grace periods. *)
LEMMA KernelEndStep ==
  ASSUME UseInv, EndInv, NEW o \in Objs, KernelStep(o)
  PROVE  EndInv'
  <1>1. /\ UNCHANGED <<ht, e, n_currently_mounted, dated, mounts, pc, data,
                       disk, write, load, saved, base, current, fresh>>
        /\ KernelNext(o)
    BY KernelFrame DEF KernelStep, KernelNext, thrvars, datavars
  <1>2. /\ wq \in [Objs -> Seq(Works)] /\ load \in [Objs -> Seq(Records)]
        /\ epmem \in [Epochs -> {"unused", "live", "freed"}]
    BY DEF UseInv, IInv, TypeInv, TypeOK, EndInv, DataType
  <1>3. \A ep \in Epochs : epmem'[ep] = "unused" => epmem[ep] = "unused"
    BY <1>2 DEF KernelStep, FreeObject, RunCleanupEpoch, WaddwDestroy, WaddwEpoch, epvars
  <1>4. \/ wq' = wq
        \/ wq[o] # <<>> /\ Head(wq[o]).kind # "snap" /\ wq' = [wq EXCEPT ![o] = Tail(wq[o])]
    BY DEF KernelStep, FreeObject, RunCleanupEpoch, WaddwDestroy, WaddwEpoch, wqvars
  <1>5. DataType'
    BY <1>1 DEF EndInv, DataType
  <1>6. Up' = Up /\ (MountPending' <=> MountPending) /\ (Covered' <=> Covered)
    BY <1>1 DEF Up, MountPending, Covered
  <1>7. WriteInv'
    BY <1>1, <1>6 DEF EndInv, WriteInv
  <1>8. PeriodInv'
    BY <1>1, <1>3, <1>6 DEF EndInv, PeriodInv
  <1>9. Flight' = Flight
    BY <1>1, FlightKept
  <1>10. CASE wq' = wq
    <2>1. LoadInv'
      BY <1>1, <1>10 DEF EndInv, LoadInv, Aligned, Rank
    <2>2. BlockInv'
      BY <1>1, <1>9, <1>10, BlockSame DEF EndInv
    <2>3. QED
      BY <1>5, <1>7, <1>8, <2>1, <2>2 DEF EndInv
  <1>11. CASE wq[o] # <<>> /\ Head(wq[o]).kind # "snap" /\ wq' = [wq EXCEPT ![o] = Tail(wq[o])]
    <2>1. PICK q \in Seq(Works) : q = wq[o]
      BY <1>2
    <2>2. PICK l \in Seq(Records) : l = load[o]
      BY <1>2
    <2>3. q # <<>> /\ q[1].kind # "snap" /\ Aligned(q, l)
      BY <1>11, <2>1, <2>2 DEF EndInv, LoadInv
    <2>4. /\ wq'[o] = Tail(q) /\ load' = load
          /\ \A p \in Objs : p # o => wq'[p] = wq[p]
      BY <1>1, <1>2, <1>11, <2>1
    <2>5. LoadInv'
      <3>1. Aligned(Tail(q), l)
        BY <2>3, LoadTail
      <3>2. ASSUME NEW p \in Objs
            PROVE  Len(load'[p]) = Rank(wq'[p], Len(wq'[p]))
        <4>1. CASE p = o
          BY <2>2, <2>4, <3>1, <4>1 DEF Aligned
        <4>2. CASE p # o
          BY <2>4, <4>2 DEF EndInv, LoadInv, Aligned
        <4>3. QED
          BY <4>1, <4>2
      <3>3. QED
        BY <3>2 DEF LoadInv, Aligned, Rank
    <2>6. PICK h : h = current
      OBVIOUS
    <2>7. \A p \in Objs : \E c \in {0, 1} :
              /\ Moved(wq[p], load[p], wq'[p], load'[p], h, c)
              /\ c = 1 => ~WorkOf(wq[p], 1, h)
      <3>1. SUFFICES ASSUME NEW p \in Objs
                     PROVE  \E c \in {0, 1} :
                              /\ Moved(wq[p], load[p], wq'[p], load'[p], h, c)
                              /\ c = 1 => ~WorkOf(wq[p], 1, h)
        OBVIOUS
      <3>2. CASE p = o
        <4>1. Moved(q, l, Tail(q), l, h, 1) /\ ~WorkOf(q, 1, h)
          BY <2>3, Moves DEF WorkOf
        <4>2. QED
          BY <2>1, <2>2, <2>4, <3>2, <4>1
      <3>3. CASE p # o
        <4>1. PICK q2 \in Seq(Works) : q2 = wq[p]
          BY <1>2
        <4>2. PICK l2 \in Seq(Records) : l2 = load[p]
          BY <1>2
        <4>3. Aligned(q2, l2)
          BY <4>1, <4>2 DEF EndInv, LoadInv
        <4>4. Moved(q2, l2, q2, l2, h, 0)
          BY <4>3, Moves
        <4>5. QED
          BY <2>4, <3>3, <4>1, <4>2, <4>4
      <3>4. QED
        BY <3>2, <3>3
    <2>8. BlockInv'
      BY <1>1, <1>9, <2>6, <2>7, BlockMoved DEF EndInv
    <2>9. QED
      BY <1>5, <1>7, <1>8, <2>5, <2>8 DEF EndInv
  <1>12. QED
    BY <1>4, <1>10, <1>11


(* A step that changes nothing. *)
LEMMA StutterEndStep ==
  ASSUME EndInv, UNCHANGED allvars
  PROVE  EndInv'
  <1>1. /\ UNCHANGED <<ht, e, epvars, wq, mounts, pc, data>>
        /\ UNCHANGED <<disk, write, load, saved, base, current, fresh>>
    BY DEF allvars, vars, objvars, wqvars, thrvars, datavars
  <1>2. DataType'
    BY <1>1 DEF EndInv, DataType
  <1>3. LoadInv'
    BY <1>1 DEF EndInv, LoadInv, Aligned, Rank
  <1>4. Up' = Up /\ (MountPending' <=> MountPending) /\ (Covered' <=> Covered)
    BY <1>1 DEF Up, MountPending, Covered
  <1>5. WriteInv'
    BY <1>1, <1>4 DEF EndInv, WriteInv
  <1>6. PeriodInv'
    BY <1>1, <1>4 DEF EndInv, PeriodInv, epvars
  <1>7. Flight' = Flight
    BY <1>1, FlightKept
  <1>8. BlockInv'
    BY <1>1, <1>7, BlockSame DEF EndInv
  <1>9. QED
    BY <1>2, <1>3, <1>5, <1>6, <1>8 DEF EndInv

-----------------------------------------------------------------------------
AllInv == UseInv /\ UnloadAlone /\ EndInv

(* Every step keeps what EpochCountProofs has of it and the data. *)
LEMMA AllStep ==
  ASSUME ~LazyUmount, ~OverlapEvents, ~ActivateMounted, ~AllocMayFail, ~EarlyWrites
  PROVE  AllInv /\ [EndNext]_allvars => AllInv'
  <1> SUFFICES ASSUME AllInv, [EndNext]_allvars
               PROVE  AllInv'
    OBVIOUS
  <1>1. UseInv /\ UnloadAlone /\ EndInv /\ WriteInv /\ TypeInv
    BY DEF AllInv, EndInv, UseInv, IInv
  <1>2. [Next]_vars
    <2>1. Carried
      BY <1>1 DEF EndInv, DataType, WriteInv, Carried, Up
    <2>2. QED
      BY <2>1, Inherits
  <1>3. UseInv'
    BY <1>1, <1>2, UseStep
  <1>4. UnloadAlone'
    BY <1>1, <1>2, AloneStep
  <1>5. CASE UNCHANGED allvars
    BY <1>1, <1>3, <1>4, <1>5, StutterEndStep DEF AllInv
  <1>6. ASSUME NEW w \in Writers,
               \/ \E m \in Mounts : EnterWrite(w, m)
               \/ \E b \in Blocks, v \in Contents : ChangeBlock(w, b, v)
               \/ ProbeWrite(w) \/ ProbeSteps(w) \/ QueueBlock(w) \/ LeaveWrite(w)
        PROVE  EndInv'
    BY <1>1, <1>6, EnterStep, ChangeStep, ProbeWriteStep, ProbeStepsStep, QueueBlockStep,
       LeaveStep
  <1>7. ASSUME NEW a \in Admins,
               \/ \E m \in Mounts : MountDevice(a, m) \/ UmountDevice(a, m)
               \/ CountEvent(a)
               \/ \E ep \in Epochs : BeginEpoch(a, ep)
        PROVE  EndInv'
    BY <1>1, <1>7, MountStep, UmountStep, CountEventStep, BeginStep
  <1>8. ASSUME NEW u \in Users, UserStep(u)
        PROVE  EndInv'
    BY <1>1, <1>4, <1>8, UserEndStep
  <1>9. ASSUME NEW o \in Objs, SaveBlock(o) \/ KernelStep(o)
        PROVE  EndInv'
    BY <1>1, <1>9, SaveStep, KernelEndStep
  <1>10. CASE EndRest
    <2>1. UNCHANGED allvars
      BY <1>10 DEF EndRest, Rest, allvars
    <2>2. QED
      BY <1>1, <1>3, <1>4, <2>1, StutterEndStep DEF AllInv
  <1>11. QED
    BY <1>3, <1>4, <1>5, <1>6, <1>7, <1>8, <1>9, <1>10 DEF EndNext, AllInv

(* Where nothing is under way, the snapshot undoes the period. *)
LEMMA EndRecovers == EndInv => Recovers
  <1> SUFFICES ASSUME EndInv, Quiet, Covered, Up = {}
               PROVE  current # Null /\ Restored(current) = base
    BY DEF Recovers
  <1>1. ~MountPending
    BY DEF Quiet, NoEventPending, MountPending, MountPcs
  <1>2. current # Null
    BY <1>1 DEF EndInv, PeriodInv
  <1>3. Flight = {}
    <2>1. \A w \in Writers : write[w].stage = "none"
      BY DEF Quiet, NoWrite
    <2>2. QED
      BY <2>1 DEF Flight, InFlight
  <1>4. PICK k : k = current
    OBVIOUS
  <1>5. PICK s : s = saved[current]
    OBVIOUS
  <1>6. PICK Q : Q = wq
    OBVIOUS
  <1>7. PICK L : L = load
    OBVIOUS
  <1>8. Sound(k, disk, base, s, Q, L, {})
    BY <1>2, <1>3, <1>4, <1>5, <1>6, <1>7 DEF EndInv, BlockInv
  <1>9. \A o \in Objs : \A i \in Nat : ~WorkOf(Q[o], i, k)
    BY <1>6 DEF Quiet, WorkOf
  <1>10. /\ \A b \in DOMAIN s : s[b] = base[b]
         /\ \A b \in Blocks : disk[b] = base[b] \/ b \in DOMAIN s
    BY <1>8, <1>9 DEF Sound, Kept
  <1>11. base \in [Blocks -> Contents]
    BY DEF EndInv, DataType, Covered
  <1>12. \A b \in Blocks : Restored(current)[b] = base[b]
    BY <1>5, <1>10 DEF Restored
  <1>13. Restored(current) = base
    BY <1>11, <1>12 DEF Restored
  <1>14. QED
    BY <1>2, <1>13

(* A writer has a mount in every state, whatever the switches. *)
LEMMA CarriedStep ==
  ASSUME Carried, EndNext \/ UNCHANGED allvars
  PROVE  Carried'
  <1>1. ASSUME UNCHANGED <<disk, write>> PROVE Carried'
    BY <1>1 DEF Carried
  <1>2. ASSUME NEW w \in Writers,
               \/ \E m \in Mounts : EnterWrite(w, m)
               \/ \E b \in Blocks, v \in Contents : ChangeBlock(w, b, v)
               \/ ProbeWrite(w) \/ ProbeSteps(w) \/ QueueBlock(w) \/ LeaveWrite(w)
        PROVE  Carried'
    <2>1. ASSUME NEW m \in Mounts, EnterWrite(w, m) PROVE Carried'
      <3>1. write[w] \in WriteRecords /\ TestDevice \in BOOLEAN
        BY DEF Carried, TestDevice
      <3>2. PICK c \in BOOLEAN : c = TestDevice
        BY <3>1
      <3> DEFINE r == [write[w] EXCEPT !.stage = "entered", !.m = m, !.caught = c]
      <3>3. r \in WriteRecords /\ r.m \in Mounts
        BY <3>1 DEF WriteRecords, Stages
      <3>4. write' = [write EXCEPT ![w] = r] /\ UNCHANGED disk
        BY <2>1, <3>2 DEF EnterWrite
      <3> HIDE DEF r
      <3>5. QED
        BY <3>3, <3>4 DEF Carried
    <2>2. ASSUME NEW b \in Blocks, NEW v \in Contents, ChangeBlock(w, b, v) PROVE Carried'
      <3> DEFINE r == [write[w] EXCEPT !.stage = "changed", !.blk = b, !.old = disk[b]]
      <3>1. write[w] \in WriteRecords /\ disk[b] \in Contents /\ write[w].m \in Mounts
        BY <2>2 DEF Carried, ChangeBlock
      <3>2. r \in WriteRecords /\ r.m \in Mounts
        BY <3>1 DEF WriteRecords, Stages
      <3>3. write' = [write EXCEPT ![w] = r] /\ disk' = [disk EXCEPT ![b] = v]
        BY <2>2 DEF ChangeBlock
      <3> HIDE DEF r
      <3>4. disk' \in [Blocks -> Contents]
        BY <3>3 DEF Carried
      <3>5. QED
        BY <3>2, <3>3, <3>4 DEF Carried
    <2>3. CASE ProbeWrite(w)
      <3> DEFINE r == [write[w] EXCEPT !.stage = "probed"]
      <3>1. write[w] \in WriteRecords /\ write[w].m \in Mounts
        BY <2>3 DEF Carried, ProbeWrite
      <3>2. r \in WriteRecords /\ r.m \in Mounts
        BY <3>1 DEF WriteRecords, Stages
      <3>3. write' = [write EXCEPT ![w] = r] /\ UNCHANGED disk
        BY <2>3 DEF ProbeWrite
      <3> HIDE DEF r
      <3>4. QED
        BY <3>2, <3>3 DEF Carried
    <2>4. CASE ProbeSteps(w) \/ QueueBlock(w)
      BY <1>1, <2>4 DEF ProbeSteps, QueueBlock, datavars
    <2>5. CASE LeaveWrite(w)
      <3>1. NoWrite \in WriteRecords /\ NoWrite.stage = "none"
        BY DEF NoWrite, WriteRecords, Stages
      <3>2. write' = [write EXCEPT ![w] = NoWrite] /\ UNCHANGED disk
        BY <2>5 DEF LeaveWrite
      <3>3. QED
        BY <3>1, <3>2 DEF Carried
    <2>6. QED
      BY <1>2, <2>1, <2>2, <2>3, <2>4, <2>5
  <1>3. ASSUME NEW a \in Admins,
               \/ \E m \in Mounts : MountDevice(a, m) \/ UmountDevice(a, m)
               \/ CountEvent(a)
               \/ \E ep \in Epochs : BeginEpoch(a, ep)
        PROVE  UNCHANGED <<disk, write>>
    BY <1>3 DEF MountDevice, UmountDevice, CountEvent, BeginEpoch, datavars
  <1>4. ASSUME NEW u \in Users, UserStep(u)
        PROVE  UNCHANGED <<disk, write>>
    BY <1>4 DEF UserStep
  <1>5. ASSUME NEW o \in Objs, SaveBlock(o) \/ KernelStep(o)
        PROVE  UNCHANGED <<disk, write>>
    BY <1>5 DEF SaveBlock, KernelStep, datavars
  <1>6. CASE EndRest \/ UNCHANGED allvars
    BY <1>1, <1>6 DEF EndRest, allvars, datavars
  <1>7. QED
    BY <1>1, <1>2, <1>3, <1>4, <1>5, <1>6 DEF EndNext

\* The composition of the writers, the works and their data with DeviceEpochs
\* keeps to DeviceEpochs, whatever the switches and also when files are written
\* before the mount call has returned: the probe of a write, its work, mounts,
\* requests and the unload are steps of DeviceEpochs, and the rest of a write
\* stutters.
THEOREM ImplementsDeviceEpochs == EndSpec => Spec
  <1>1. EndInit => Init /\ Carried
    BY DEF EndInit, Carried, NoWrite, WriteRecords, Stages
  <1>2. Carried /\ [EndNext]_allvars => Carried'
    BY CarriedStep
  <1>3. Carried /\ [EndNext]_allvars => [Next]_vars
    BY Inherits
  <1>4. QED
    BY <1>1, <1>2, <1>3, PTL DEF EndSpec, Spec

\* What is proved of DeviceEpochs holds in the composition: handles, workqueues
\* and the ownership of epochs in any use of the module; no epoch lost and no
\* work after the unload when allocations succeed; the counters, and no use of a
\* freed epoch, when besides mounts and umounts come one after the other, the
\* device is activated while it is not mounted and, for the last, no umount is
\* lazy.
THEOREM EpochsSafe ==
  EndSpec => /\ []HandleLive /\ []WorkqueueUsable /\ []NoDoubleFree
             /\ ~AllocMayFail => []NoLostEpoch /\ []NoWorkAfterUnload
             /\ ~AllocMayFail /\ ~OverlapEvents /\ ~ActivateMounted =>
                   []CountMatchesMounts
             /\ ~AllocMayFail /\ ~OverlapEvents /\ ~ActivateMounted /\ ~LazyUmount =>
                   []NoUseAfterFree
  <1>1. ~AllocMayFail => (Spec => []NoLostEpoch /\ []NoWorkAfterUnload)
    BY EpochsNotLost, NothingOutlivesModule
  <1>2. ~AllocMayFail /\ ~OverlapEvents /\ ~ActivateMounted => (Spec => []CountMatchesMounts)
    BY CountsAreMounts
  <1>3. ~AllocMayFail /\ ~OverlapEvents /\ ~ActivateMounted /\ ~LazyUmount =>
           (Spec => []NoUseAfterFree)
    BY NoUseOfFreedEpochs
  <1>4. QED
    BY <1>1, <1>2, <1>3, ImplementsDeviceEpochs, HandlesStayLive, WorkqueuesUsable,
       NoDoubleFrees, PTL

\* The device can be restored to what it was before its first mount: once a
\* device that was active for as long as it was mounted is unmounted and its works
\* are done, the snapshot of its epoch undoes every write of the period, also when
\* the device was deactivated or the module unloaded right after the umount.  It
\* is assumed that mounts and umounts come one after the other and are not lazy,
\* that the device is activated while it is not mounted, that allocations succeed,
\* and that nobody writes before the mount call has returned.
THEOREM DeviceRecovers ==
  ASSUME ~LazyUmount, ~OverlapEvents, ~ActivateMounted, ~AllocMayFail, ~EarlyWrites
  PROVE  EndSpec => []Recovers
  <1>1. EndInit => AllInv
    <2>1. EndInit => Init
      BY DEF EndInit
    <2>2. Init => UnloadAlone
      BY DEF Init, UnloadAlone, Threads
    <2>3. QED
      BY <2>1, <2>2, InitUse, InitEnd DEF AllInv
  <1>2. AllInv /\ [EndNext]_allvars => AllInv'
    BY AllStep
  <1>3. AllInv => Recovers
    BY EndRecovers DEF AllInv
  <1>4. QED
    BY <1>1, <1>2, <1>3, PTL DEF EndSpec


=============================================================================
