---------------------------- MODULE DhtNodeProofs ----------------------------
(***************************************************************************)
(* DhtNode, for ids of every length, buckets and tables of every size and  *)
(* every number of nodes, announces, dumps and kills: the tree of buckets  *)
(* is sound, only bad nodes are evicted, the peer store keeps its limits   *)
(* and its tokens, and the id is kept.                                     *)
(***************************************************************************)
EXTENDS DhtNode, FiniteSetTheorems, SequenceTheorems, WellFoundedInduction, TLAPS

-----------------------------------------------------------------------------
(* Recursion over 0..n *)

\* A set of naturals has a least element.
LEMMA LeastNat ==
    ASSUME NEW T \in SUBSET Nat, T # {}
    PROVE  \E x \in T : \A y \in T : x <= y
<1> DEFINE R == OpToRel(<, Nat)
<1>1. \A x, y \in Nat : x < y => <<x, y>> \in R
  BY DEF OpToRel
<1>2. IsWellFoundedOn(R, Nat)
  BY NatLessThanWellFounded
<1> HIDE DEF R
<1>3. PICK x \in T : \A y \in T : ~(<<y, x>> \in R)
  BY <1>2, WFMin
<1>4. ASSUME NEW y \in T PROVE x <= y
  <2>1. x \in Nat /\ y \in Nat
    OBVIOUS
  <2>2. ~(y < x)
    BY <1>1, <1>3, <2>1
  <2> QED BY <2>1, <2>2
<1> QED BY <1>4

\* What holds of 0 and is handed from k - 1 to k holds up to n.
LEMMA UpTo ==
    ASSUME NEW n \in Nat, NEW T, 0 \in T, \A k \in 1..n : k - 1 \in T => k \in T
    PROVE  \A k \in 0..n : k \in T
<1> DEFINE B == {k \in 0..n : k \notin T}
<1> SUFFICES ASSUME B # {} PROVE FALSE
  OBVIOUS
<1>1. B \in SUBSET Nat
  OBVIOUS
<1>2. PICK k \in B : \A m \in B : k <= m
  BY <1>1, LeastNat
<1>3. k # 0 /\ k \in 1..n /\ k - 1 \in 0..n
  BY <1>2
<1>4. k - 1 \notin B
  BY <1>2, <1>3
<1> QED BY <1>2, <1>3, <1>4

\* F can be applied n times to c.
IsIteration(g, F, c, n) == g = [k \in 0..n |-> IF k = 0 THEN c ELSE F[g[k - 1]]]

LEMMA Iterate ==
    ASSUME NEW S, NEW F \in [S -> S], NEW c \in S, NEW n \in Nat
    PROVE  \E g \in [0..n -> S] : IsIteration(g, F, c, n)
<1> DEFINE T == {k \in Nat : \E g \in [0..k -> S] : IsIteration(g, F, c, k)}
<1>1. 0 \in T
  <2>1. IsIteration([k \in 0..0 |-> c], F, c, 0)
    BY DEF IsIteration
  <2> QED BY <2>1
<1>2. ASSUME NEW k \in 1..n, k - 1 \in T PROVE k \in T
  <2>1. PICK g \in [0..(k - 1) -> S] : IsIteration(g, F, c, k - 1)
    BY <1>2
  <2> DEFINE h == [i \in 0..k |-> IF i = k THEN F[g[k - 1]] ELSE g[i]]
  <2>2. k - 1 \in 0..(k - 1) /\ k \in Nat /\ k # 0
    BY <1>2
  <2>3. h \in [0..k -> S]
    BY <2>2
  <2>4. ASSUME NEW i \in 0..k PROVE h[i] = IF i = 0 THEN c ELSE F[h[i - 1]]
    <3>1. CASE i = k
      BY <2>2, <3>1
    <3>2. CASE i # k
      <4>1. i \in 0..(k - 1) /\ (i # 0 => i - 1 \in 0..k /\ i - 1 # k)
        BY <2>2, <3>2
      <4>2. g[i] = IF i = 0 THEN c ELSE F[g[i - 1]]
        BY <2>1, <4>1 DEF IsIteration
      <4> QED BY <3>2, <4>1, <4>2
    <3> QED BY <3>1, <3>2
  <2>5. IsIteration(h, F, c, k)
    BY <2>3, <2>4 DEF IsIteration
  <2> QED BY <2>2, <2>3, <2>5
<1> HIDE DEF T
<1>3. n \in T
  BY <1>1, <1>2, UpTo
<1> QED BY <1>3 DEF T

-----------------------------------------------------------------------------
(* Ranges of ids *)

\* The bits that all ids of a bucket share.
Prefix(b) == 0..(IdBits - b.bits - 1)

Within(b, n) == \A i \in Prefix(b) : n[i] = b.start[i]

\* The range of a bucket: its prefix followed by zeros, up to its prefix
\* followed by ones.
Shape(b) ==
    /\ b.bits \in 0..IdBits /\ b.start \in Ids /\ b.end \in Ids
    /\ \A i \in Bits : IF i \in Prefix(b) THEN b.end[i] = b.start[i]
                       ELSE b.start[i] = 0 /\ b.end[i] = 1

\* A range is the ids with its prefix.
LEMMA RangeIsPrefix ==
    ASSUME NEW b, Shape(b), NEW n \in Ids
    PROVE  InRange(b, n) <=> Within(b, n)
<1>0. /\ IdBits \in Nat /\ b.bits \in 0..IdBits /\ Prefix(b) \subseteq Bits
      /\ \A i \in Bits : n[i] \in {0, 1} /\ b.start[i] \in {0, 1} /\ b.end[i] \in {0, 1}
  BY IdAssumption DEF Shape, Prefix, Bits, Ids
<1>1. ASSUME Within(b, n) PROVE InRange(b, n)
  <2>1. \A i \in Bits : ~(n[i] < b.start[i]) /\ ~(b.end[i] < n[i])
    BY <1>0, <1>1 DEF Within, Shape
  <2> QED BY <2>1 DEF InRange, Before
<1>2. ASSUME ~Within(b, n) PROVE ~InRange(b, n)
  <2> DEFINE T == {i \in Prefix(b) : n[i] # b.start[i]}
  <2>1. T \in SUBSET Nat /\ T # {}
    BY <1>0, <1>2 DEF Within, Bits
  <2> HIDE DEF T
  <2>2. PICK i \in T : \A j \in T : i <= j
    BY <2>1, LeastNat
  <2>3. i \in Bits /\ i \in Nat /\ n[i] # b.start[i] /\ b.end[i] = b.start[i]
    BY <1>0, <2>2 DEF T, Bits, Shape
  <2>4. \A j \in 0..(i - 1) : n[j] = b.start[j] /\ n[j] = b.end[j]
    <3> SUFFICES ASSUME NEW j \in 0..(i - 1) PROVE n[j] = b.start[j] /\ n[j] = b.end[j]
      OBVIOUS
    <3>1. j \in Prefix(b) /\ j \notin T
      BY <1>0, <2>2, <2>3 DEF T, Prefix
    <3> QED BY <1>0, <3>1 DEF T, Shape
  <2>5. n[i] < b.start[i] \/ b.end[i] < n[i]
    BY <1>0, <2>3
  <2> QED BY <2>3, <2>4, <2>5 DEF InRange, Before
<1> QED BY <1>1, <1>2

-----------------------------------------------------------------------------
(* The tree of buckets *)

Buckets == [bits : 0..IdBits, start : Ids, end : Ids, left : Nat, right : Nat,
            nodes : SUBSET Ids]

\* Bucket j is the half of bucket i in which the next bit is v.
Half(data, i, j, v) ==
    /\ j \in 1..Len(data)
    /\ data[j].bits = data[i].bits - 1
    /\ \A k \in Prefix(data[i]) : data[j].start[k] = data[i].start[k]
    /\ data[j].start[IdBits - data[i].bits] = v

\* A bucket that was split.
Inner(data, i, self_id) ==
    /\ data[i].bits > 0
    /\ data[i].nodes = {}
    /\ Within(data[i], self_id)
    /\ Half(data, i, data[i].left, 0) /\ Half(data, i, data[i].right, 1)

HasParent(data, j) ==
    \E i \in 1..Len(data) : ~IsLeaf(data[i]) /\ j \in {data[i].left, data[i].right}

Apart(b, c) == \A n \in Ids : ~(Within(b, n) /\ Within(c, n))

NodesFit(b) ==
    /\ IsFiniteSet(b.nodes) /\ Cardinality(b.nodes) <= K
    /\ \A n \in b.nodes : Within(b, n)

\* The shape of the tree: the root is all ids, a bucket that was split has its two
\* halves below it, no bucket hangs in the air, and leaves do not overlap.
TreeInv(data, self_id) ==
    /\ data \in Seq(Buckets) /\ Len(data) > 0 /\ data[1].bits = IdBits
    /\ \A i \in 1..Len(data) : Shape(data[i]) /\ NodesFit(data[i])
    /\ \A i \in 1..Len(data) : ~IsLeaf(data[i]) => Inner(data, i, self_id)
    /\ \A i \in 2..Len(data) : HasParent(data, i)
    /\ \A i, j \in 1..Len(data) :
          IsLeaf(data[i]) /\ IsLeaf(data[j]) /\ i # j => Apart(data[i], data[j])

\* One step of the descent of get_leaf.
Down(data, n, i) ==
    LET b == data[i]
    IN  CASE IsLeaf(b) -> i
          [] ~IsLeaf(b) /\ InRange(data[b.left], n) -> b.left
          [] OTHER -> b.right

\* A step stays on the buckets that hold the id, and gets to a smaller one.
LEMMA DownFacts ==
    ASSUME NEW data, NEW self_id, TreeInv(data, self_id), NEW n \in Ids,
           NEW i \in 1..Len(data), Within(data[i], n)
    PROVE  LET j == Down(data, n, i) IN
           /\ j \in 1..Len(data)
           /\ Within(data[j], n)
           /\ IsLeaf(data[i]) => j = i
           /\ ~IsLeaf(data[i]) => data[i].bits > 0 /\ data[j].bits = data[i].bits - 1
<1>1. CASE IsLeaf(data[i])
  BY <1>1 DEF Down
<1>2. CASE ~IsLeaf(data[i])
  <2> DEFINE l == data[i].left
             r == data[i].right
  <2>1. Inner(data, i, self_id) /\ Shape(data[i]) /\ IdBits \in Nat
    BY <1>2, IdAssumption DEF TreeInv
  <2>2. l \in 1..Len(data) /\ r \in 1..Len(data) /\ Shape(data[l]) /\ Shape(data[r])
    BY <2>1 DEF Inner, Half, TreeInv
  <2>3. PICK w \in 1..IdBits : w = data[i].bits
    BY <2>1 DEF Inner, Shape
  <2>4. data[l].bits = w - 1 /\ data[r].bits = w - 1
    BY <2>1, <2>3 DEF Inner, Half
  <2>5. /\ Prefix(data[i]) = 0..(IdBits - w - 1)
        /\ Prefix(data[l]) = 0..(IdBits - w) /\ Prefix(data[r]) = 0..(IdBits - w)
    BY <2>1, <2>3, <2>4 DEF Prefix
  <2>6. /\ \A k \in 0..(IdBits - w - 1) : n[k] = data[i].start[k]
        /\ \A k \in 0..(IdBits - w - 1) : data[l].start[k] = data[i].start[k]
        /\ \A k \in 0..(IdBits - w - 1) : data[r].start[k] = data[i].start[k]
        /\ data[l].start[IdBits - w] = 0 /\ data[r].start[IdBits - w] = 1
    BY <2>1, <2>3, <2>5 DEF Inner, Half, Within
  <2>7. n[IdBits - w] \in {0, 1}
    BY <2>1, <2>3 DEF Ids, Bits
  <2>8. \A k \in 0..(IdBits - w) : k = IdBits - w \/ k \in 0..(IdBits - w - 1)
    BY <2>1, <2>3
  <2>9. Within(data[l], n) <=> n[IdBits - w] = 0
    <3>1. IdBits - w \in 0..(IdBits - w)
      BY <2>1, <2>3
    <3> QED BY <2>5, <2>6, <2>8, <3>1 DEF Within
  <2>10. n[IdBits - w] = 1 => Within(data[r], n)
    BY <2>5, <2>6, <2>8 DEF Within
  <2>11. InRange(data[l], n) <=> Within(data[l], n)
    BY <2>2, RangeIsPrefix
  <2>12. Down(data, n, i) = IF InRange(data[l], n) THEN l ELSE r
    BY <1>2 DEF Down
  <2> QED BY <1>2, <2>2, <2>3, <2>4, <2>7, <2>9, <2>10, <2>11, <2>12
<1> QED BY <1>1, <1>2

\* The root holds every id.
LEMMA RootFacts ==
    ASSUME NEW data, NEW self_id, TreeInv(data, self_id), NEW n \in Ids
    PROVE  1 \in 1..Len(data) /\ Within(data[1], n)
<1>1. Len(data) \in Nat /\ Prefix(data[1]) = {}
  BY IdAssumption DEF TreeInv, Prefix
<1> QED BY <1>1 DEF TreeInv, Within

\* get_leaf ends at a leaf that holds the id.
LEMMA LeafFound ==
    ASSUME NEW data, NEW self_id, TreeInv(data, self_id), NEW n \in Ids
    PROVE  LET i == get_leaf(data, n) IN
           i \in 1..Len(data) /\ IsLeaf(data[i]) /\ Within(data[i], n)
<1> DEFINE D(f) == [k \in 0..IdBits |-> IF k = 0 THEN 1 ELSE Down(data, n, f[k - 1])]
           at == CHOOSE f : f = D(f)
           S == {i \in 1..Len(data) : Within(data[i], n)}
           F == [i \in S |-> Down(data, n, i)]
<1>0. IdBits \in Nat
  BY IdAssumption
<1>1. get_leaf(data, n) = at[IdBits]
  BY Zenon DEF get_leaf, Down
<1>2. at = D(at)
  <2>1. F \in [S -> S]
    BY DownFacts
  <2>2. 1 \in S
    BY RootFacts
  <2>3. \A i \in S : F[i] = Down(data, n, i)
    OBVIOUS
  <2> HIDE DEF S, F
  <2>4. PICK g \in [0..IdBits -> S] : IsIteration(g, F, 1, IdBits)
    BY <1>0, <2>1, <2>2, Iterate
  <2>5. ASSUME NEW k \in 0..IdBits PROVE g[k] = IF k = 0 THEN 1 ELSE Down(data, n, g[k - 1])
    <3>1. k # 0 => k - 1 \in 0..IdBits
      BY <1>0
    <3> QED BY <2>3, <2>4, <3>1 DEF IsIteration
  <2>6. g = D(g)
    BY <2>4, <2>5
  <2> QED BY <2>6
<1> HIDE DEF at
<1> DEFINE Good(k) == /\ at[k] \in 1..Len(data) /\ Within(data[at[k]], n)
                      /\ IsLeaf(data[at[k]]) \/ data[at[k]].bits = IdBits - k
           T == {k \in 0..IdBits : Good(k)}
<1>3. 0 \in T
  <2>1. at[0] = 1 /\ 0 \in 0..IdBits /\ IdBits - 0 = IdBits
    BY <1>0, <1>2
  <2>2. 1 \in 1..Len(data) /\ Within(data[1], n) /\ data[1].bits = IdBits
    BY RootFacts DEF TreeInv
  <2> QED BY <2>1, <2>2
<1>4. ASSUME NEW k \in 1..IdBits, k - 1 \in T PROVE k \in T
  <2>1. k \in 0..IdBits /\ k # 0 /\ k - 1 \in 0..IdBits
    BY <1>0
  <2>2. PICK i : i = at[k - 1]
    OBVIOUS
  <2>3. at[k] = Down(data, n, i)
    BY <1>2, <2>1, <2>2
  <2>4. i \in 1..Len(data) /\ Within(data[i], n) /\ (IsLeaf(data[i]) \/ data[i].bits = IdBits - (k - 1))
    BY <1>4, <2>2
  <2>5. PICK j : j = Down(data, n, i)
    OBVIOUS
  <2>6. /\ j \in 1..Len(data) /\ Within(data[j], n)
        /\ IsLeaf(data[i]) => j = i
        /\ ~IsLeaf(data[i]) => data[j].bits = data[i].bits - 1
    BY <2>4, <2>5, DownFacts
  <2>7. ~IsLeaf(data[i]) => data[j].bits = IdBits - k
    BY <1>0, <2>4, <2>6
  <2> QED BY <2>1, <2>3, <2>4, <2>5, <2>6, <2>7
<1>5. Good(IdBits)
  <2> HIDE DEF T
  <2>1. IdBits \in T
    BY <1>0, <1>3, <1>4, UpTo
  <2> QED BY <2>1 DEF T
<1>6. IsLeaf(data[at[IdBits]])
  <2> SUFFICES ASSUME ~IsLeaf(data[at[IdBits]]) PROVE FALSE
    OBVIOUS
  <2>1. data[at[IdBits]].bits = 0
    BY <1>0, <1>5
  <2> QED BY <1>5, <2>1 DEF TreeInv, Inner
<1> QED BY <1>1, <1>5, <1>6

\* There is only one such leaf.
LEMMA LeafUnique ==
    ASSUME NEW data, NEW self_id, TreeInv(data, self_id), NEW n \in Ids,
           NEW i \in 1..Len(data), IsLeaf(data[i]), Within(data[i], n)
    PROVE  get_leaf(data, n) = i
BY LeafFound DEF TreeInv, Apart

\* One step of the iterator down the tree.
Below(data, s) ==
    UNION {{data[i].left, data[i].right} : i \in {j \in s : ~IsLeaf(data[j])}}

\* The iterator gets to every leaf and to nothing else.
LEMMA LeavesFound ==
    ASSUME NEW data, NEW self_id, TreeInv(data, self_id)
    PROVE  iter_leaves(data) = {i \in 1..Len(data) : IsLeaf(data[i])}
<1> DEFINE D(f) == [k \in 0..IdBits |-> IF k = 0 THEN {1} ELSE Below(data, f[k - 1])]
           below == CHOOSE f : f = D(f)
           S == SUBSET (1..Len(data))
           F == [s \in S |-> Below(data, s)]
<1>0. IdBits \in Nat /\ 1 \in 1..Len(data)
  BY IdAssumption DEF TreeInv
<1>1. iter_leaves(data) = {i \in UNION {below[k] : k \in 0..IdBits} : IsLeaf(data[i])}
  BY Zenon DEF iter_leaves, Below
<1>2. ASSUME NEW s \in SUBSET (1..Len(data)) PROVE Below(data, s) \in SUBSET (1..Len(data))
  <2>1. \A i \in s : ~IsLeaf(data[i]) => data[i].left \in 1..Len(data) /\ data[i].right \in 1..Len(data)
    BY DEF TreeInv, Inner, Half
  <2> QED BY <2>1 DEF Below
<1>3. below = D(below)
  <2>1. F \in [S -> S]
    BY <1>2
  <2>2. {1} \in S
    BY <1>0
  <2>3. \A s \in S : F[s] = Below(data, s)
    OBVIOUS
  <2> HIDE DEF S, F
  <2>4. PICK g \in [0..IdBits -> S] : IsIteration(g, F, {1}, IdBits)
    BY <1>0, <2>1, <2>2, Iterate
  <2>5. ASSUME NEW k \in 0..IdBits PROVE g[k] = IF k = 0 THEN {1} ELSE Below(data, g[k - 1])
    <3>1. k # 0 => k - 1 \in 0..IdBits
      BY <1>0
    <3> QED BY <2>3, <2>4, <3>1 DEF IsIteration
  <2>6. g = D(g)
    BY <2>4, <2>5
  <2> QED BY <2>6
<1> HIDE DEF below
<1> DEFINE Good(k) == /\ below[k] \in SUBSET (1..Len(data))
                      /\ \A j \in 1..Len(data) : data[j].bits = IdBits - k => j \in below[k]
           T == {k \in 0..IdBits : Good(k)}
<1>4. \A j \in 1..Len(data) : data[j].bits \in 0..IdBits
  BY DEF TreeInv, Shape
<1>5. ASSUME NEW j \in 1..Len(data), j # 1
      PROVE  \E i \in 1..Len(data) : /\ ~IsLeaf(data[i]) /\ j \in {data[i].left, data[i].right}
                                     /\ data[i].bits = data[j].bits + 1
  <2>1. j \in 2..Len(data)
    BY <1>5 DEF TreeInv
  <2>2. PICK i \in 1..Len(data) : ~IsLeaf(data[i]) /\ j \in {data[i].left, data[i].right}
    BY <2>1 DEF TreeInv, HasParent
  <2>3. data[j].bits = data[i].bits - 1
    BY <2>2 DEF TreeInv, Inner, Half
  <2> QED BY <1>0, <1>4, <2>2, <2>3
<1>6. 0 \in T
  <2>1. below[0] = {1}
    BY <1>0, <1>3
  <2>2. ASSUME NEW j \in 1..Len(data), data[j].bits = IdBits PROVE j = 1
    BY <1>0, <1>4, <1>5, <2>2
  <2> QED BY <1>0, <2>1, <2>2
<1>7. ASSUME NEW k \in 1..IdBits, k - 1 \in T PROVE k \in T
  <2>1. k \in 0..IdBits /\ k # 0 /\ k - 1 \in 0..IdBits
    BY <1>0
  <2>2. below[k] = Below(data, below[k - 1])
    BY <1>3, <2>1
  <2>3. below[k] \in SUBSET (1..Len(data))
    BY <1>2, <1>7, <2>2
  <2>4. ASSUME NEW j \in 1..Len(data), data[j].bits = IdBits - k PROVE j \in below[k]
    <3>1. j # 1
      BY <1>0, <2>1, <2>4 DEF TreeInv
    <3>2. PICK i \in 1..Len(data) : /\ ~IsLeaf(data[i]) /\ j \in {data[i].left, data[i].right}
                                    /\ data[i].bits = data[j].bits + 1
      BY <1>5, <3>1
    <3>3. data[i].bits = IdBits - (k - 1)
      BY <1>0, <2>4, <3>2
    <3>4. i \in below[k - 1]
      BY <1>7, <3>3
    <3> QED BY <2>2, <3>2, <3>4 DEF Below
  <2> QED BY <2>1, <2>3, <2>4
<1>8. ASSUME NEW k \in 0..IdBits PROVE Good(k)
  <2> HIDE DEF T
  <2>1. k \in T
    BY <1>0, <1>6, <1>7, UpTo
  <2> QED BY <2>1 DEF T
<1>9. ASSUME NEW j \in 1..Len(data) PROVE j \in UNION {below[k] : k \in 0..IdBits}
  <2>1. PICK k \in 0..IdBits : data[j].bits = IdBits - k
    <3>1. IdBits - data[j].bits \in 0..IdBits /\ data[j].bits = IdBits - (IdBits - data[j].bits)
      BY <1>0, <1>4
    <3> QED BY <3>1
  <2> QED BY <1>8, <2>1
<1> QED BY <1>1, <1>8, <1>9

-----------------------------------------------------------------------------
(* Splitting a bucket *)

\* The range of a bucket b is cut at its next bit, and ids are compared with the
\* start of the right half to find theirs.
LEMMA HalvesFacts ==
    ASSUME NEW b, Shape(b), b.bits > 0, NEW s, NEW u
    PROVE  LET h == compute_split_start_end(b.start, b.end, b.bits)
               l == Leaf(b.bits - 1, h[1][1], h[1][2], s)
               r == Leaf(b.bits - 1, h[2][1], h[2][2], u)
               q == IdBits - b.bits
           IN  /\ Shape(l) /\ Shape(r) /\ q \in Bits
               /\ \A k \in Prefix(b) : l.start[k] = b.start[k] /\ r.start[k] = b.start[k]
               /\ l.start[q] = 0 /\ r.start[q] = 1
               /\ \A n \in Ids : Within(l, n) <=> Within(b, n) /\ n[q] = 0
               /\ \A n \in Ids : Within(r, n) <=> Within(b, n) /\ n[q] = 1
               /\ \A n \in Ids : Within(b, n) => (Before(n, h[2][1]) <=> n[q] = 0)
<1>0. IdBits \in Nat
  BY IdAssumption
<1>1. PICK w \in 1..IdBits : w = b.bits
  BY <1>0 DEF Shape
<1>2. PICK q \in Bits : q = IdBits - w
  BY <1>0, <1>1 DEF Bits
<1>3. /\ q \in Nat /\ Prefix(b) = 0..(q - 1)
      /\ q \in 0..q /\ q \notin 0..(q - 1)
      /\ \A k \in 0..q : k = q \/ k \in 0..(q - 1)
      /\ \A k \in 0..(q - 1) : k \in 0..q /\ k \in Bits /\ k # q
      /\ w - 1 \in 0..IdBits
      /\ IdBits - (w - 1) - 1 = q
  BY <1>0, <1>1, <1>2 DEF Prefix, Bits
<1>4. /\ b.start \in Ids /\ b.end \in Ids
      /\ \A i \in Bits : IF i \in 0..(q - 1) THEN b.end[i] = b.start[i]
                         ELSE b.start[i] = 0 /\ b.end[i] = 1
  BY <1>3 DEF Shape
<1> DEFINE le == [b.end EXCEPT ![q] = 0]
           rs == [b.start EXCEPT ![q] = 1]
           h == compute_split_start_end(b.start, b.end, b.bits)
           l == Leaf(b.bits - 1, h[1][1], h[1][2], s)
           r == Leaf(b.bits - 1, h[2][1], h[2][2], u)
<1>5. h = <<<<b.start, le>>, <<rs, b.end>>>>
  BY <1>1, <1>2 DEF compute_split_start_end, set_bit
<1>6. /\ le \in Ids /\ rs \in Ids /\ le[q] = 0 /\ rs[q] = 1
      /\ \A i \in Bits : i # q => le[i] = b.end[i] /\ rs[i] = b.start[i]
  BY <1>4 DEF Ids
<1> HIDE DEF le, rs
<1>7. /\ l.bits = w - 1 /\ l.start = b.start /\ l.end = le
      /\ r.bits = w - 1 /\ r.start = rs /\ r.end = b.end
  BY <1>1, <1>5 DEF Leaf
<1>8. Prefix(l) = 0..q /\ Prefix(r) = 0..q
  BY <1>3, <1>7 DEF Prefix
<1> HIDE DEF h, l, r
<1>9. b.start[q] = 0 /\ b.end[q] = 1
  BY <1>3, <1>4
<1>10. Shape(l) /\ Shape(r)
  <2>1. \A i \in Bits : IF i \in 0..q THEN le[i] = b.start[i] ELSE b.start[i] = 0 /\ le[i] = 1
    BY <1>3, <1>4, <1>6, <1>9
  <2>2. \A i \in Bits : IF i \in 0..q THEN b.end[i] = rs[i] ELSE rs[i] = 0 /\ b.end[i] = 1
    BY <1>3, <1>4, <1>6, <1>9
  <2> QED BY <1>3, <1>4, <1>6, <1>7, <1>8, <2>1, <2>2 DEF Shape
<1>11. \A k \in Prefix(b) : l.start[k] = b.start[k] /\ r.start[k] = b.start[k]
  BY <1>3, <1>6, <1>7
<1>12. l.start[q] = 0 /\ r.start[q] = 1
  BY <1>6, <1>7, <1>9
<1>13. ASSUME NEW n \in Ids
       PROVE  /\ Within(l, n) <=> Within(b, n) /\ n[q] = 0
              /\ Within(r, n) <=> Within(b, n) /\ n[q] = 1
  BY <1>3, <1>8, <1>11, <1>12 DEF Within
<1>14. ASSUME NEW n \in Ids, Within(b, n) PROVE Before(n, rs) <=> n[q] = 0
  <2>1. n[q] \in {0, 1} /\ \A i \in Bits : n[i] \in {0, 1}
    BY DEF Ids
  <2>2. \A k \in 0..(q - 1) : n[k] = rs[k]
    BY <1>3, <1>6, <1>14 DEF Within
  <2>3. n[q] = 0 => Before(n, rs)
    BY <1>6, <2>2 DEF Before
  <2>4. n[q] = 1 => ~Before(n, rs)
    <3> SUFFICES ASSUME n[q] = 1, NEW i \in Bits PROVE ~(n[i] < rs[i])
      BY DEF Before
    <3>1. CASE i \in 0..(q - 1)
      BY <1>6, <2>1, <2>2, <3>1
    <3>2. CASE i = q
      BY <1>6, <3>2
    <3>3. CASE i \notin 0..(q - 1) /\ i # q
      <4>1. rs[i] = 0
        BY <1>4, <1>6, <3>3
      <4> QED BY <2>1, <4>1
    <3> QED BY <3>1, <3>2, <3>3
  <2> QED BY <2>1, <2>3, <2>4
<1>15. h[2][1] = rs
  BY <1>5 DEF h
<1> QED BY <1>1, <1>2, <1>10, <1>11, <1>12, <1>13, <1>14, <1>15 DEF h, l, r

\* What Split makes of the vector: e is data with bucket i split into l and r at bit q.
IsSplit(e, data, i, l, r, q) ==
    LET m == Len(data) IN
    /\ e \in Seq(Buckets) /\ Len(e) = m + 2
    /\ \A j \in 1..m : j # i => e[j] = data[j]
    /\ e[m + 1] = l /\ e[m + 2] = r
    /\ e[i].bits = data[i].bits /\ e[i].start = data[i].start /\ e[i].end = data[i].end
    /\ e[i].left = m + 1 /\ e[i].right = m + 2 /\ e[i].nodes = {}
    /\ \A b \in {l, r} :
          /\ Shape(b) /\ IsLeaf(b) /\ b.bits = data[i].bits - 1
          /\ \A k \in Prefix(data[i]) : b.start[k] = data[i].start[k]
    /\ q = IdBits - data[i].bits /\ q \in Bits
    /\ l.start[q] = 0 /\ r.start[q] = 1
    /\ \A n \in Ids : Within(l, n) <=> Within(data[i], n) /\ n[q] = 0
    /\ \A n \in Ids : Within(r, n) <=> Within(data[i], n) /\ n[q] = 1
    /\ l.nodes = {n \in data[i].nodes : n[q] = 0}
    /\ r.nodes = {n \in data[i].nodes : n[q] = 1}

\* The index at which insert_into_leaf goes on after a split.
NextLeaf(data, i, n) ==
    LET b == data[i]
        halves == compute_split_start_end(b.start, b.end, b.bits)
    IN  Len(data) + (IF Before(n, halves[2][1]) THEN 1 ELSE 2)

LEMMA SplitFacts ==
    ASSUME NEW data, NEW self_id, TreeInv(data, self_id), NEW i \in 1..Len(data),
           IsLeaf(data[i]), data[i].bits > 0
    PROVE  \E l, r, q :
              /\ IsSplit(Split(data, i), data, i, l, r, q)
              /\ \A n \in Ids : Within(data[i], n) =>
                    NextLeaf(data, i, n) = Len(data) + (IF n[q] = 0 THEN 1 ELSE 2)
<1> DEFINE b == data[i]
           h == compute_split_start_end(b.start, b.end, b.bits)
           ln == {n \in b.nodes : Before(n, h[2][1])}
           rn == {n \in b.nodes : ~Before(n, h[2][1])}
           l == Leaf(b.bits - 1, h[1][1], h[1][2], ln)
           r == Leaf(b.bits - 1, h[2][1], h[2][2], rn)
           q == IdBits - b.bits
           m == Len(data)
           mid == [b EXCEPT !.left = m + 1, !.right = m + 2, !.nodes = {}]
           d == [data EXCEPT ![i] = mid]
           e == Split(data, i)
<1>1. /\ data \in Seq(Buckets) /\ m \in Nat /\ b \in Buckets /\ Shape(b) /\ NodesFit(b)
      /\ b.bits \in 1..IdBits /\ IdBits \in Nat
  BY IdAssumption DEF TreeInv, Shape
<1>2. /\ Shape(l) /\ Shape(r) /\ q \in Bits
      /\ \A k \in Prefix(b) : l.start[k] = b.start[k] /\ r.start[k] = b.start[k]
      /\ l.start[q] = 0 /\ r.start[q] = 1
      /\ \A n \in Ids : Within(l, n) <=> Within(b, n) /\ n[q] = 0
      /\ \A n \in Ids : Within(r, n) <=> Within(b, n) /\ n[q] = 1
      /\ \A n \in Ids : Within(b, n) => (Before(n, h[2][1]) <=> n[q] = 0)
  <2>1. b.bits > 0 /\ Shape(b)
    BY <1>1
  <2> HIDE DEF b, ln, rn
  <2> QED BY <2>1, HalvesFacts, ZenonT(60)
<1>3. e = d \o <<l, r>>
  BY DEF Split
<1>4. /\ l.bits = b.bits - 1 /\ l.left = 0 /\ l.right = 0 /\ l.nodes = ln
      /\ r.bits = b.bits - 1 /\ r.left = 0 /\ r.right = 0 /\ r.nodes = rn
  BY DEF Leaf
<1>5. b.nodes \in SUBSET Ids /\ \A n \in b.nodes : n \in Ids /\ n[q] \in {0, 1} /\ Within(b, n)
  BY <1>1, <1>2 DEF Buckets, Ids, NodesFit
<1>6. ln = {n \in b.nodes : n[q] = 0} /\ rn = {n \in b.nodes : n[q] = 1}
  <2> HIDE DEF b, h, q
  <2> QED BY <1>2, <1>5
<1>7. l \in Buckets /\ r \in Buckets
  <2>1. /\ b.bits - 1 \in 0..IdBits /\ l.start \in Ids /\ l.end \in Ids
        /\ r.start \in Ids /\ r.end \in Ids
    <3> HIDE DEF l, r
    <3> QED BY <1>1, <1>2 DEF Shape
  <2>2. ln \in SUBSET Ids /\ rn \in SUBSET Ids
    BY <1>5
  <2>3. /\ l.start = h[1][1] /\ l.end = h[1][2] /\ r.start = h[2][1] /\ r.end = h[2][2]
    BY DEF Leaf
  <2> HIDE DEF ln, rn, h
  <2> QED BY <2>1, <2>2, <2>3 DEF Leaf, Buckets
<1>8. /\ mid \in Buckets /\ mid.bits = b.bits /\ mid.start = b.start /\ mid.end = b.end
      /\ mid.left = m + 1 /\ mid.right = m + 2 /\ mid.nodes = {}
  <2>1. m + 1 \in Nat /\ m + 2 \in Nat /\ {} \in SUBSET Ids
    BY <1>1
  <2> HIDE DEF b, m
  <2>2. PICK x, y \in Nat : x = m + 1 /\ y = m + 2
    BY <2>1
  <2>3. mid = [b EXCEPT !.left = x, !.right = y, !.nodes = {}]
    BY <2>2
  <2>4. /\ mid \in Buckets /\ mid.bits = b.bits /\ mid.start = b.start /\ mid.end = b.end
        /\ mid.left = x /\ mid.right = y /\ mid.nodes = {}
    <3> HIDE DEF mid
    <3> QED BY <1>1, <2>1, <2>3 DEF Buckets
  <2> QED BY <2>2, <2>4
<1> HIDE DEF l, r, mid
<1>9. d \in Seq(Buckets) /\ Len(d) = m /\ d[i] = mid /\ \A j \in 1..m : j # i => d[j] = data[j]
  <2> HIDE DEF b
  <2> QED BY <1>1, <1>8
<1>10. /\ e \in Seq(Buckets) /\ Len(e) = m + 2 /\ e[m + 1] = l /\ e[m + 2] = r
       /\ \A j \in 1..m : e[j] = d[j]
  <2> HIDE DEF d, m, e, b
  <2>a. PICK B : B = Buckets
    OBVIOUS
  <2>b. l \in B /\ r \in B
    BY <1>7, <2>a
  <2>0. <<l, r>> \in Seq(B) /\ Len(<<l, r>>) = 2
    BY <2>b
  <2>1. PICK z \in Seq(Buckets) : z = <<l, r>> /\ Len(z) = 2 /\ z[1] = l /\ z[2] = r
    BY <2>a, <2>0
  <2>2. /\ e \in Seq(Buckets) /\ Len(e) = Len(d) + Len(z)
        /\ \A j \in 1..(Len(d) + Len(z)) : e[j] = IF j <= Len(d) THEN d[j] ELSE z[j - Len(d)]
    <3>1. d \in Seq(B) /\ z \in Seq(B) /\ e = d \o z
      BY <1>3, <1>9, <2>a, <2>1
    <3>2. /\ d \o z \in Seq(B) /\ Len(d \o z) = Len(d) + Len(z)
          /\ \A j \in 1..(Len(d) + Len(z)) : (d \o z)[j] = IF j <= Len(d) THEN d[j] ELSE z[j - Len(d)]
      BY <3>1, ConcatProperties
    <3> QED BY <2>a, <3>1, <3>2
  <2>3. /\ m + 1 \in 1..(m + 2) /\ ~(m + 1 <= m) /\ (m + 1) - m = 1
        /\ m + 2 \in 1..(m + 2) /\ ~(m + 2 <= m) /\ (m + 2) - m = 2
        /\ \A j \in 1..m : j \in 1..(m + 2) /\ j <= m
    BY <1>1
  <2>4. Len(d) = m /\ Len(z) = 2
    BY <1>9, <2>1
  <2>5. \A j \in 1..(m + 2) : e[j] = IF j <= m THEN d[j] ELSE z[j - m]
    BY <2>2, <2>4
  <2>6. e[m + 1] = l /\ e[m + 2] = r
    BY <2>1, <2>3, <2>5
  <2>7. \A j \in 1..m : e[j] = d[j]
    BY <2>3, <2>5
  <2> QED BY <2>2, <2>4, <2>6, <2>7
<1> HIDE DEF d, e
<1>11. \A n \in Ids : Within(b, n) => NextLeaf(data, i, n) = m + (IF n[q] = 0 THEN 1 ELSE 2)
  <2>1. \A n : NextLeaf(data, i, n) = m + (IF Before(n, h[2][1]) THEN 1 ELSE 2)
    BY DEF NextLeaf
  <2> QED BY <1>2, <2>1
<1>12. IsSplit(e, data, i, l, r, q)
  <2>1. IsLeaf(l) /\ IsLeaf(r)
    BY <1>4 DEF IsLeaf
  <2> HIDE DEF h, q, ln, rn
  <2> QED BY <1>2, <1>4, <1>6, <1>8, <1>9, <1>10, <2>1 DEF IsSplit, q
<1> QED BY <1>11, <1>12 DEF e

\* All nodes of a tree.
AllNodes(data) == UNION {data[i].nodes : i \in 1..Len(data)}

\* A split keeps the shape of the tree and its nodes.
LEMMA SplitKeeps ==
    ASSUME NEW data, NEW self_id, TreeInv(data, self_id), NEW i \in 1..Len(data),
           IsLeaf(data[i]), data[i].bits > 0, Within(data[i], self_id),
           NEW e, NEW l, NEW r, NEW q, IsSplit(e, data, i, l, r, q)
    PROVE  TreeInv(e, self_id) /\ AllNodes(e) = AllNodes(data)
<1>1. PICK m \in Nat : m = Len(data) /\ m + 1 \in Nat /\ m + 2 \in Nat /\ m > 0
  BY DEF TreeInv
<1>2. /\ Len(e) = m + 2 /\ \A j \in 1..(m + 2) : j \in 1..m \/ j = m + 1 \/ j = m + 2
      /\ \A j \in 1..m : j \in 1..(m + 2) /\ j # m + 1 /\ j # m + 2
      /\ m + 1 \in 1..(m + 2) /\ m + 2 \in 1..(m + 2) /\ m + 1 # m + 2 /\ m + 1 # 0
  BY <1>1 DEF IsSplit
<1>3. /\ i \in 1..m /\ e[m + 1] = l /\ e[m + 2] = r
      /\ \A j \in 1..m : j # i => e[j] = data[j]
      /\ ~IsLeaf(e[i]) /\ IsLeaf(l) /\ IsLeaf(r)
  BY <1>1, <1>2 DEF IsSplit, IsLeaf
<1>4. \A j \in 1..m : e[j].bits = data[j].bits /\ e[j].start = data[j].start /\ e[j].end = data[j].end
  BY <1>1, <1>3 DEF IsSplit
<1>5. \A j \in 1..m : Prefix(e[j]) = Prefix(data[j])
  BY <1>4 DEF Prefix
<1>6. \A j \in 1..m : \A n : Within(e[j], n) <=> Within(data[j], n)
  BY <1>4, <1>5 DEF Within
<1>7. \A j \in 1..m : Shape(e[j])
  <2>1. \A j \in 1..m : Shape(data[j])
    BY <1>1 DEF TreeInv
  <2> QED BY <1>4, <1>5, <2>1 DEF Shape
<1>8. \A j \in 1..m : NodesFit(e[j])
  <2>1. NodesFit(e[i])
    <3>1. e[i].nodes = {} /\ K \in Nat
      BY TableAssumption DEF IsSplit
    <3>2. IsFiniteSet({}) /\ Cardinality({}) = 0
      BY FS_EmptySet
    <3> QED BY <3>1, <3>2 DEF NodesFit
  <2>2. \A j \in 1..m : NodesFit(data[j])
    BY <1>1 DEF TreeInv
  <2> QED BY <1>3, <2>1, <2>2
<1>9. NodesFit(l) /\ NodesFit(r)
  <2>1. /\ IsFiniteSet(data[i].nodes) /\ Cardinality(data[i].nodes) <= K /\ data[i] \in Buckets
        /\ \A n \in data[i].nodes : Within(data[i], n)
    BY DEF TreeInv, NodesFit
  <2>2. /\ l.nodes \in SUBSET data[i].nodes /\ r.nodes \in SUBSET data[i].nodes
        /\ \A n \in l.nodes : Within(l, n)
        /\ \A n \in r.nodes : Within(r, n)
    BY <2>1 DEF IsSplit, Buckets
  <2>3. PICK s : s = data[i].nodes
    OBVIOUS
  <2>4. ASSUME NEW u \in SUBSET s PROVE IsFiniteSet(u) /\ Cardinality(u) <= K
    <3>1. IsFiniteSet(s) /\ Cardinality(s) <= K /\ K \in Nat
      BY <2>1, <2>3, TableAssumption
    <3>2. IsFiniteSet(u) /\ Cardinality(u) <= Cardinality(s)
      BY <3>1, FS_Subset
    <3>3. Cardinality(u) \in Nat /\ Cardinality(s) \in Nat
      BY <3>1, <3>2, FS_CardinalityType
    <3> QED BY <3>1, <3>2, <3>3
  <2> QED BY <2>2, <2>3, <2>4 DEF NodesFit
<1>10. ASSUME NEW j \in 1..(m + 2), ~IsLeaf(e[j]) PROVE Inner(e, j, self_id)
  <2>1. j \in 1..m
    BY <1>2, <1>3, <1>10
  <2>2. CASE j = i
    <3>1. /\ e[i].bits > 0 /\ e[i].nodes = {} /\ e[i].left = m + 1 /\ e[i].right = m + 2
          /\ Within(e[i], self_id)
      BY <1>1, <1>3, <1>6 DEF IsSplit
    <3>2. Half(e, i, m + 1, 0) /\ Half(e, i, m + 2, 1)
      <4>1. /\ l.bits = e[i].bits - 1 /\ r.bits = e[i].bits - 1
            /\ \A k \in Prefix(e[i]) : l.start[k] = e[i].start[k] /\ r.start[k] = e[i].start[k]
            /\ l.start[IdBits - e[i].bits] = 0 /\ r.start[IdBits - e[i].bits] = 1
        BY <1>3, <1>4, <1>5 DEF IsSplit
      <4> QED BY <1>2, <1>3, <4>1 DEF Half
    <3> QED BY <2>2, <3>1, <3>2 DEF Inner
  <2>3. CASE j # i
    <3>1. e[j] = data[j] /\ Inner(data, j, self_id)
      BY <1>1, <1>3, <1>10, <2>1, <2>3 DEF TreeInv
    <3>2. ASSUME NEW x \in 1..m, NEW v, Half(data, j, x, v) PROVE Half(e, j, x, v)
      BY <1>1, <1>2, <1>4, <3>1, <3>2 DEF Half
    <3>3. data[j].left \in 1..m /\ data[j].right \in 1..m
      BY <1>1, <3>1 DEF Inner, Half
    <3> QED BY <3>1, <3>2, <3>3 DEF Inner
  <2> QED BY <2>2, <2>3
<1>11. ASSUME NEW j \in 2..(m + 2) PROVE HasParent(e, j)
  <2>1. CASE j \in 2..m
    <3>1. PICK k \in 1..m : ~IsLeaf(data[k]) /\ j \in {data[k].left, data[k].right}
      BY <1>1, <2>1 DEF TreeInv, HasParent
    <3>2. k # i /\ e[k] = data[k] /\ k \in 1..(m + 2)
      BY <1>2, <1>3, <3>1
    <3> QED BY <1>2, <3>1, <3>2 DEF HasParent
  <2>2. CASE j = m + 1 \/ j = m + 2
    <3>1. e[i].left = m + 1 /\ e[i].right = m + 2 /\ i \in 1..(m + 2)
      BY <1>1, <1>2, <1>3 DEF IsSplit
    <3> QED BY <1>2, <1>3, <2>2, <3>1 DEF HasParent
  <2> QED BY <1>1, <2>1, <2>2
<1>12. ASSUME NEW j \in 1..(m + 2), NEW k \in 1..(m + 2), IsLeaf(e[j]), IsLeaf(e[k]), j # k
       PROVE  Apart(e[j], e[k])
  <2>1. \A n \in Ids : /\ Within(l, n) <=> Within(data[i], n) /\ n[q] = 0
                       /\ Within(r, n) <=> Within(data[i], n) /\ n[q] = 1
    BY DEF IsSplit
  <2>2. \A x, y \in 1..m : IsLeaf(data[x]) /\ IsLeaf(data[y]) /\ x # y => Apart(data[x], data[y])
    BY <1>1 DEF TreeInv
  <2>3. ASSUME NEW x \in 1..m, IsLeaf(e[x])
        PROVE  /\ x # i /\ e[x] = data[x]
               /\ \A n \in Ids : ~(Within(e[x], n) /\ Within(data[i], n))
    BY <1>3, <2>2, <2>3 DEF Apart
  <2>4. CASE j \in 1..m /\ k \in 1..m
    BY <1>12, <2>2, <2>3, <2>4
  <2>5. CASE j \in 1..m /\ k \notin 1..m
    BY <1>2, <1>3, <1>12, <2>1, <2>3, <2>5 DEF Apart
  <2>6. CASE j \notin 1..m /\ k \in 1..m
    BY <1>2, <1>3, <1>12, <2>1, <2>3, <2>6 DEF Apart
  <2>7. CASE j \notin 1..m /\ k \notin 1..m
    BY <1>2, <1>3, <1>12, <2>1, <2>7 DEF Apart
  <2> QED BY <2>4, <2>5, <2>6, <2>7
<1>13. TreeInv(e, self_id)
  <2>1. e \in Seq(Buckets) /\ Len(e) > 0
    BY <1>1, <1>2 DEF IsSplit
  <2>2. e[1].bits = IdBits
    BY <1>1, <1>4 DEF TreeInv
  <2>3. \A j \in 1..(m + 2) : Shape(e[j]) /\ NodesFit(e[j])
    BY <1>2, <1>3, <1>7, <1>8, <1>9 DEF IsSplit
  <2> QED BY <1>2, <1>10, <1>11, <1>12, <2>1, <2>2, <2>3 DEF TreeInv
<1>14. AllNodes(e) = AllNodes(data)
  <2>1. ASSUME NEW n PROVE n \in data[i].nodes <=> n \in l.nodes \/ n \in r.nodes
    <3>1. n \in data[i].nodes => n[q] \in {0, 1}
      <4>1. data[i] \in Buckets /\ q \in Bits
        BY DEF TreeInv, IsSplit
      <4> QED BY <4>1 DEF Buckets, Ids
    <3> QED BY <3>1 DEF IsSplit
  <2>2. e[i].nodes = {}
    BY DEF IsSplit
  <2>3. ASSUME NEW n \in AllNodes(e) PROVE n \in AllNodes(data)
    <3>1. PICK j \in 1..(m + 2) : n \in e[j].nodes
      BY <1>2 DEF AllNodes
    <3>2. (n \in data[j].nodes /\ j \in 1..m) \/ n \in data[i].nodes
      BY <1>2, <1>3, <2>1, <2>2, <3>1
    <3> QED BY <1>1, <3>2 DEF AllNodes
  <2>4. ASSUME NEW n \in AllNodes(data) PROVE n \in AllNodes(e)
    <3>1. PICK j \in 1..m : n \in data[j].nodes
      BY <1>1 DEF AllNodes
    <3>2. \E k \in 1..(m + 2) : n \in e[k].nodes
      BY <1>2, <1>3, <2>1, <3>1
    <3> QED BY <1>2, <3>2 DEF AllNodes
  <2> QED BY <2>3, <2>4
<1> QED BY <1>13, <1>14

-----------------------------------------------------------------------------
(* Inserting a node *)

\* A bucket of at least two nodes that does not hold every id of its range has a
\* range of at least four, so compute_split_start_end can cut it.
LEMMA FullLeaf ==
    ASSUME NEW b \in Buckets, Shape(b), NodesFit(b), Cardinality(b.nodes) >= K,
           NEW n \in Ids, n \notin b.nodes, Within(b, n)
    PROVE  b.bits >= 2 /\ SplitAsserts(b.start, b.end, b.bits)
<1>0. IdBits \in Nat /\ IdBits # 0 /\ K \in Nat /\ K >= 2 /\ b.bits \in 0..IdBits
  BY IdAssumption, TableAssumption DEF Shape
<1>1. IsFiniteSet(b.nodes) /\ Cardinality(b.nodes) \in Nat
  BY FS_CardinalityType DEF NodesFit
<1>2. PICK a : a \in b.nodes
  BY <1>0, <1>1, FS_EmptySet
<1>3. PICK c : c \in b.nodes /\ c # a
  <2>1. /\ IsFiniteSet(b.nodes \ {a})
        /\ Cardinality(b.nodes \ {a}) = Cardinality(b.nodes) - 1
    BY <1>1, <1>2, FS_RemoveElement
  <2>2. b.nodes \ {a} # {}
    BY <1>0, <1>1, <2>1, FS_EmptySet
  <2> QED BY <2>2
<1>4. /\ a \in Ids /\ c \in Ids /\ Within(b, a) /\ Within(b, c)
      /\ a # c /\ a # n /\ c # n
  BY <1>2, <1>3 DEF Buckets, NodesFit
<1>5. b.bits >= 2
  <2> SUFFICES ASSUME b.bits = 0 \/ b.bits = 1 PROVE FALSE
    BY <1>0
  <2> DEFINE z == IdBits - 1
  <2>1. z \in Bits /\ \A i \in Bits : i # z => i \in Prefix(b)
    BY <1>0 DEF Bits, Prefix
  <2>2. \A i \in Bits : i # z => a[i] = n[i] /\ c[i] = n[i]
    BY <1>4, <2>1 DEF Within
  <2>3. a[z] \in {0, 1} /\ c[z] \in {0, 1} /\ n[z] \in {0, 1}
    BY <1>4, <2>1 DEF Ids
  <2> HIDE DEF z
  <2>4. ASSUME NEW x \in Ids, NEW y \in Ids, x[z] = y[z], \A i \in Bits : i # z => x[i] = y[i]
        PROVE  x = y
    <3>1. \A i \in Bits : x[i] = y[i]
      BY <2>4
    <3> QED BY <3>1 DEF Ids
  <2>5. (a[z] = c[z] => a = c) /\ (a[z] = n[z] => a = n) /\ (c[z] = n[z] => c = n)
    BY <1>4, <2>2, <2>4
  <2> QED BY <1>4, <2>3, <2>5
<1>6. PICK w \in 2..IdBits : w = b.bits
  BY <1>0, <1>5
<1>7. PICK q \in Bits : q = IdBits - w
  BY <1>0, <1>6 DEF Bits
<1>8. /\ q \in Nat /\ q + 1 \in Bits /\ Prefix(b) = 0..(q - 1) /\ q + 1 # q
      /\ q \notin 0..(q - 1) /\ q + 1 \notin 0..(q - 1)
      /\ \A k \in 0..(q - 1) : k \in Bits /\ k # q
      /\ \A k \in 0..(q + 1 - 1) : k = q \/ k \in 0..(q - 1)
  BY <1>0, <1>6, <1>7 DEF Prefix, Bits
<1>9. /\ b.start \in Ids /\ b.end \in Ids
      /\ \A i \in Bits : IF i \in 0..(q - 1) THEN b.end[i] = b.start[i]
                         ELSE b.start[i] = 0 /\ b.end[i] = 1
  BY <1>8 DEF Shape
<1> DEFINE le == [b.end EXCEPT ![q] = 0]
           rs == [b.start EXCEPT ![q] = 1]
<1>10. compute_split_start_end(b.start, b.end, b.bits) = <<<<b.start, le>>, <<rs, b.end>>>>
  BY <1>6, <1>7 DEF compute_split_start_end, set_bit
<1>11. /\ le[q] = 0 /\ rs[q] = 1 /\ b.start[q] = 0 /\ b.end[q] = 1
       /\ le[q + 1] = 1 /\ rs[q + 1] = 0 /\ b.start[q + 1] = 0 /\ b.end[q + 1] = 1
       /\ \A k \in 0..(q - 1) : /\ le[k] = b.end[k] /\ rs[k] = b.start[k]
                                /\ b.end[k] = b.start[k]
  BY <1>8, <1>9 DEF Ids
<1> HIDE DEF le, rs
<1>12. Before(b.start, le)
  BY <1>8, <1>11 DEF Before
<1>13. Before(le, rs)
  BY <1>8, <1>11 DEF Before
<1>14. Before(rs, b.end)
  BY <1>8, <1>11 DEF Before
<1> QED BY <1>5, <1>10, <1>12, <1>13, <1>14 DEF SplitAsserts

Tables == [data : Seq(Buckets), size : Nat, total : Nat, node : [Ids -> Stamps]]

\* A table with its tree, its size and its limit.
TableInv(t, self_id) ==
    /\ t \in Tables
    /\ TreeInv(t.data, self_id)
    /\ IsFiniteSet(AllNodes(t.data))
    /\ t.size = Cardinality(AllNodes(t.data))
    /\ t.size <= MaxSize

\* BucketTree::iter gives all nodes.
LEMMA NodeIdsAll ==
    ASSUME NEW t, NEW self_id, TreeInv(t.data, self_id)
    PROVE  NodeIds(t) = AllNodes(t.data)
<1>1. iter_leaves(t.data) = {i \in 1..Len(t.data) : IsLeaf(t.data[i])}
  BY LeavesFound
<1>2. \A i \in 1..Len(t.data) : ~IsLeaf(t.data[i]) => t.data[i].nodes = {}
  BY DEF TreeInv, Inner
<1> QED BY <1>1, <1>2 DEF NodeIds, AllNodes

\* One turn of the loop of insert_into_leaf.
Turn(now, self_id, n) ==
    IF InsertResult(now.t, now.idx, self_id, n) # "Split" THEN now
    ELSE [t   |-> [now.t EXCEPT !.data = Split(@, now.idx)],
          idx |-> NextLeaf(now.t.data, now.idx, n)]

\* Where the loop is, having been called with table t: it has moved nodes and changed
\* nothing else, and looks at the leaf for n.
AtLeaf(now, t, self_id, n) ==
    /\ now \in [t : Tables, idx : Nat]
    /\ TreeInv(now.t.data, self_id) /\ AllNodes(now.t.data) = AllNodes(t.data)
    /\ now.t.size = t.size /\ now.t.total = t.total /\ now.t.node = t.node
    /\ now.idx \in 1..Len(now.t.data)
    /\ IsLeaf(now.t.data[now.idx]) /\ Within(now.t.data[now.idx], n)

LEMMA TurnKeeps ==
    ASSUME NEW t, NEW self_id \in Ids, NEW n \in Ids, NEW now, AtLeaf(now, t, self_id, n)
    PROVE  AtLeaf(Turn(now, self_id, n), t, self_id, n)
<1>1. CASE InsertResult(now.t, now.idx, self_id, n) # "Split"
  BY <1>1 DEF Turn
<1>2. CASE InsertResult(now.t, now.idx, self_id, n) = "Split"
  <2>1. PICK data, i : data = now.t.data /\ i = now.idx
    OBVIOUS
  <2>2. /\ now.t \in Tables /\ TreeInv(data, self_id) /\ i \in 1..Len(data)
        /\ IsLeaf(data[i]) /\ Within(data[i], n) /\ data[i] \in Buckets
        /\ Shape(data[i]) /\ NodesFit(data[i])
    BY <2>1 DEF AtLeaf, TreeInv
  <2>3. /\ n \notin data[i].nodes /\ ~(Cardinality(data[i].nodes) < K)
        /\ InRange(data[i], self_id)
    BY <1>2, <2>1 DEF InsertResult
  <2>4. Cardinality(data[i].nodes) >= K
    BY <2>2, <2>3, TableAssumption, FS_CardinalityType DEF NodesFit
  <2>5. data[i].bits >= 2 /\ data[i].bits \in Nat
    BY <2>2, <2>3, <2>4, FullLeaf DEF Shape
  <2>6. Within(data[i], self_id)
    BY <2>2, <2>3, RangeIsPrefix
  <2>7. data[i].bits > 0
    BY <2>5
  <2>8. PICK l, r, q :
              /\ IsSplit(Split(data, i), data, i, l, r, q)
              /\ \A x \in Ids : Within(data[i], x) =>
                    NextLeaf(data, i, x) = Len(data) + (IF x[q] = 0 THEN 1 ELSE 2)
    BY <2>2, <2>7, SplitFacts
  <2>9. PICK e : e = Split(data, i)
    OBVIOUS
  <2>10. IsSplit(e, data, i, l, r, q)
    BY <2>8, <2>9
  <2>11. TreeInv(e, self_id) /\ AllNodes(e) = AllNodes(data)
    BY <2>2, <2>6, <2>7, <2>10, SplitKeeps
  <2>12. PICK j : j = NextLeaf(data, i, n)
    OBVIOUS
  <2>13. n[q] \in {0, 1} /\ Len(data) \in Nat /\ j = Len(data) + (IF n[q] = 0 THEN 1 ELSE 2)
    BY <2>2, <2>8, <2>10, <2>12 DEF Ids, IsSplit, TreeInv
  <2>14. j \in 1..Len(e) /\ j \in Nat /\ IsLeaf(e[j]) /\ Within(e[j], n)
    <3>1. /\ Len(e) = Len(data) + 2 /\ e[Len(data) + 1] = l /\ e[Len(data) + 2] = r
          /\ IsLeaf(l) /\ IsLeaf(r)
          /\ n[q] = 0 => Within(l, n)
          /\ n[q] = 1 => Within(r, n)
      BY <2>2, <2>10 DEF IsSplit
    <3> QED BY <2>13, <3>1
  <2>15. Turn(now, self_id, n) = [t |-> [now.t EXCEPT !.data = e], idx |-> j]
    BY <1>2, <2>1, <2>9, <2>12 DEF Turn
  <2>16. PICK u : u = [now.t EXCEPT !.data = e]
    OBVIOUS
  <2>17. u \in Tables /\ u.data = e /\ u.size = now.t.size /\ u.total = now.t.total /\ u.node = now.t.node
    BY <2>2, <2>11, <2>16 DEF Tables, TreeInv
  <2>18. PICK v : v = Turn(now, self_id, n)
    OBVIOUS
  <2>19. v \in [t : Tables, idx : Nat] /\ v.t = u /\ v.idx = j
    BY <2>14, <2>15, <2>16, <2>17, <2>18
  <2>20. AtLeaf(v, t, self_id, n)
    BY <2>1, <2>11, <2>14, <2>17, <2>19 DEF AtLeaf
  <2> QED BY <2>18, <2>20
<1> QED BY <1>1, <1>2

\* The loop ends at the leaf for n.
LEMMA LoopFacts ==
    ASSUME NEW t, NEW self_id \in Ids, NEW n \in Ids, TableInv(t, self_id)
    PROVE  AtLeaf(InsertLoop(t, self_id, n), t, self_id, n)
<1> DEFINE c == [t |-> t, idx |-> get_leaf(t.data, n)]
           D(f) == [k \in 0..IdBits |-> IF k = 0 THEN c ELSE Turn(f[k - 1], self_id, n)]
           turn == CHOOSE f : f = D(f)
           S == {x \in [t : Tables, idx : Nat] : AtLeaf(x, t, self_id, n)}
           F == [x \in S |-> Turn(x, self_id, n)]
<1>0. IdBits \in Nat
  BY IdAssumption
<1>1. InsertLoop(t, self_id, n) = turn[IdBits]
  BY Zenon DEF InsertLoop, Turn, NextLeaf
<1>2. c \in S
  <2>1. PICK i : i = get_leaf(t.data, n)
    OBVIOUS
  <2>2. i \in 1..Len(t.data) /\ IsLeaf(t.data[i]) /\ Within(t.data[i], n)
    BY <2>1, LeafFound DEF TableInv
  <2>3. c = [t |-> t, idx |-> i] /\ t \in Tables /\ i \in Nat
    BY <2>1, <2>2 DEF TableInv
  <2>4. c \in [t : Tables, idx : Nat] /\ c.t = t /\ c.idx = i
    BY <2>3
  <2> HIDE DEF c
  <2> QED BY <2>2, <2>4 DEF AtLeaf, TableInv
<1>3. ASSUME NEW x \in S PROVE Turn(x, self_id, n) \in S
  BY TurnKeeps DEF AtLeaf
<1> HIDE DEF c
<1>4. turn = D(turn)
  <2>1. F \in [S -> S]
    BY <1>3
  <2>3. \A x \in S : F[x] = Turn(x, self_id, n)
    OBVIOUS
  <2> HIDE DEF S, F
  <2>4. PICK g \in [0..IdBits -> S] : IsIteration(g, F, c, IdBits)
    BY <1>0, <1>2, <2>1, Iterate
  <2>5. ASSUME NEW k \in 0..IdBits PROVE g[k] = IF k = 0 THEN c ELSE Turn(g[k - 1], self_id, n)
    <3>1. k # 0 => k - 1 \in 0..IdBits
      BY <1>0
    <3> QED BY <2>3, <2>4, <3>1 DEF IsIteration
  <2>6. g = D(g)
    BY <2>4, <2>5
  <2> QED BY <2>6
<1> HIDE DEF turn, S
<1> DEFINE T == {k \in 0..IdBits : turn[k] \in S}
<1>5. 0 \in T
  BY <1>0, <1>2, <1>4
<1>6. ASSUME NEW k \in 1..IdBits, k - 1 \in T PROVE k \in T
  <2>1. k \in 0..IdBits /\ k # 0
    BY <1>0
  <2>2. turn[k] = Turn(turn[k - 1], self_id, n)
    BY <1>4, <2>1
  <2> QED BY <1>3, <1>6, <2>1, <2>2
<1> HIDE DEF T
<1>7. IdBits \in T
  BY <1>0, <1>5, <1>6, UpTo
<1> QED BY <1>1, <1>7 DEF T, S

\* A set of nodes that fits into a leaf.
FitsInto(s, b) ==
    /\ s \in SUBSET Ids /\ IsFiniteSet(s) /\ Cardinality(s) <= K
    /\ \A n \in s : Within(b, n)

\* The tree in which s are the nodes of bucket i, all the nodes then (b is the bucket
\* before), and a table with that tree.
SetNodes(data, i, s) == [data EXCEPT ![i].nodes = s]
NodesThen(t, b, s) == (AllNodes(t.data) \ b.nodes) \cup s
WithNodes(u, t, i, s) ==
    u \in [data : {SetNodes(t.data, i, s)}, size : Nat, total : Nat, node : [Ids -> Stamps]]

\* A leaf whose set of nodes is replaced by one that fits.
LEMMA NewNodes ==
    ASSUME NEW data, NEW self_id, TreeInv(data, self_id), NEW i \in 1..Len(data),
           IsLeaf(data[i]), NEW s, FitsInto(s, data[i]),
           NEW e, e = SetNodes(data, i, s)
    PROVE  /\ TreeInv(e, self_id)
           /\ AllNodes(e) = (AllNodes(data) \ data[i].nodes) \cup s
<1>1. data \in Seq(Buckets) /\ Len(data) \in Nat /\ \A j \in 1..Len(data) : data[j] \in Buckets
  BY DEF TreeInv
<1>0. /\ s \in SUBSET Ids /\ IsFiniteSet(s) /\ Cardinality(s) <= K
      /\ \A n \in s : Within(data[i], n)
  BY DEF FitsInto
<1>3. PICK b : b = [data[i] EXCEPT !.nodes = s] /\ e = [data EXCEPT ![i] = b]
  BY DEF SetNodes
<1>2. /\ b \in Buckets /\ b.nodes = s /\ b.bits = data[i].bits /\ b.start = data[i].start
      /\ b.end = data[i].end /\ b.left = data[i].left /\ b.right = data[i].right
  <2>1. PICK c \in Buckets : c = data[i] /\ b = [c EXCEPT !.nodes = s]
    BY <1>1, <1>3
  <2>2. /\ b \in Buckets /\ b.nodes = s /\ b.bits = c.bits /\ b.start = c.start
        /\ b.end = c.end /\ b.left = c.left /\ b.right = c.right
    BY <1>0, <2>1 DEF Buckets
  <2> QED BY <2>1, <2>2
<1>4. e \in Seq(Buckets) /\ Len(e) = Len(data) /\ e[i] = b /\ \A j \in 1..Len(data) : j # i => e[j] = data[j]
  BY <1>1, <1>2, <1>3
<1>5. \A j \in 1..Len(data) : /\ e[j].bits = data[j].bits /\ e[j].start = data[j].start
                              /\ e[j].end = data[j].end /\ e[j].left = data[j].left
                              /\ e[j].right = data[j].right
  BY <1>2, <1>4
<1>6. \A j \in 1..Len(data) : Prefix(e[j]) = Prefix(data[j]) /\ (IsLeaf(e[j]) <=> IsLeaf(data[j]))
  BY <1>5 DEF Prefix, IsLeaf
<1>7. \A j \in 1..Len(data) : \A n : Within(e[j], n) <=> Within(data[j], n)
  BY <1>5, <1>6 DEF Within
<1>8. \A j \in 1..Len(data) : Shape(e[j])
  <2>1. \A j \in 1..Len(data) : Shape(data[j])
    BY DEF TreeInv
  <2> QED BY <1>5, <1>6, <2>1 DEF Shape
<1>9. \A j \in 1..Len(data) : NodesFit(e[j])
  <2>1. NodesFit(b)
    BY <1>0, <1>2, <1>4, <1>7 DEF NodesFit
  <2>2. \A j \in 1..Len(data) : NodesFit(data[j])
    BY DEF TreeInv
  <2> QED BY <1>4, <2>1, <2>2
<1>10. ASSUME NEW j \in 1..Len(data), ~IsLeaf(e[j]) PROVE Inner(e, j, self_id)
  <2>1. Inner(data, j, self_id) /\ j # i
    BY <1>6, <1>10 DEF TreeInv
  <2>2. ASSUME NEW x, NEW v, Half(data, j, x, v) PROVE Half(e, j, x, v)
    BY <1>4, <1>5, <1>6, <2>2 DEF Half
  <2> QED BY <1>4, <1>5, <1>7, <2>1, <2>2 DEF Inner
<1>11. ASSUME NEW j \in 2..Len(data) PROVE HasParent(e, j)
  <2>1. HasParent(data, j)
    BY DEF TreeInv
  <2> QED BY <1>4, <1>5, <1>6, <2>1 DEF HasParent
<1>12. ASSUME NEW j \in 1..Len(data), NEW k \in 1..Len(data), IsLeaf(e[j]), IsLeaf(e[k]), j # k
       PROVE  Apart(e[j], e[k])
  <2>1. Apart(data[j], data[k])
    BY <1>6, <1>12 DEF TreeInv
  <2> QED BY <1>7, <2>1 DEF Apart
<1>13. TreeInv(e, self_id)
  <2>1. Len(e) > 0 /\ e[1].bits = IdBits
    BY <1>1, <1>4, <1>5 DEF TreeInv
  <2> QED BY <1>4, <1>8, <1>9, <1>10, <1>11, <1>12, <2>1 DEF TreeInv
<1>14. ASSUME NEW j \in 1..Len(data), j # i, NEW n \in data[j].nodes PROVE n \notin data[i].nodes
  <2>1. IsLeaf(data[j]) /\ Within(data[j], n) /\ n \in Ids
    BY <1>1, <1>14 DEF TreeInv, Inner, NodesFit, Buckets
  <2>2. \A x \in data[i].nodes : Within(data[i], x)
    BY DEF TreeInv, NodesFit
  <2> QED BY <1>14, <2>1, <2>2 DEF TreeInv, Apart
<1>15. AllNodes(e) = (AllNodes(data) \ data[i].nodes) \cup s
  BY <1>2, <1>4, <1>14 DEF AllNodes
<1> QED BY <1>13, <1>15

\* Ids are ordered.
LEMMA BeforeOrders ==
    ASSUME NEW a \in Ids, NEW b \in Ids, NEW c \in Ids
    PROVE  ~Before(a, a) /\ (Before(a, b) /\ Before(b, c) => Before(a, c))
<1>0. \A i \in Bits : i \in Nat /\ a[i] \in {0, 1} /\ b[i] \in {0, 1} /\ c[i] \in {0, 1}
  BY IdAssumption DEF Bits, Ids
<1>1. ~Before(a, a)
  BY <1>0 DEF Before
<1>2. ASSUME Before(a, b), Before(b, c) PROVE Before(a, c)
  <2>1. PICK i \in Bits : a[i] < b[i] /\ \A k \in 0..(i - 1) : a[k] = b[k]
    BY <1>2 DEF Before
  <2>2. PICK j \in Bits : b[j] < c[j] /\ \A k \in 0..(j - 1) : b[k] = c[k]
    BY <1>2 DEF Before
  <2>3. CASE i < j
    <3>1. i \in 0..(j - 1) /\ \A k \in 0..(i - 1) : k \in 0..(j - 1)
      BY <1>0, <2>3
    <3> QED BY <2>1, <2>2, <3>1 DEF Before
  <2>4. CASE j < i
    <3>1. j \in 0..(i - 1) /\ \A k \in 0..(j - 1) : k \in 0..(i - 1)
      BY <1>0, <2>4
    <3> QED BY <2>1, <2>2, <3>1 DEF Before
  <2>5. i # j
    BY <1>0, <2>1, <2>2
  <2> QED BY <1>0, <2>3, <2>4, <2>5
<1> QED BY <1>1, <1>2

\* Some of finitely many ids is the first: the one with the fewest before it.
LEMMA FirstFacts ==
    ASSUME NEW s \in SUBSET Ids, IsFiniteSet(s), s # {}
    PROVE  First(s) \in s
<1> DEFINE Low(a) == {b \in s : Before(b, a)}
           T == {Cardinality(Low(a)) : a \in s}
<1>1. ASSUME NEW a PROVE IsFiniteSet(Low(a)) /\ Cardinality(Low(a)) \in Nat
  <2>1. Low(a) \in SUBSET s
    OBVIOUS
  <2> HIDE DEF Low
  <2> QED BY <2>1, FS_Subset, FS_CardinalityType
<1>2. T \in SUBSET Nat /\ T # {}
  <2> HIDE DEF Low
  <2> QED BY <1>1
<1>3. PICK x \in T : \A y \in T : x <= y
  <2> HIDE DEF T
  <2> QED BY <1>2, LeastNat
<1>4. PICK a \in s : x = Cardinality(Low(a))
  OBVIOUS
<1>5. ASSUME NEW b \in s, Before(b, a) PROVE FALSE
  <2>1. Low(b) \in SUBSET Low(a) /\ b \in Low(a) /\ b \notin Low(b)
    <3>1. \A c \in s : Before(c, b) => Before(c, a)
      BY <1>5, BeforeOrders
    <3>2. ~Before(b, b)
      BY BeforeOrders
    <3> QED BY <1>5, <3>1, <3>2
  <2>2. Cardinality(Low(a)) <= Cardinality(Low(b))
    BY <1>3, <1>4
  <2> HIDE DEF Low
  <2>3. Cardinality(Low(b)) <= Cardinality(Low(a)) /\ (Cardinality(Low(a)) = Cardinality(Low(b)) => Low(a) = Low(b))
    BY <1>1, <2>1, FS_Subset
  <2>4. Cardinality(Low(a)) \in Nat /\ Cardinality(Low(b)) \in Nat
    BY <1>1
  <2> QED BY <2>1, <2>2, <2>3, <2>4
<1> QED BY <1>4, <1>5 DEF First

\* No leaf but its own holds a node.
LEMMA NodeInLeaf ==
    ASSUME NEW data, NEW self_id, TreeInv(data, self_id), NEW i \in 1..Len(data),
           IsLeaf(data[i]), NEW n \in AllNodes(data), Within(data[i], n)
    PROVE  n \in data[i].nodes
<1>1. PICK j \in 1..Len(data) : n \in data[j].nodes
  BY DEF AllNodes
<1>2. IsLeaf(data[j]) /\ Within(data[j], n) /\ data[j] \in Buckets
  BY <1>1 DEF TreeInv, Inner, NodesFit
<1>3. n \in Ids
  BY <1>1, <1>2 DEF Buckets
<1> QED BY <1>1, <1>2, <1>3 DEF TreeInv, Apart

\* The leaf at which the loop ends, and the nodes in it.
LEMMA EndFacts ==
    ASSUME NEW t, NEW self_id \in Ids, NEW n \in Ids, TableInv(t, self_id),
           NEW end, AtLeaf(end, t, self_id, n)
    PROVE  LET s == end.t.data[end.idx].nodes IN
           /\ s \in SUBSET Ids /\ s \subseteq AllNodes(t.data)
           /\ IsFiniteSet(s) /\ Cardinality(s) \in Nat /\ Cardinality(s) <= K
           /\ \A x \in s : Within(end.t.data[end.idx], x)
           /\ n \in AllNodes(t.data) => n \in s
<1>1. PICK data, i : data = end.t.data /\ i = end.idx
  OBVIOUS
<1>2. /\ TreeInv(data, self_id) /\ AllNodes(data) = AllNodes(t.data) /\ i \in 1..Len(data)
      /\ IsLeaf(data[i]) /\ Within(data[i], n)
  BY <1>1 DEF AtLeaf
<1>3. data[i] \in Buckets /\ NodesFit(data[i])
  BY <1>2 DEF TreeInv
<1>4. n \in AllNodes(data) => n \in data[i].nodes
  BY <1>2, NodeInLeaf
<1>5. data[i].nodes \in SUBSET Ids /\ data[i].nodes \subseteq AllNodes(data)
  BY <1>2, <1>3 DEF Buckets, AllNodes
<1>6. IsFiniteSet(data[i].nodes) /\ Cardinality(data[i].nodes) \in Nat
  BY <1>3, FS_CardinalityType DEF NodesFit
<1> QED BY <1>1, <1>2, <1>3, <1>4, <1>5, <1>6 DEF NodesFit

\* A table in which the nodes of a leaf were replaced, with its new size.
LEMMA NewTableNodes ==
    ASSUME NEW t, NEW self_id \in Ids, NEW n \in Ids, TableInv(t, self_id),
           NEW end, AtLeaf(end, t, self_id, n),
           NEW s, FitsInto(s, end.t.data[end.idx]),
           NEW u, WithNodes(u, end.t, end.idx, s),
           NEW w, w = NodesThen(t, end.t.data[end.idx], s),
           IsFiniteSet(w), u.size = Cardinality(w), u.size <= MaxSize
    PROVE  TableInv(u, self_id) /\ AllNodes(u.data) = w
<1>1. PICK data, i : data = end.t.data /\ i = end.idx
  OBVIOUS
<1>2. /\ TreeInv(data, self_id) /\ AllNodes(data) = AllNodes(t.data) /\ i \in 1..Len(data)
      /\ IsLeaf(data[i])
  BY <1>1 DEF AtLeaf
<1>3. PICK e : e = SetNodes(data, i, s)
  OBVIOUS
<1>4. TreeInv(e, self_id) /\ AllNodes(e) = (AllNodes(data) \ data[i].nodes) \cup s
  <2>1. FitsInto(s, data[i])
    BY <1>1
  <2> QED BY <1>2, <1>3, <2>1, NewNodes
<1>5. u.data = e
  BY <1>1, <1>3 DEF WithNodes
<1>6. u \in Tables
  BY <1>4, <1>5 DEF TreeInv, Tables, WithNodes
<1> QED BY <1>1, <1>2, <1>4, <1>5, <1>6 DEF TableInv, NodesThen

\* Every way insert_into_leaf ends is one of these.
LEMMA ResultFacts ==
    ASSUME NEW t, NEW i, NEW self_id, NEW n
    PROVE  LET res == InsertResult(t, i, self_id, n)
               s == t.data[i].nodes
           IN  /\ res \in {"WasExisting", "ReplacedBad", "Ignored", "Added", "Split"}
               /\ res = "Added" => n \notin s /\ t.size # MaxSize /\ Cardinality(s) < K
               /\ res = "ReplacedBad" => n \notin s /\ BadNodes(t, i) # {}
BY DEF InsertResult

\* add_node keeps what a table promises, and evicts only nodes that are bad.
LEMMA AddFacts ==
    ASSUME NEW t, NEW self_id \in Ids, NEW n \in Ids, TableInv(t, self_id)
    PROVE  LET u == add_node(t, self_id, n).table IN
           /\ TableInv(u, self_id)
           /\ \A x \in AllNodes(t.data) \ AllNodes(u.data) : t.node[x].errors_in_a_row >= 2
           /\ AllNodes(u.data) \subseteq AllNodes(t.data) \cup {n}
<1>1. PICK end : end = InsertLoop(t, self_id, n) /\ AtLeaf(end, t, self_id, n)
  BY LoopFacts
<1>2. PICK res : res = InsertResult(end.t, end.idx, self_id, n)
  OBVIOUS
<1>3. PICK bad : bad = First(BadNodes(end.t, end.idx))
  OBVIOUS
<1>4. PICK s : s = end.t.data[end.idx].nodes
  OBVIOUS
<1>5. PICK u : u = add_node(t, self_id, n).table
  OBVIOUS
<1>6. /\ s \in SUBSET Ids /\ s \subseteq AllNodes(t.data)
      /\ IsFiniteSet(s) /\ Cardinality(s) \in Nat /\ Cardinality(s) <= K
      /\ \A x \in s : Within(end.t.data[end.idx], x)
      /\ n \in AllNodes(t.data) => n \in s
  BY <1>1, <1>4, EndFacts
<1>7. /\ end.t \in Tables /\ end.t.size = t.size /\ end.t.total = t.total /\ end.t.node = t.node
      /\ Within(end.t.data[end.idx], n) /\ end.idx \in 1..Len(end.t.data)
      /\ TreeInv(end.t.data, self_id) /\ AllNodes(end.t.data) = AllNodes(t.data)
  BY <1>1 DEF AtLeaf
<1>8. /\ t.size \in Nat /\ t.total \in Nat /\ t.node \in [Ids -> Stamps] /\ t.size <= MaxSize
      /\ IsFiniteSet(AllNodes(t.data)) /\ t.size = Cardinality(AllNodes(t.data))
      /\ MaxSize \in Nat /\ K \in Nat /\ NewStamps \in Stamps
  BY TableAssumption DEF TableInv, Tables, NewStamps, Stamps, Instants
<1>9. CASE res = "Added"
  <2>1. u = [end.t EXCEPT !.data[end.idx].nodes = @ \cup {n}, !.size = @ + 1,
                          !.total = @ + 1, !.node[n] = NewStamps]
    BY <1>1, <1>2, <1>5, <1>9 DEF add_node
  <2>2. n \notin s /\ t.size # MaxSize /\ Cardinality(s) < K
    <3>1. /\ n \notin end.t.data[end.idx].nodes /\ end.t.size # MaxSize
          /\ Cardinality(end.t.data[end.idx].nodes) < K
      BY <1>2, <1>9, ResultFacts
    <3> QED BY <1>4, <1>7, <3>1
  <2>3. PICK z \in SUBSET Ids : z = s \cup {n}
    BY <1>6
  <2>4. IsFiniteSet(z) /\ Cardinality(z) = Cardinality(s) + 1
    BY <1>6, <2>2, <2>3, FS_AddElement
  <2>5. Cardinality(z) <= K /\ \A x \in z : Within(end.t.data[end.idx], x)
    BY <1>6, <1>7, <1>8, <2>2, <2>3, <2>4
  <2>6. (AllNodes(t.data) \ s) \cup z = AllNodes(t.data) \cup {n} /\ n \notin AllNodes(t.data)
    BY <1>6, <2>2, <2>3
  <2>7. /\ IsFiniteSet(AllNodes(t.data) \cup {n})
        /\ Cardinality(AllNodes(t.data) \cup {n}) = t.size + 1
    BY <1>8, <2>6, FS_AddElement
  <2>8. /\ u.data = [end.t.data EXCEPT ![end.idx].nodes = z]
        /\ u.size = t.size + 1 /\ u.total = t.total + 1 /\ u.node = [t.node EXCEPT ![n] = NewStamps]
        /\ u = [data |-> u.data, size |-> u.size, total |-> u.total, node |-> u.node]
    BY <1>4, <1>7, <2>1, <2>3 DEF Tables
  <2>9. u.size \in Nat /\ u.total \in Nat /\ u.node \in [Ids -> Stamps] /\ u.size <= MaxSize
    BY <1>8, <2>2, <2>8
  <2>10. WithNodes(u, end.t, end.idx, z)
    BY <2>8, <2>9 DEF WithNodes, SetNodes
  <2>11. TableInv(u, self_id) /\ AllNodes(u.data) = (AllNodes(t.data) \ s) \cup z
    <3>0. PICK w : w = NodesThen(t, end.t.data[end.idx], z)
      OBVIOUS
    <3>1. IsFiniteSet(w) /\ u.size = Cardinality(w)
      BY <1>4, <2>6, <2>7, <2>8, <3>0 DEF NodesThen
    <3>2. TableInv(u, self_id) /\ AllNodes(u.data) = w
      <4>1. FitsInto(z, end.t.data[end.idx])
        BY <2>4, <2>5 DEF FitsInto
      <4> QED BY <1>1, <3>0, <2>9, <2>10, <3>1, <4>1, NewTableNodes
    <3> QED BY <1>4, <3>0, <3>2 DEF NodesThen
  <2> QED BY <1>5, <2>6, <2>11
<1>10. CASE res = "ReplacedBad"
  <2>1. u = [end.t EXCEPT !.data[end.idx].nodes = (@ \ {bad}) \cup {n},
                          !.total = @ + 1, !.node[n] = NewStamps, !.node[bad] = NewStamps]
    BY <1>1, <1>2, <1>3, <1>5, <1>10 DEF add_node
  <2>2. n \notin s /\ BadNodes(end.t, end.idx) # {}
    BY <1>2, <1>4, <1>10, ResultFacts
  <2>3. bad \in s /\ status(t.node[bad]) = "Bad"
    <3>1. PICK w : w = BadNodes(end.t, end.idx)
      OBVIOUS
    <3>2. w \in SUBSET s /\ \A x \in w : status(t.node[x]) = "Bad"
      BY <1>4, <1>7, <3>1 DEF BadNodes
    <3>3. w \in SUBSET Ids /\ IsFiniteSet(w) /\ w # {}
      BY <1>6, <2>2, <3>1, <3>2, FS_Subset
    <3> QED BY <1>3, <3>1, <3>2, <3>3, FirstFacts
  <2>4. t.node[bad].errors_in_a_row >= 2
    BY <2>3 DEF status, Bad
  <2>5. PICK z \in SUBSET Ids : z = (s \ {bad}) \cup {n}
    BY <1>6
  <2>6. IsFiniteSet(z) /\ Cardinality(z) = Cardinality(s)
    <3>1. IsFiniteSet(s \ {bad}) /\ Cardinality(s \ {bad}) = Cardinality(s) - 1
      BY <1>6, <2>3, FS_RemoveElement
    <3>2. n \notin s \ {bad}
      BY <2>2
    <3>3. /\ IsFiniteSet((s \ {bad}) \cup {n})
          /\ Cardinality((s \ {bad}) \cup {n}) = Cardinality(s \ {bad}) + 1
      BY <3>1, <3>2, FS_AddElement
    <3> QED BY <1>6, <2>5, <3>1, <3>3
  <2>7. Cardinality(z) <= K /\ \A x \in z : Within(end.t.data[end.idx], x)
    BY <1>6, <1>7, <2>5, <2>6
  <2>8. (AllNodes(t.data) \ s) \cup z = (AllNodes(t.data) \ {bad}) \cup {n} /\ n \notin AllNodes(t.data)
    BY <1>6, <2>2, <2>3, <2>5
  <2>9. /\ IsFiniteSet((AllNodes(t.data) \ {bad}) \cup {n})
        /\ Cardinality((AllNodes(t.data) \ {bad}) \cup {n}) = t.size
    <3>1. PICK y : y = AllNodes(t.data) \ {bad}
      OBVIOUS
    <3>2. IsFiniteSet(y) /\ Cardinality(y) = t.size - 1 /\ n \notin y
      BY <1>6, <1>8, <2>3, <2>8, <3>1, FS_RemoveElement
    <3>3. IsFiniteSet(y \cup {n}) /\ Cardinality(y \cup {n}) = Cardinality(y) + 1
      BY <3>2, FS_AddElement
    <3> QED BY <1>8, <3>1, <3>2, <3>3
  <2>10. /\ u.data = [end.t.data EXCEPT ![end.idx].nodes = z]
         /\ u.size = t.size /\ u.total = t.total + 1
         /\ u.node = [t.node EXCEPT ![n] = NewStamps, ![bad] = NewStamps]
         /\ u = [data |-> u.data, size |-> u.size, total |-> u.total, node |-> u.node]
    BY <1>4, <1>7, <2>1, <2>5 DEF Tables
  <2>11. u.size \in Nat /\ u.total \in Nat /\ u.node \in [Ids -> Stamps] /\ u.size <= MaxSize
    BY <1>6, <1>8, <2>3, <2>10
  <2>12. WithNodes(u, end.t, end.idx, z)
    BY <2>10, <2>11 DEF WithNodes, SetNodes
  <2>13. TableInv(u, self_id) /\ AllNodes(u.data) = (AllNodes(t.data) \ s) \cup z
    <3>0. PICK w : w = NodesThen(t, end.t.data[end.idx], z)
      OBVIOUS
    <3>1. IsFiniteSet(w) /\ u.size = Cardinality(w)
      BY <1>4, <2>8, <2>9, <2>10, <3>0 DEF NodesThen
    <3>2. TableInv(u, self_id) /\ AllNodes(u.data) = w
      <4>1. FitsInto(z, end.t.data[end.idx])
        BY <2>6, <2>7 DEF FitsInto
      <4> QED BY <1>1, <3>0, <2>11, <2>12, <3>1, <4>1, NewTableNodes
    <3> QED BY <1>4, <3>0, <3>2 DEF NodesThen
  <2>14. \A x \in AllNodes(t.data) \ AllNodes(u.data) : x = bad
    BY <2>8, <2>13
  <2> QED BY <1>5, <2>4, <2>8, <2>13, <2>14
<1>11. CASE res \notin {"Added", "ReplacedBad"}
  <2>1. u = end.t
    BY <1>1, <1>2, <1>5, <1>11 DEF add_node
  <2> QED BY <1>5, <1>7, <1>8, <2>1 DEF TableInv
<1> QED BY <1>9, <1>10, <1>11

-----------------------------------------------------------------------------
(* The invariant of the node *)

AddrSet == {NodeAddr[n] : n \in Nodes}
Grants == [token : Tokens, node : Nodes, addr : AddrSet]
PeerSet == [ip : {a.ip : a \in AddrSet}, port : {a.port : a \in AddrSet} \cup Ports]

\* A sound table, of nodes we know.
TableOK(t, self_id) == TableInv(t, self_id) /\ AllNodes(t.data) \subseteq Nodes

\* The table, and those in the dump under way and in the file, are sound for the id
\* they are used with; what is saved was saved with our id.
TreeInvs ==
    /\ id \in SelfIds /\ TableOK(table, id)
    /\ asked \subseteq Nodes /\ ping_queue \subseteq Nodes /\ pinged \subseteq Nodes
    /\ running \in BOOLEAN /\ saved \in BOOLEAN
    /\ dump.step \in {"idle", "table", "tokens", "written", "renamed"}
    /\ dump.step # "idle" => dump.id = id /\ TableOK(dump.table, id)
    /\ dump.step \in {"written", "renamed"} =>
          dump = [step |-> dump.step, id |-> dump.id, table |-> dump.table,
                  tokens |-> dump.tokens, peers |-> dump.peers]
    /\ file.kind \in {"none", "cut", "whole"}
    /\ file.kind = "whole" => file.id \in SelfIds /\ TableOK(file.table, file.id)
    /\ ~running => dump.step = "idle"
    /\ saved => (file.kind = "whole" /\ file.id = id) \/ dump.step = "renamed"

PeerPairs(peers) == UNION {{h} \X peers[h] : h \in Hashes}

\* Tokens within their limit, of those that were given (g).
TokensKept(tokens, g) ==
    /\ tokens \in Seq(Grants) /\ Len(tokens) <= MaxTokens
    /\ \A i \in 1..Len(tokens) : tokens[i] \in g

\* Peers within their limit, each with the ip of a token that was given.
PeersKept(peers, g) ==
    /\ peers \in [Hashes -> SUBSET PeerSet]
    /\ IsFiniteSet(PeerPairs(peers)) /\ Cardinality(PeerPairs(peers)) <= MaxPeers
    /\ \A h \in Hashes : \A peer \in peers[h] : \E x \in g : x.addr.ip = peer.ip

StoreOK(s, g) ==
    /\ s \in [tokens : Seq(Grants), peers : [Hashes -> SUBSET PeerSet], peers_len : Nat]
    /\ s.peers_len = PeerCount(s.peers)
    /\ TokensKept(s.tokens, g) /\ PeersKept(s.peers, g)

DumpOK(d, g) ==
    /\ d.step \in {"tokens", "written", "renamed"} => TokensKept(d.tokens, g)
    /\ d.step \in {"written", "renamed"} => PeersKept(d.peers, g)

FileOK(f, g) == f.kind = "whole" => TokensKept(f.tokens, g) /\ PeersKept(f.peers, g)

QueryOK(q) ==
    /\ q.kind \in {"none", "get_peers", "announce"}
    /\ q.kind = "get_peers" => q.node \in Nodes /\ q.addr \in AddrSet
    /\ q.kind = "announce" => /\ q.addr \in AddrSet
                              /\ q.ann.info_hash \in Hashes
                              /\ q.ann.implied_port \in BOOLEAN
                              /\ q.ann.port \in Ports

\* The tokens and peers in memory, in the dump under way and in the file were all
\* granted, and are within their limits.
StoreInvs ==
    /\ granted \subseteq Grants
    /\ StoreOK(store, granted) /\ DumpOK(dump, granted) /\ FileOK(file, granted)
    /\ QueryOK(handling)

-----------------------------------------------------------------------------
(* Tables: marks, restarts and what they promise *)

\* Changing time stamps keeps the tree.
LEMMA StampsFacts ==
    ASSUME NEW t, NEW self_id, TableInv(t, self_id), NEW f \in [Ids -> Stamps],
           NEW u, u = [t EXCEPT !.node = f]
    PROVE  TableInv(u, self_id) /\ u.data = t.data /\ u.node = f
<1>1. u \in Tables /\ u.data = t.data /\ u.size = t.size /\ u.node = f
  BY DEF TableInv, Tables
<1> QED BY <1>1 DEF TableInv

LEMMA MarkFacts ==
    ASSUME NEW t, NEW self_id, TableInv(t, self_id), NEW n \in Ids, NEW s \in Stamps
    PROVE  TableInv(mark(t, n, s), self_id) /\ mark(t, n, s).data = t.data
<1>1. CASE n \in t.data[get_leaf(t.data, n)].nodes
  <2>1. PICK u : u = mark(t, n, s)
    OBVIOUS
  <2>2. t.node \in [Ids -> Stamps]
    BY DEF TableInv, Tables
  <2>3. PICK f \in [Ids -> Stamps] : f = [t.node EXCEPT ![n] = s]
    BY <2>2
  <2>4. u = [t EXCEPT !.node = f]
    BY <1>1, <2>1, <2>3 DEF mark
  <2> QED BY <2>1, <2>4, StampsFacts
<1>2. CASE n \notin t.data[get_leaf(t.data, n)].nodes
  BY <1>2 DEF mark
<1> QED BY <1>1, <1>2

\* The stamps of a node stay stamps.
LEMMA StampTypes ==
    ASSUME NEW s \in Stamps
    PROVE  /\ OutgoingRequest(s) \in Stamps /\ LastQuery(s) \in Stamps
           /\ Response(s) \in Stamps /\ Error(s) \in Stamps
<1>1. "fresh" \in Instants /\ "stale" \in Instants
  BY DEF Instants
<1>2. OutgoingRequest(s) \in Stamps /\ LastQuery(s) \in Stamps
  BY <1>1 DEF OutgoingRequest, LastQuery, Stamps
<1>3. Response(s) \in Stamps
  <2>1. PICK y \in Instants : y = IF s.last_request = "none" THEN "fresh" ELSE s.last_request
    BY <1>1 DEF Stamps
  <2>2. Response(s) = [s EXCEPT !.last_response = "fresh", !.last_request = y, !.errors_in_a_row = 0]
    BY <2>1 DEF Response, Stamps
  <2>3. 0 \in 0..2
    OBVIOUS
  <2> QED BY <1>1, <2>2, <2>3 DEF Stamps
<1>4. Error(s) \in Stamps
  BY DEF Error, Stamps
<1> QED BY <1>2, <1>3, <1>4

LEMMA MarksKeep ==
    ASSUME NEW t, NEW self_id, TableInv(t, self_id), NEW n \in Ids,
           NEW u \in {mark_outgoing_request(t, n), mark_response(t, n), mark_error(t, n),
                      mark_last_query(t, n)}
    PROVE  TableInv(u, self_id) /\ u.data = t.data
<1>1. PICK s \in Stamps : s = t.node[n]
  BY DEF TableInv, Tables
<1>2. \E x \in Stamps : u = mark(t, n, x)
  BY <1>1, StampTypes DEF mark_outgoing_request, mark_response, mark_error, mark_last_query
<1> QED BY <1>2, MarkFacts

\* The table of a new node, and one read from a file.
LEMMA NewTableFacts ==
    ASSUME NEW self_id \in Ids
    PROVE  TableInv(NewTable, self_id) /\ AllNodes(NewTable.data) = {}
<1> DEFINE s == [i \in Bits |-> 0]
           e == [i \in Bits |-> 1]
           b == Leaf(IdBits, s, e, {})
           d == <<b>>
<1>0. IdBits \in Nat /\ K \in Nat /\ MaxSize \in Nat
  BY IdAssumption, TableAssumption
<1>1. /\ b \in Buckets /\ b.bits = IdBits /\ b.start = s /\ b.end = e /\ b.nodes = {}
      /\ IsLeaf(b) /\ s \in Ids /\ e \in Ids
  BY <1>0 DEF Leaf, Buckets, IsLeaf, Ids
<1>2. Prefix(b) = {}
  BY <1>0, <1>1 DEF Prefix
<1>3. Shape(b)
  BY <1>0, <1>1, <1>2 DEF Shape
<1>4. IsFiniteSet({}) /\ Cardinality({}) = 0
  BY FS_EmptySet
<1>5. NodesFit(b)
  BY <1>0, <1>1, <1>4 DEF NodesFit
<1> HIDE DEF b
<1>6. d \in Seq(Buckets) /\ Len(d) = 1 /\ d[1] = b
  BY <1>1
<1> HIDE DEF d
<1>7. TreeInv(d, self_id)
  BY <1>1, <1>3, <1>5, <1>6 DEF TreeInv
<1>8. AllNodes(d) = {}
  BY <1>1, <1>6 DEF AllNodes
<1>9. NewStamps \in Stamps
  BY DEF NewStamps, Stamps, Instants
<1>10. NewTable = [data |-> d, size |-> 0, total |-> 0, node |-> [i \in Ids |-> NewStamps]]
  BY DEF NewTable, d, b
<1>11. NewTable \in Tables /\ NewTable.data = d /\ NewTable.size = 0
  BY <1>6, <1>9, <1>10 DEF Tables
<1> QED BY <1>0, <1>4, <1>7, <1>8, <1>11 DEF TableInv

LEMMA RestoredFacts ==
    ASSUME NEW t, NEW self_id, TableInv(t, self_id)
    PROVE  TableInv(Restored(t), self_id) /\ Restored(t).data = t.data
<1>0. NewStamps \in Stamps
  BY DEF NewStamps, Stamps, Instants
<1>1. PICK f \in [Ids -> Stamps] : f = [i \in Ids |-> NewStamps]
  BY <1>0
<1>2. PICK u : u = Restored(t)
  OBVIOUS
<1>3. u = [t EXCEPT !.node = f]
  BY <1>1, <1>2 DEF Restored
<1> QED BY <1>2, <1>3, StampsFacts

\* The promises of a table.
LEMMA TablePromises ==
    ASSUME NEW t, NEW self_id \in Ids, TableInv(t, self_id)
    PROVE  /\ TableSound(t, self_id)
           /\ t.size = Cardinality(NodeIds(t)) /\ t.size <= MaxSize
           /\ \A i \in iter_leaves(t.data) :
                 LET b == t.data[i]
                 IN  \A r \in generate_random_id(b.start, b.bits) : get_leaf(t.data, r) = i
           /\ \A i \in iter_leaves(t.data) : \A n \in Ids :
                 LET b == t.data[i]
                 IN  (InRange(b, n) /\ InsertResult(t, i, self_id, n) = "Split")
                         => SplitAsserts(b.start, b.end, b.bits)
<1>1. TreeInv(t.data, self_id)
  BY DEF TableInv
<1>2. iter_leaves(t.data) = {i \in 1..Len(t.data) : IsLeaf(t.data[i])}
  BY <1>1, LeavesFound
<1>3. ASSUME NEW i \in 1..Len(t.data)
      PROVE  t.data[i] \in Buckets /\ Shape(t.data[i]) /\ NodesFit(t.data[i])
  BY <1>1 DEF TreeInv
<1>4. ASSUME NEW i \in 1..Len(t.data), NEW n \in Ids
      PROVE  InRange(t.data[i], n) <=> Within(t.data[i], n)
  BY <1>3, RangeIsPrefix
<1>5. ASSUME NEW n \in Ids, NEW i \in iter_leaves(t.data)
      PROVE  Within(t.data[i], n) <=> i = get_leaf(t.data, n)
  BY <1>1, <1>2, LeafFound, LeafUnique
<1>6. TableSound(t, self_id)
  <2>1. ASSUME NEW n \in Ids
        PROVE  /\ \E i \in iter_leaves(t.data) : InRange(t.data[i], n)
               /\ \A i \in iter_leaves(t.data) : InRange(t.data[i], n) <=> i = get_leaf(t.data, n)
    <3>1. get_leaf(t.data, n) \in iter_leaves(t.data)
      BY <1>1, <1>2, LeafFound
    <3> QED BY <1>2, <1>4, <1>5, <3>1
  <2>2. ASSUME NEW i \in iter_leaves(t.data)
        PROVE  /\ Cardinality(t.data[i].nodes) <= K
               /\ \A n \in t.data[i].nodes : InRange(t.data[i], n)
    <3>1. \A n \in t.data[i].nodes : n \in Ids
      BY <1>2, <1>3 DEF Buckets
    <3> QED BY <1>2, <1>3, <1>4, <3>1 DEF NodesFit
  <2>3. ASSUME NEW i \in DOMAIN t.data \ iter_leaves(t.data)
        PROVE  InRange(t.data[i], self_id)
    <3>1. i \in 1..Len(t.data) /\ ~IsLeaf(t.data[i])
      BY <1>1, <1>2 DEF TreeInv
    <3> QED BY <1>1, <1>4, <3>1 DEF TreeInv, Inner
  <2> QED BY <2>1, <2>2, <2>3 DEF TableSound
<1>7. t.size = Cardinality(NodeIds(t)) /\ t.size <= MaxSize
  BY <1>1, NodeIdsAll DEF TableInv
<1>8. ASSUME NEW i \in iter_leaves(t.data),
             NEW r \in generate_random_id(t.data[i].start, t.data[i].bits)
      PROVE  get_leaf(t.data, r) = i
  <2>1. r \in Ids /\ Within(t.data[i], r)
    BY DEF generate_random_id, get_bit, Within, Prefix
  <2> QED BY <1>5, <2>1
<1>9. ASSUME NEW i \in iter_leaves(t.data), NEW n \in Ids, InRange(t.data[i], n),
             InsertResult(t, i, self_id, n) = "Split"
      PROVE  SplitAsserts(t.data[i].start, t.data[i].end, t.data[i].bits)
  <2>1. PICK b : b = t.data[i]
    OBVIOUS
  <2>2. b \in Buckets /\ Shape(b) /\ NodesFit(b) /\ Within(b, n)
    BY <1>2, <1>3, <1>4, <1>9, <2>1
  <2>3. n \notin b.nodes /\ ~(Cardinality(b.nodes) < K)
    BY <1>9, <2>1 DEF InsertResult
  <2>4. Cardinality(b.nodes) >= K
    BY <2>2, <2>3, TableAssumption, FS_CardinalityType DEF NodesFit
  <2>5. SplitAsserts(b.start, b.end, b.bits)
    BY <2>2, <2>3, <2>4, FullLeaf
  <2> QED BY <2>1, <2>5
<1> QED BY <1>6, <1>7, <1>8, <1>9

-----------------------------------------------------------------------------
(* Every step keeps the invariant of the tables *)

NodeIdsInIds == Nodes \subseteq Ids /\ SelfIds \subseteq Ids

LEMMA IdsFacts == NodeIdsInIds
BY NodeAssumption DEF NodeIdsInIds

\* A step that changes the table into another one of the same id, and perhaps the
\* sets of nodes.
LEMMA TableStep ==
    ASSUME TreeInvs, TableOK(table', id),
           asked' \subseteq Nodes, ping_queue' \subseteq Nodes, pinged' \subseteq Nodes,
           UNCHANGED <<id, dump, file, running, saved>>
    PROVE  TreeInvs'
BY DEF TreeInvs

\* The nodes that are evicted are bad.
EvictsBad == \A n \in AllNodes(table.data) \ AllNodes(table'.data) :
                 table.node[n].errors_in_a_row >= 2

\* The start of a request adds the node and marks it.
LEMMA RequestStarts ==
    ASSUME TreeInvs, NEW n \in Nodes, on_request_start(n)
    PROVE  TreeInvs' /\ EvictsBad
<1>1. n \in Ids /\ id \in Ids /\ TableInv(table, id) /\ AllNodes(table.data) \subseteq Nodes
  BY IdsFacts DEF TreeInvs, TableOK, NodeIdsInIds
<1>2. PICK a : a = add_node(table, id, n)
  OBVIOUS
<1>3. /\ TableInv(a.table, id)
      /\ \A x \in AllNodes(table.data) \ AllNodes(a.table.data) : table.node[x].errors_in_a_row >= 2
      /\ AllNodes(a.table.data) \subseteq AllNodes(table.data) \cup {n}
  BY <1>1, <1>2, AddFacts
<1>4. table' = a.table \/ table' = mark_outgoing_request(a.table, n)
  BY <1>2 DEF on_request_start
<1>5. TableInv(table', id) /\ table'.data = a.table.data
  <2>1. CASE table' = a.table
    BY <1>3, <2>1
  <2>2. CASE table' = mark_outgoing_request(a.table, n)
    <3>1. PICK t, u : t = a.table /\ u = mark_outgoing_request(t, n)
      OBVIOUS
    <3>2. TableInv(u, id) /\ u.data = t.data
      BY <1>1, <1>3, <3>1, MarksKeep
    <3> QED BY <2>2, <3>1, <3>2
  <2> QED BY <1>4, <2>1, <2>2
<1>6. /\ asked' \subseteq Nodes /\ ping_queue' \subseteq Nodes /\ pinged' \subseteq Nodes
      /\ UNCHANGED <<id, dump, file, running, saved>>
  BY DEF on_request_start, TreeInvs
<1>7. TableOK(table', id)
  BY <1>1, <1>3, <1>5 DEF TableOK
<1>8. TreeInvs'
  BY <1>6, <1>7, TableStep
<1> QED BY <1>3, <1>5, <1>8 DEF EvictsBad

\* The other accesses mark a node and move none.
LEMMA MarkStep ==
    ASSUME TreeInvs, NEW n \in Nodes,
           table' \in {mark_outgoing_request(table, n), mark_response(table, n),
                       mark_error(table, n), mark_last_query(table, n)},
           asked' \subseteq Nodes, ping_queue' \subseteq Nodes, pinged' \subseteq Nodes,
           UNCHANGED <<id, dump, file, running, saved>>
    PROVE  TreeInvs' /\ EvictsBad
<1>1. n \in Ids /\ TableInv(table, id) /\ AllNodes(table.data) \subseteq Nodes
  BY IdsFacts DEF TreeInvs, TableOK, NodeIdsInIds
<1>2. TableInv(table', id) /\ table'.data = table.data
  BY <1>1, MarksKeep
<1>3. TableOK(table', id)
  BY <1>1, <1>2 DEF TableOK
<1>4. TreeInvs'
  BY <1>3, TableStep
<1> QED BY <1>2, <1>4 DEF EvictsBad

LEMMA RequestSteps ==
    ASSUME TreeInvs, NEW n \in Nodes, NEW ok \in BOOLEAN,
           on_request_end(n, ok) \/ ping_start(n) \/ ping_end(n, ok) \/ on_query(n)
    PROVE  TreeInvs' /\ EvictsBad
<1>1. asked \subseteq Nodes /\ ping_queue \subseteq Nodes /\ pinged \subseteq Nodes
  BY DEF TreeInvs
<1>2. CASE on_request_end(n, ok)
  BY <1>1, <1>2, MarkStep DEF on_request_end
<1>3. CASE ping_start(n)
  BY <1>1, <1>3, MarkStep DEF ping_start
<1>4. CASE ping_end(n, ok)
  BY <1>1, <1>4, MarkStep DEF ping_end
<1>5. CASE on_query(n)
  BY <1>1, <1>5, MarkStep DEF on_query
<1> QED BY <1>2, <1>3, <1>4, <1>5

LEMMA QuerySteps ==
    ASSUME TreeInvs, NEW n \in Nodes, NEW ann, NEW addr,
           on_get_peers(n) \/ on_announce_peer(n, ann, addr)
    PROVE  TreeInvs' /\ EvictsBad
<1>1. asked \subseteq Nodes /\ ping_queue \subseteq Nodes /\ pinged \subseteq Nodes
  BY DEF TreeInvs
<1>2. CASE on_get_peers(n)
  BY <1>1, <1>2, MarkStep DEF on_get_peers
<1>3. CASE on_announce_peer(n, ann, addr)
  BY <1>1, <1>3, MarkStep DEF on_announce_peer
<1> QED BY <1>2, <1>3

\* The pinger queues nodes of the table.
LEMMA PingerTicks ==
    ASSUME TreeInvs, pinger_tick
    PROVE  TreeInvs' /\ EvictsBad
<1>1. NodeIds(table) \subseteq Nodes
  BY NodeIdsAll DEF TreeInvs, TableOK, TableInv
<1>2. ping_queue' \subseteq Nodes
  BY <1>1 DEF pinger_tick, TreeInvs
<1>3. UNCHANGED <<id, table, asked, pinged, dump, file, running, saved>>
  BY DEF pinger_tick
<1>4. TreeInvs'
  BY <1>2, <1>3, TableStep DEF TreeInvs
<1> QED BY <1>3, <1>4 DEF EvictsBad

\* Time passes.
LEMMA AgeKeeps ==
    ASSUME TreeInvs, NEW n \in Nodes, NEW f \in {"last_request", "last_response", "last_query"},
           age(n, f)
    PROVE  TreeInvs' /\ EvictsBad
<1>1. n \in Ids /\ TableInv(table, id) /\ AllNodes(table.data) \subseteq Nodes
      /\ table.node \in [Ids -> Stamps]
  BY IdsFacts DEF TreeInvs, TableOK, NodeIdsInIds, TableInv, Tables
<1>2. PICK s \in Stamps : s = table.node[n]
  BY <1>1
<1>3. [s EXCEPT ![f] = "stale"] \in Stamps
  BY DEF Stamps, Instants
<1>4. PICK g \in [Ids -> Stamps] : g = [table.node EXCEPT ![n] = [s EXCEPT ![f] = "stale"]]
  BY <1>1, <1>3
<1>5. table' = [table EXCEPT !.node = g]
  BY <1>2, <1>4 DEF age
<1>6. TableInv(table', id) /\ table'.data = table.data
  BY <1>1, <1>5, StampsFacts
<1>7. TableOK(table', id)
  BY <1>1, <1>6 DEF TableOK
<1>8. UNCHANGED <<id, asked, ping_queue, pinged, dump, file, running, saved>>
  BY DEF age
<1>9. TreeInvs'
  BY <1>7, <1>8, TableStep DEF TreeInvs
<1> QED BY <1>6, <1>9 DEF EvictsBad

\* The store is no part of the tables.
LEMMA StoreSteps ==
    ASSUME TreeInvs, get_peers_reply \/ announce_peer_store
    PROVE  TreeInvs' /\ EvictsBad
<1>1. UNCHANGED <<id, table, asked, ping_queue, pinged, dump, file, running, saved>>
  BY DEF get_peers_reply, announce_peer_store
<1>2. TreeInvs'
  BY <1>1, TableStep DEF TreeInvs
<1> QED BY <1>1, <1>2 DEF EvictsBad

\* The steps of a dump.
LEMMA DumpSteps ==
    ASSUME TreeInvs, dump_table \/ dump_tokens \/ dump_peers \/ dump_fails \/ dump_rename
    PROVE  TreeInvs' /\ UNCHANGED <<table, id, running>>
<1>1. UNCHANGED <<table, id, running, asked, ping_queue, pinged, saved>> /\ running
  BY DEF dump_table, dump_tokens, dump_peers, dump_fails, dump_rename, Work
<1>2. CASE dump_table
  <2>1. /\ dump'.step = "table" /\ dump'.id = id /\ dump'.table = Restored(table)
        /\ file' = file /\ dump.step = "idle"
    BY <1>2 DEF dump_table, NoDump
  <2>2. TableOK(dump'.table, id)
    BY <2>1, RestoredFacts DEF TreeInvs, TableOK
  <2> QED BY <1>1, <2>1, <2>2 DEF TreeInvs
<1>3. CASE dump_tokens
  <2>1. /\ dump.step = "table" /\ dump'.step = "tokens" /\ dump'.id = dump.id
        /\ dump'.table = dump.table /\ file' = file
    BY <1>3 DEF dump_tokens
  <2> QED BY <1>1, <2>1 DEF TreeInvs
<1>4. CASE dump_peers
  <2>1. /\ dump.step = "tokens" /\ dump'.step = "written" /\ dump'.id = dump.id
        /\ dump'.table = dump.table /\ file' = file
        /\ dump' = [step |-> dump'.step, id |-> dump'.id, table |-> dump'.table,
                    tokens |-> dump'.tokens, peers |-> dump'.peers]
    BY <1>4 DEF dump_peers
  <2> QED BY <1>1, <2>1 DEF TreeInvs
<1>5. CASE dump_fails
  <2>1. dump.step \in {"table", "tokens"} /\ dump'.step = "idle" /\ file' = file
    BY <1>5 DEF dump_fails, NoDump
  <2> QED BY <1>1, <2>1 DEF TreeInvs
<1>6. CASE dump_rename
  <2>1. /\ dump.step = "written" /\ dump' = [dump EXCEPT !.step = "renamed"]
        /\ file'.kind = "cut"
    BY <1>6 DEF dump_rename, CutFile
  <2>2. dump = [step |-> dump.step, id |-> dump.id, table |-> dump.table,
                tokens |-> dump.tokens, peers |-> dump.peers]
    BY <2>1 DEF TreeInvs
  <2>3. /\ dump'.step = "renamed" /\ dump'.id = dump.id /\ dump'.table = dump.table
        /\ dump' = [step |-> dump'.step, id |-> dump'.id, table |-> dump'.table,
                    tokens |-> dump'.tokens, peers |-> dump'.peers]
    BY <2>1, <2>2
  <2> QED BY <1>1, <2>1, <2>3 DEF TreeInvs
<1> QED BY <1>1, <1>2, <1>3, <1>4, <1>5, <1>6

\* The end of a dump.
LEMMA FlushKeeps ==
    ASSUME TreeInvs, NEW ok \in BOOLEAN, dump_flush(ok)
    PROVE  TreeInvs' /\ UNCHANGED <<table, id, running>>
<1>1. /\ UNCHANGED <<table, id, running, asked, ping_queue, pinged>> /\ running
      /\ dump.step = "renamed" /\ dump'.step = "idle" /\ saved' = ok
  BY DEF dump_flush, NoDump
<1>2. CASE ok
  <2>1. file'.kind = "whole" /\ file'.id = dump.id /\ file'.table = dump.table
    BY <1>2 DEF dump_flush
  <2> QED BY <1>1, <2>1 DEF TreeInvs
<1>3. CASE ~ok
  <2>1. file'.kind = "cut"
    BY <1>3 DEF dump_flush, CutFile
  <2> QED BY <1>1, <1>3, <2>1 DEF TreeInvs
<1> QED BY <1>2, <1>3

\* The process ends, and starts again from the file.
LEMMA RestartKeeps ==
    ASSUME TreeInvs, kill \/ create
    PROVE  TreeInvs' /\ running' # running /\ (id' # id => ~saved)
<1>1. CASE kill
  <2>1. /\ UNCHANGED <<id, table, file>> /\ running /\ running' = FALSE /\ dump'.step = "idle"
        /\ asked' = {} /\ ping_queue' = {} /\ pinged' = {}
        /\ saved' = (saved /\ dump.step # "renamed")
    BY <1>1 DEF kill, NoDump
  <2> QED BY <2>1 DEF TreeInvs
<1>2. CASE create
  <2>1. /\ UNCHANGED <<asked, ping_queue, pinged, dump, file, saved>> /\ ~running /\ running' = TRUE
        /\ dump.step = "idle"
    BY <1>2 DEF create, TreeInvs
  <2>2. CASE file.kind = "whole"
    <3>1. id' = file.id /\ table' = file.table
      BY <1>2, <2>2 DEF create
    <3> QED BY <2>1, <2>2, <3>1 DEF TreeInvs
  <2>3. CASE file.kind # "whole"
    <3>1. id' \in SelfIds /\ table' = NewTable
      BY <1>2, <2>3 DEF create
    <3>2. TableOK(table', id')
      BY <3>1, IdsFacts, NewTableFacts DEF TableOK, NodeIdsInIds
    <3> QED BY <2>1, <2>3, <3>1, <3>2 DEF TreeInvs
  <2> QED BY <2>2, <2>3
<1> QED BY <1>1, <1>2

\* All of it: the tables, what is evicted and the id.
LEMMA TreeStep ==
    ASSUME TreeInvs, [Next]_vars
    PROVE  /\ TreeInvs'
           /\ running /\ running' => EvictsBad
           /\ id' # id => ~saved
<1> DEFINE Goal == /\ TreeInvs'
                   /\ running /\ running' => EvictsBad
                   /\ id' # id => ~saved
<1>a. ASSUME TreeInvs' /\ EvictsBad, id' = id PROVE Goal
  BY <1>a
<1>b. ASSUME TreeInvs', UNCHANGED <<table, id, running>> PROVE Goal
  BY <1>b DEF EvictsBad
<1>1. CASE \E n \in Nodes : on_request_start(n)
  <2>1. id' = id
    BY <1>1 DEF on_request_start
  <2> QED BY <1>1, <1>a, <2>1, RequestStarts
<1>2. CASE \E n \in Nodes, ok \in BOOLEAN : on_request_end(n, ok) \/ ping_start(n) \/ ping_end(n, ok) \/ on_query(n)
  <2>1. id' = id
    BY <1>2 DEF on_request_end, ping_start, ping_end, on_query
  <2> QED BY <1>2, <1>a, <2>1, RequestSteps
<1>3. CASE \E n \in Nodes : on_get_peers(n) \/ \E ann, addr : on_announce_peer(n, ann, addr)
  <2>1. id' = id
    BY <1>3 DEF on_get_peers, on_announce_peer
  <2> QED BY <1>3, <1>a, <2>1, QuerySteps
<1>4. CASE pinger_tick
  <2>1. id' = id
    BY <1>4 DEF pinger_tick
  <2> QED BY <1>4, <1>a, <2>1, PingerTicks
<1>5. CASE \E n \in Nodes, f \in {"last_request", "last_response", "last_query"} : age(n, f)
  <2>1. id' = id
    BY <1>5 DEF age
  <2> QED BY <1>5, <1>a, <2>1, AgeKeeps
<1>6. CASE get_peers_reply \/ announce_peer_store
  <2>1. id' = id
    BY <1>6 DEF get_peers_reply, announce_peer_store
  <2> QED BY <1>6, <1>a, <2>1, StoreSteps
<1>7. CASE dump_table \/ dump_tokens \/ dump_peers \/ dump_fails \/ dump_rename
  BY <1>7, <1>b, DumpSteps
<1>8. CASE \E ok \in BOOLEAN : dump_flush(ok)
  BY <1>8, <1>b, FlushKeeps
<1>9. CASE kill \/ create
  BY <1>9, RestartKeeps DEF TreeInvs
<1>10. CASE UNCHANGED vars
  BY <1>10 DEF vars, TreeInvs, EvictsBad
<1>11. Senders \subseteq Nodes
  BY NodeAssumption
<1>12. CASE \E n \in Nodes : ping_start(n) \/ on_query(n)
  <2>1. TRUE \in BOOLEAN
    OBVIOUS
  <2> QED BY <1>2, <1>12, <2>1
<1>13. CASE \E n \in Nodes, ok \in BOOLEAN : on_request_end(n, ok) \/ ping_end(n, ok)
  BY <1>2, <1>13
<1>14. CASE (\E n \in Senders : on_get_peers(n)) \/
            (\E n \in Senders : \E ann \in Announces(n), addr \in Addrs : on_announce_peer(n, ann, addr))
  BY <1>3, <1>11, <1>14
<1>15. CASE Next
  BY <1>1, <1>4, <1>5, <1>6, <1>7, <1>8, <1>9, <1>12, <1>13, <1>14, <1>15 DEF Next
<1> QED BY <1>10, <1>15

-----------------------------------------------------------------------------
(* Every step keeps the invariant of the store *)

\* What was granted stays granted.
LEMMA GrantsGrow ==
    ASSUME NEW g, NEW h, g \subseteq h
    PROVE  /\ \A s : StoreOK(s, g) => StoreOK(s, h)
           /\ \A d : DumpOK(d, g) => DumpOK(d, h)
           /\ \A f : FileOK(f, g) => FileOK(f, h)
<1>1. \A x : TokensKept(x, g) => TokensKept(x, h)
  BY DEF TokensKept
<1>2. \A x : PeersKept(x, g) => PeersKept(x, h)
  BY DEF PeersKept
<1> QED BY <1>1, <1>2 DEF StoreOK, DumpOK, FileOK

\* The pairs of info hash and peer in a store.
LEMMA PairsFacts ==
    ASSUME NEW peers, NEW h, NEW p
    PROVE  <<h, p>> \in PeerPairs(peers) <=> h \in Hashes /\ p \in peers[h]
BY DEF PeerPairs

\* An empty store.
LEMMA NewStoreFacts ==
    ASSUME NEW g
    PROVE  StoreOK(NewStore, g)
<1>1. PICK peers : peers = [h \in Hashes |-> {}]
  OBVIOUS
<1>2. peers \in [Hashes -> SUBSET PeerSet] /\ PeerPairs(peers) = {}
  BY <1>1 DEF PeerPairs
<1>3. IsFiniteSet({}) /\ Cardinality({}) = 0
  BY FS_EmptySet
<1>4. PeersKept(peers, g) /\ PeerCount(peers) = 0
  BY <1>1, <1>2, <1>3, StoreAssumption DEF PeersKept, PeerCount, PeerPairs
<1>5. TokensKept(<<>>, g)
  BY StoreAssumption DEF TokensKept
<1>6. NewStore = [tokens |-> <<>>, peers |-> peers, peers_len |-> 0]
  BY <1>1 DEF NewStore
<1> QED BY <1>2, <1>4, <1>5, <1>6 DEF StoreOK

\* The store that is read from a file counts its peers.
LEMMA RestoredStoreFacts ==
    ASSUME NEW g, NEW tokens, NEW peers, TokensKept(tokens, g), PeersKept(peers, g)
    PROVE  StoreOK(RestoredStore(tokens, peers), g)
<1>1. PeerCount(peers) \in Nat
  BY FS_CardinalityType DEF PeersKept, PeerCount, PeerPairs
<1> QED BY <1>1 DEF RestoredStore, StoreOK, TokensKept, PeersKept

\* gen_token_for keeps the limit of the tokens: over it, the oldest one is dropped.
LEMMA TokenGiven ==
    ASSUME NEW s, NEW g, StoreOK(s, g), NEW x \in Grants
    PROVE  StoreOK(gen_token_for(s, x.token, x.node, x.addr), g \cup {x})
<1>1. PICK y : y = gen_token_for(s, x.token, x.node, x.addr)
  OBVIOUS
<1>2. PICK q : q = Append(s.tokens, x)
  OBVIOUS
<1>3. PICK z : z = IF Len(q) > MaxTokens THEN Tail(q) ELSE q
  OBVIOUS
<1>4. x = [token |-> x.token, node |-> x.node, addr |-> x.addr]
  BY DEF Grants
<1>5. y = [s EXCEPT !.tokens = z]
  BY <1>1, <1>2, <1>3, <1>4 DEF gen_token_for
<1>6. s.tokens \in Seq(Grants) /\ Len(s.tokens) <= MaxTokens /\ MaxTokens \in Nat \ {0}
      /\ \A i \in 1..Len(s.tokens) : s.tokens[i] \in g
  BY StoreAssumption DEF StoreOK, TokensKept
<1>7. /\ q \in Seq(Grants) /\ Len(q) = Len(s.tokens) + 1 /\ Len(s.tokens) \in Nat
      /\ \A i \in 1..Len(q) : q[i] \in g \cup {x}
  BY <1>2, <1>6
<1>8. TokensKept(z, g \cup {x})
  <2>1. CASE Len(q) > MaxTokens
    <3>1. z = Tail(q) /\ q # <<>>
      BY <1>3, <1>6, <1>7, <2>1
    <3>2. z \in Seq(Grants) /\ Len(z) = Len(q) - 1 /\ \A i \in 1..Len(z) : z[i] = q[i + 1]
      BY <1>7, <3>1
    <3>3. \A i \in 1..Len(z) : i + 1 \in 1..Len(q)
      BY <1>7, <3>2
    <3>4. \A i \in 1..Len(z) : z[i] \in g \cup {x}
      BY <1>7, <3>2, <3>3
    <3>5. Len(z) <= MaxTokens
      BY <1>6, <1>7, <3>2
    <3> QED BY <3>2, <3>4, <3>5 DEF TokensKept
  <2>2. CASE ~(Len(q) > MaxTokens)
    BY <1>3, <1>6, <1>7, <2>2 DEF TokensKept
  <2> QED BY <2>1, <2>2
<1>9. StoreOK(s, g \cup {x})
  BY GrantsGrow
<1>10. /\ y \in [tokens : Seq(Grants), peers : [Hashes -> SUBSET PeerSet], peers_len : Nat]
       /\ y.tokens = z /\ y.peers = s.peers /\ y.peers_len = s.peers_len
  BY <1>5, <1>8 DEF StoreOK, TokensKept
<1> QED BY <1>1, <1>8, <1>9, <1>10 DEF StoreOK

\* store_peer adds one pair, and only when its token is known and there is room.
LEMMA PeerStored ==
    ASSUME NEW s, NEW g, StoreOK(s, g), NEW q, QueryOK(q), q.kind = "announce", NEW dist
    PROVE  StoreOK(store_peer(s, q.ann, q.addr, dist), g)
<1>1. PICK y : y = store_peer(s, q.ann, q.addr, dist)
  OBVIOUS
<1>2. PICK h, addr, peer : h = q.ann.info_hash /\ addr = q.addr /\ peer = PeerAddr(q.ann, q.addr)
  OBVIOUS
<1>3. CASE y = s
  BY <1>1, <1>3
<1>4. CASE y # s
  <2>1. /\ TokenKnown(s, q.ann, addr) /\ peer \notin s.peers[h] /\ ~(s.peers_len >= MaxPeers)
        /\ y = [s EXCEPT !.peers[h] = @ \cup {peer}, !.peers_len = @ + 1]
    BY <1>1, <1>2, <1>4 DEF store_peer
  <2>2. addr \in AddrSet /\ h \in Hashes
    BY <1>2 DEF QueryOK
  <2>3. addr = [ip |-> addr.ip, port |-> addr.port]
    BY <2>2, NodeAssumption DEF AddrSet
  <2>4. peer.ip = addr.ip /\ peer \in PeerSet
    <3>1. CASE q.ann.implied_port
      BY <1>2, <2>2, <2>3, <3>1 DEF PeerAddr, PeerSet
    <3>2. CASE ~q.ann.implied_port
      <4>1. q.ann.port \in Ports
        BY DEF QueryOK
      <4>2. peer = [ip |-> addr.ip, port |-> q.ann.port]
        BY <1>2, <2>3, <3>2 DEF PeerAddr
      <4> QED BY <2>2, <4>1, <4>2 DEF PeerSet
    <3> QED BY <3>1, <3>2
  <2>5. PICK x \in g : x.addr = addr
    <3>1. PICK i \in DOMAIN s.tokens :
              s.tokens[i] = [token |-> q.ann.token, node |-> q.ann.node, addr |-> addr]
      BY <2>1 DEF TokenKnown
    <3>2. s.tokens[i] \in g
      BY DEF StoreOK, TokensKept
    <3>3. s.tokens[i].addr = addr
      BY <3>1
    <3> QED BY <3>2, <3>3
  <2>6. /\ s.peers \in [Hashes -> SUBSET PeerSet] /\ s.peers_len \in Nat
        /\ IsFiniteSet(PeerPairs(s.peers)) /\ s.peers_len = Cardinality(PeerPairs(s.peers))
        /\ \A k \in Hashes : \A p \in s.peers[k] : \E z \in g : z.addr.ip = p.ip
    BY DEF StoreOK, PeersKept, PeerCount, PeerPairs
  <2>7. PICK new : new = [s.peers EXCEPT ![h] = @ \cup {peer}]
    OBVIOUS
  <2>8. /\ new \in [Hashes -> SUBSET PeerSet] /\ new[h] = s.peers[h] \cup {peer}
        /\ \A k \in Hashes : k # h => new[k] = s.peers[k]
    BY <2>2, <2>4, <2>6, <2>7
  <2>9. PeerPairs(new) = PeerPairs(s.peers) \cup {<<h, peer>>} /\ <<h, peer>> \notin PeerPairs(s.peers)
    <3>1. \A c : c \in PeerPairs(new) <=> \E k \in Hashes : \E p \in new[k] : c = <<k, p>>
      BY DEF PeerPairs
    <3>2. \A c : c \in PeerPairs(s.peers) <=> \E k \in Hashes : \E p \in s.peers[k] : c = <<k, p>>
      BY DEF PeerPairs
    <3>3. \A c : c \in PeerPairs(new) => c \in PeerPairs(s.peers) \cup {<<h, peer>>}
      BY <2>8, <3>1, <3>2
    <3>4. \A c : c \in PeerPairs(s.peers) \cup {<<h, peer>>} => c \in PeerPairs(new)
      BY <2>2, <2>8, <3>1, <3>2
    <3>5. <<h, peer>> \notin PeerPairs(s.peers)
      BY <2>1, PairsFacts
    <3> QED BY <3>3, <3>4, <3>5
  <2>10. /\ IsFiniteSet(PeerPairs(new))
         /\ Cardinality(PeerPairs(new)) = s.peers_len + 1
    <3>1. PICK S, c : S = PeerPairs(s.peers) /\ c = <<h, peer>>
      OBVIOUS
    <3>2. IsFiniteSet(S) /\ c \notin S /\ Cardinality(S) = s.peers_len /\ PeerPairs(new) = S \cup {c}
      BY <2>6, <2>9, <3>1
    <3>3. IsFiniteSet(S \cup {c}) /\ Cardinality(S \cup {c}) = Cardinality(S) + 1
      BY <3>2, FS_AddElement
    <3> QED BY <3>2, <3>3
  <2>11. s.peers_len + 1 <= MaxPeers
    BY <2>1, <2>6, StoreAssumption
  <2>12. \A k \in Hashes : \A p \in new[k] : \E z \in g : z.addr.ip = p.ip
    <3>1. \A p \in new[h] : p \in s.peers[h] \/ p = peer
      BY <2>8
    <3>2. \E z \in g : z.addr.ip = peer.ip
      BY <2>4, <2>5
    <3> QED BY <2>2, <2>6, <2>8, <3>1, <3>2
  <2>13. PeersKept(new, g) /\ PeerCount(new) = s.peers_len + 1
    BY <2>8, <2>10, <2>11, <2>12 DEF PeersKept, PeerCount, PeerPairs
  <2>14. y = [s EXCEPT !.peers = new, !.peers_len = s.peers_len + 1]
    BY <2>1, <2>7 DEF StoreOK
  <2>15. /\ y \in [tokens : Seq(Grants), peers : [Hashes -> SUBSET PeerSet], peers_len : Nat]
         /\ y.tokens = s.tokens /\ y.peers = new /\ y.peers_len = s.peers_len + 1
    <3>1. s \in [tokens : Seq(Grants), peers : [Hashes -> SUBSET PeerSet], peers_len : Nat]
      BY DEF StoreOK
    <3>2. s.peers_len + 1 \in Nat
      BY <2>6
    <3> QED BY <2>8, <2>14, <3>1, <3>2
  <2> QED BY <1>1, <2>13, <2>15 DEF StoreOK
<1> QED BY <1>3, <1>4

\* A step that leaves the store, the dump and the file alone, and either the query
\* too or puts a sound one in its place.
LEMMA StoreStays ==
    ASSUME StoreInvs, UNCHANGED <<store, dump, file, granted>>,
           handling' = handling \/ QueryOK(handling')
    PROVE  StoreInvs'
BY DEF StoreInvs

\* A query that is marked and still to be served.
LEMMA QueryTaken ==
    ASSUME StoreInvs, NEW n \in Senders,
           \/ on_get_peers(n)
           \/ \E ann \in Announces(n), addr \in Addrs : on_announce_peer(n, ann, addr)
    PROVE  StoreInvs'
<1>1. Senders \subseteq Nodes /\ NodeAddr[n] \in AddrSet /\ Addrs \subseteq AddrSet
  BY NodeAssumption DEF AddrSet, Addrs
<1>2. CASE on_get_peers(n)
  <2>1. /\ handling'.kind = "get_peers" /\ handling'.node = n /\ handling'.addr = NodeAddr[n]
        /\ UNCHANGED <<store, dump, file, granted>>
    BY <1>2 DEF on_get_peers
  <2>2. QueryOK(handling')
    BY <1>1, <2>1 DEF QueryOK
  <2> QED BY <2>1, <2>2, StoreStays
<1>3. CASE \E ann \in Announces(n), addr \in Addrs : on_announce_peer(n, ann, addr)
  <2>1. PICK ann \in Announces(n), addr \in Addrs : on_announce_peer(n, ann, addr)
    BY <1>3
  <2>2. /\ handling'.kind = "announce" /\ handling'.ann = ann /\ handling'.addr = addr
        /\ UNCHANGED <<store, dump, file, granted>>
    BY <2>1 DEF on_announce_peer
  <2>3. ann.info_hash \in Hashes /\ ann.implied_port \in BOOLEAN /\ ann.port \in Ports
    BY DEF Announces
  <2>4. QueryOK(handling')
    BY <1>1, <2>2, <2>3 DEF QueryOK
  <2> QED BY <2>2, <2>4, StoreStays
<1> QED BY <1>2, <1>3

\* The query is served: a token is given, or a peer stored.
LEMMA QueryServed ==
    ASSUME StoreInvs, get_peers_reply \/ announce_peer_store
    PROVE  StoreInvs'
<1>1. QueryOK(handling') /\ UNCHANGED <<dump, file>>
  BY DEF get_peers_reply, announce_peer_store, NoQuery, QueryOK
<1>2. CASE get_peers_reply
  <2>1. PICK token \in Tokens :
          /\ store' = gen_token_for(store, token, handling.node, handling.addr)
          /\ granted' = granted \cup {[token |-> token, node |-> handling.node,
                                       addr |-> handling.addr]}
    BY <1>2 DEF get_peers_reply
  <2>2. handling.node \in Nodes /\ handling.addr \in AddrSet
    BY <1>2 DEF get_peers_reply, StoreInvs, QueryOK
  <2>3. PICK x \in Grants : x = [token |-> token, node |-> handling.node, addr |-> handling.addr]
    BY <2>2 DEF Grants
  <2>4. store' = gen_token_for(store, x.token, x.node, x.addr) /\ granted' = granted \cup {x}
    BY <2>1, <2>3
  <2>5. StoreOK(store', granted')
    BY <2>4, TokenGiven DEF StoreInvs
  <2>6. DumpOK(dump', granted') /\ FileOK(file', granted')
    BY <1>1, <2>4, GrantsGrow DEF StoreInvs
  <2> QED BY <1>1, <2>4, <2>5, <2>6 DEF StoreInvs
<1>3. CASE announce_peer_store
  <2>1. /\ store' = store_peer(store, handling.ann, handling.addr,
                               distance(handling.ann.info_hash, id))
        /\ handling.kind = "announce" /\ granted' = granted
    BY <1>3 DEF announce_peer_store
  <2>2. StoreOK(store', granted)
    BY <2>1, PeerStored DEF StoreInvs
  <2> QED BY <1>1, <2>1, <2>2 DEF StoreInvs
<1> QED BY <1>2, <1>3

\* The steps of a dump: what is serialized at one time stays sound while the store
\* goes on.
LEMMA DumpCopies ==
    ASSUME TreeInvs, StoreInvs,
           \/ dump_table \/ dump_tokens \/ dump_peers \/ dump_fails \/ dump_rename
           \/ \E ok \in BOOLEAN : dump_flush(ok)
    PROVE  StoreInvs'
<1>1. UNCHANGED <<store, granted, handling>>
  BY DEF dump_table, dump_tokens, dump_peers, dump_fails, dump_rename, dump_flush
<1>2. ASSUME DumpOK(dump', granted), FileOK(file', granted)
      PROVE  StoreInvs'
  BY <1>1, <1>2 DEF StoreInvs
<1>3. DumpOK(NoDump, granted) /\ FileOK(CutFile, granted)
  BY DEF DumpOK, NoDump, FileOK, CutFile
<1>4. CASE dump_table
  <2>1. dump'.step = "table" /\ file' = file
    BY <1>4 DEF dump_table
  <2>2. DumpOK(dump', granted)
    BY <2>1 DEF DumpOK
  <2> QED BY <1>2, <2>1, <2>2 DEF StoreInvs
<1>5. CASE dump_tokens
  <2>1. dump'.step = "tokens" /\ dump'.tokens = store.tokens /\ file' = file
    BY <1>5 DEF dump_tokens
  <2>2. DumpOK(dump', granted)
    BY <2>1 DEF DumpOK, StoreInvs, StoreOK
  <2> QED BY <1>2, <2>1, <2>2 DEF StoreInvs
<1>6. CASE dump_peers
  <2>1. /\ dump.step = "tokens" /\ dump'.step = "written" /\ dump'.tokens = dump.tokens
        /\ dump'.peers = store.peers /\ file' = file
    BY <1>6 DEF dump_peers
  <2>2. DumpOK(dump', granted)
    BY <2>1 DEF DumpOK, StoreInvs, StoreOK
  <2> QED BY <1>2, <2>1, <2>2 DEF StoreInvs
<1>7. CASE dump_fails
  BY <1>2, <1>3, <1>7 DEF dump_fails, StoreInvs
<1>8. CASE dump_rename
  <2>1. dump.step = "written" /\ dump' = [dump EXCEPT !.step = "renamed"] /\ file' = CutFile
    BY <1>8 DEF dump_rename
  <2>2. dump = [step |-> dump.step, id |-> dump.id, table |-> dump.table,
                tokens |-> dump.tokens, peers |-> dump.peers]
    BY <2>1 DEF TreeInvs
  <2>3. dump'.step = "renamed" /\ dump'.tokens = dump.tokens /\ dump'.peers = dump.peers
    BY <2>1, <2>2
  <2>4. DumpOK(dump', granted)
    BY <2>1, <2>3 DEF DumpOK, StoreInvs
  <2> QED BY <1>2, <1>3, <2>1, <2>4
<1>9. CASE \E ok \in BOOLEAN : dump_flush(ok)
  <2>1. PICK ok \in BOOLEAN : dump_flush(ok)
    BY <1>9
  <2>2. dump' = NoDump /\ dump.step = "renamed"
    BY <2>1 DEF dump_flush
  <2>3. CASE ok
    <3>1. file'.tokens = dump.tokens /\ file'.peers = dump.peers
      BY <2>1, <2>3 DEF dump_flush
    <3>2. FileOK(file', granted)
      BY <2>2, <3>1 DEF StoreInvs, DumpOK, FileOK
    <3> QED BY <1>2, <1>3, <2>2, <3>2
  <2>4. CASE ~ok
    <3>1. file' = CutFile
      BY <2>1, <2>4 DEF dump_flush
    <3> QED BY <1>2, <1>3, <2>2, <3>1
  <2> QED BY <2>3, <2>4
<1> QED BY <1>4, <1>5, <1>6, <1>7, <1>8, <1>9

\* A kill keeps what is in the file; a restart reads it.
LEMMA RestartReads ==
    ASSUME StoreInvs, kill \/ create
    PROVE  StoreInvs'
<1>1. CASE kill
  <2>1. dump' = NoDump /\ handling' = NoQuery /\ UNCHANGED <<store, file, granted>>
    BY <1>1 DEF kill
  <2>2. DumpOK(dump', granted) /\ QueryOK(handling')
    BY <2>1 DEF DumpOK, QueryOK, NoDump, NoQuery
  <2> QED BY <2>1, <2>2 DEF StoreInvs
<1>2. CASE create
  <2>1. UNCHANGED <<handling, dump, file, granted>>
    BY <1>2 DEF create
  <2>2. StoreOK(store', granted)
    <3>1. CASE file.kind = "whole"
      <4>1. store' = RestoredStore(file.tokens, file.peers)
        BY <1>2, <3>1 DEF create
      <4>2. TokensKept(file.tokens, granted) /\ PeersKept(file.peers, granted)
        BY <3>1 DEF StoreInvs, FileOK
      <4> QED BY <4>1, <4>2, RestoredStoreFacts
    <3>2. CASE file.kind # "whole"
      <4>1. store' = NewStore
        BY <1>2, <3>2 DEF create
      <4> QED BY <4>1, NewStoreFacts
    <3> QED BY <3>1, <3>2
  <2> QED BY <2>1, <2>2 DEF StoreInvs
<1> QED BY <1>1, <1>2

\* All of it.
LEMMA StoreStep ==
    ASSUME TreeInvs, StoreInvs, [Next]_vars
    PROVE  StoreInvs'
<1>1. CASE \/ \E n \in Nodes : on_request_start(n)
           \/ \E n \in Nodes, ok \in BOOLEAN : on_request_end(n, ok)
           \/ pinger_tick
           \/ \E n \in Nodes : ping_start(n)
           \/ \E n \in Nodes, ok \in BOOLEAN : ping_end(n, ok)
           \/ \E n \in Nodes, f \in {"last_request", "last_response", "last_query"} : age(n, f)
           \/ \E n \in Nodes : on_query(n)
           \/ UNCHANGED vars
  <2>1. UNCHANGED <<store, dump, file, granted, handling>>
    BY <1>1 DEF on_request_start, on_request_end, pinger_tick, ping_start, ping_end, age,
                on_query, vars
  <2> QED BY <2>1, StoreStays
<1>2. CASE \/ \E n \in Senders : on_get_peers(n)
           \/ \E n \in Senders : \E ann \in Announces(n), addr \in Addrs :
                 on_announce_peer(n, ann, addr)
  BY <1>2, QueryTaken
<1>3. CASE get_peers_reply \/ announce_peer_store
  BY <1>3, QueryServed
<1>4. CASE \/ dump_table \/ dump_tokens \/ dump_peers \/ dump_fails \/ dump_rename
           \/ \E ok \in BOOLEAN : dump_flush(ok)
  BY <1>4, DumpCopies
<1>5. CASE kill \/ create
  BY <1>5, RestartReads
<1> QED BY <1>1, <1>2, <1>3, <1>4, <1>5 DEF Next

-----------------------------------------------------------------------------
(* The theorems *)

LEMMA InitFacts ==
    ASSUME Init
    PROVE  TreeInvs /\ StoreInvs
<1>1. TreeInvs
  <2>1. FirstId \in SelfIds /\ FirstId \in Ids
    BY NodeAssumption
  <2>2. TableOK(NewTable, FirstId)
    BY <2>1, NewTableFacts DEF TableOK
  <2> QED BY <2>1, <2>2 DEF Init, TreeInvs, NoDump, NoFile
<1>2. StoreInvs
  <2>1. StoreOK(NewStore, {})
    BY NewStoreFacts
  <2>2. DumpOK(NoDump, {}) /\ FileOK(NoFile, {}) /\ QueryOK(NoQuery)
    BY DEF DumpOK, FileOK, QueryOK, NoDump, NoFile, NoQuery
  <2> QED BY <2>1, <2>2 DEF Init, StoreInvs
<1> QED BY <1>1, <1>2

\* The invariant of the node is one: the tables and the stores, in memory, in the
\* dump under way and in the file.
THEOREM NodeInvHolds == Spec => [](TreeInvs /\ StoreInvs)
<1>1. Init => TreeInvs /\ StoreInvs
  BY InitFacts
<1>2. (TreeInvs /\ StoreInvs) /\ [Next]_vars => (TreeInvs /\ StoreInvs)'
  BY TreeStep, StoreStep
<1> QED BY <1>1, <1>2, PTL DEF Spec

\* BucketTree::insert_into_leaf and its restarts, for any length of ids, size of
\* buckets and limit: the leaves part the ids, get_leaf finds every node, no bucket is
\* overfull, size is exact, a refresh hits its bucket and compute_split_start_end's
\* debug_assert! hold at the next split.
THEOREM RoutingTableSound == Spec => []TreeSound
<1>1. TreeInvs /\ StoreInvs => TreeSound
  <2> SUFFICES ASSUME TreeInvs, StoreInvs PROVE TreeSound
    OBVIOUS
  <2>1. id \in Ids /\ TableInv(table, id)
    BY IdsFacts DEF TreeInvs, TableOK, NodeIdsInIds
  <2>2. BucketsSound /\ SizeExact /\ RefreshHitsBucket /\ SplitsLegal
    BY <2>1, TablePromises DEF BucketsSound, SizeExact, RefreshHitsBucket, SplitsLegal
  <2>3. table.node \in [Ids -> Stamps]
    BY <2>1 DEF TableInv, Tables
  <2>4. Len(store.tokens) <= MaxTokens
    BY DEF StoreInvs, StoreOK, TokensKept
  <2>5. TypeOK
    BY <2>3, <2>4 DEF TreeInvs, TypeOK
  <2> QED BY <2>2, <2>5 DEF TreeSound
<1> QED BY <1>1, NodeInvHolds, PTL

\* PeerStore: the counter that limits the store is the number of its peers, within the
\* limit, and every peer's ip was given a token (store_peer), also over restarts from
\* dumps that raced with announces.
THEOREM PeerStoreSound == Spec => []StoreSound
<1>1. StoreInvs => StoreSound
  <2> SUFFICES ASSUME StoreInvs PROVE StoreSound
    OBVIOUS
  <2>1. store.peers_len = PeerCount(store.peers) /\ PeersKept(store.peers, granted)
    BY DEF StoreInvs, StoreOK
  <2>2. PeerCount(store.peers) = Cardinality(PeerPairs(store.peers))
    BY DEF PeerCount, PeerPairs
  <2> QED BY <2>1, <2>2 DEF StoreSound, PeersLenExact, StoredWithToken, PeersKept
<1> QED BY <1>1, NodeInvHolds, PTL

\* A node leaves the table only after two requests in a row that it did not answer
\* (insert_into_leaf replaces only a bad node), however the buckets are split.
THEOREM OnlyBadNodesEvicted == Spec => OnlyBadEvicted
<1>1. TreeInvs /\ TreeInvs' /\ [Next]_vars =>
        [running /\ running' => \A n \in NodeIds(table) \ NodeIds(table') :
                                  table.node[n].errors_in_a_row >= 2]_vars
  <2> SUFFICES ASSUME TreeInvs, TreeInvs', [Next]_vars, running, running'
               PROVE  \A n \in NodeIds(table) \ NodeIds(table') :
                          table.node[n].errors_in_a_row >= 2
    OBVIOUS
  <2>1. NodeIds(table) = AllNodes(table.data)
    BY NodeIdsAll DEF TreeInvs, TableOK, TableInv
  <2>2. NodeIds(table') = AllNodes(table'.data)
    BY NodeIdsAll DEF TreeInvs, TableOK, TableInv
  <2>3. EvictsBad
    BY TreeStep
  <2> QED BY <2>1, <2>2, <2>3 DEF EvictsBad
<1> QED BY <1>1, NodeInvHolds, PTL DEF Spec, OnlyBadEvicted

\* A node whose dump was written to its end keeps its id over any kills and restarts
\* (PersistentDht::create reads it back), until a later dump is cut off.
THEOREM NodeKeepsItsId == Spec => IdKept
<1>1. TreeInvs /\ [Next]_vars => [id' # id => ~saved]_vars
  BY TreeStep
<1> QED BY <1>1, NodeInvHolds, PTL DEF Spec, IdKept
=============================================================================
