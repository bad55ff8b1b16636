--------------------------- MODULE DhtLookupProofs ---------------------------
(***************************************************************************)
(* DhtLookup, for every set of nodes, every number of transaction ids that *)
(* is larger than the lifetime of a datagram, and every limit: a datagram  *)
(* finds the request that it answers and no other, every open request has  *)
(* its entry, the list of useful nodes has a node once, and a find_node    *)
(* that ends has asked every node that it meant to.                        *)
(***************************************************************************)
EXTENDS DhtLookup, Integers, FiniteSetTheorems, SequenceTheorems, WellFoundedInduction, TLAPS

-----------------------------------------------------------------------------
(* Types *)

AddrSet == {AddrOf[n] : n \in Nodes} \cup {HostAddrs[s] : s \in DOMAIN HostAddrs}
UsefulSet == [id : Nodes, addr : AddrSet, old : BOOLEAN, responded : BOOLEAN,
              returned_peers : BOOLEAN]
QueueSet == [id : Nodes, addr : AddrSet, depth : 0..MaxDepth]

\* Every non-empty set of naturals has a least element.
LEMMA LeastNat ==
    ASSUME NEW T \in SUBSET Nat, T # {}
    PROVE  \E n \in T : \A m \in T : n <= m
<1> DEFINE R == OpToRel(<, Nat)
<1>1. \A m, n \in Nat : <<m, n>> \in R <=> m < n
  BY DEF OpToRel
<1>2. IsWellFoundedOn(R, Nat)
  BY NatLessThanWellFounded
<1> HIDE DEF R
<1>3. PICK x \in T : \A y \in T : ~(<<y, x>> \in R)
  BY <1>2, WFMin
<1>4. ASSUME NEW y \in T PROVE x <= y
  <2>1. x \in Nat /\ y \in Nat
    OBVIOUS
  <2>2. ~(y < x)
    BY <1>1, <1>3, <2>1
  <2> QED BY <2>1, <2>2
<1> QED BY <1>4

-----------------------------------------------------------------------------
(* The list of useful nodes *)

\* The sorted list has the entries of the list, each once.
LEMMA SortFacts ==
    ASSUME NEW list \in Seq(UsefulSet)
    PROVE  \E p \in [1..Len(list) -> 1..Len(list)] :
              /\ \A i, j \in 1..Len(list) : p[i] = p[j] => i = j
              /\ sort_by_key(list) = [k \in 1..Len(list) |-> list[p[k]]]
<1> DEFINE n == Len(list)
           I == 1..n
           UpTo(i) == {j \in DOMAIN list : \/ Before(list[j], list[i])
                                           \/ ~Before(list[i], list[j]) /\ j <= i}
           rank == [i \in I |-> Cardinality(UpTo(i))]
<1>1. n \in Nat /\ DOMAIN list = I /\ I \subseteq Nat
  OBVIOUS
<1>2. \A i \in I : list[i].id \in Nat /\ Grade(list[i]) \in Nat
  <2>1. \A i \in I : list[i] \in UsefulSet
    OBVIOUS
  <2>2. \A i \in I : list[i].id \in Nat
    BY <2>1, LookupAssumption DEF UsefulSet
  <2>3. \A i \in I : Grade(list[i]) \in Nat
    BY DEF Grade
  <2> QED BY <2>2, <2>3
<1>3. \A i, j \in I : j \in UpTo(i) <=>
         \/ Grade(list[j]) < Grade(list[i])
         \/ /\ Grade(list[j]) = Grade(list[i])
            /\ list[j].id < list[i].id \/ (list[j].id = list[i].id /\ j <= i)
  BY <1>1, <1>2 DEF Before
<1>4. \A i \in I : UpTo(i) \subseteq I /\ i \in UpTo(i)
  BY <1>1, <1>2, <1>3
<1>5. ASSUME NEW i \in I, NEW j \in I, i # j, i \in UpTo(j)
      PROVE  UpTo(i) \subseteq UpTo(j) /\ j \notin UpTo(i)
  <2>1. j \notin UpTo(i)
    BY <1>1, <1>2, <1>3, <1>5
  <2>2. ASSUME NEW k \in I, k \in UpTo(i) PROVE k \in UpTo(j)
    BY <1>1, <1>2, <1>3, <1>5, <2>2
  <2> QED BY <1>4, <2>1, <2>2
<1>6. \A i, j \in I : i \in UpTo(j) \/ j \in UpTo(i)
  BY <1>1, <1>2, <1>3
<1>7. IsFiniteSet(I) /\ Cardinality(I) = n
  <2>1. 1 \in Int /\ n \in Int
    OBVIOUS
  <2> QED BY <1>1, <2>1, FS_Interval
<1> HIDE DEF UpTo
<1>8. \A i \in I : IsFiniteSet(UpTo(i)) /\ Cardinality(UpTo(i)) \in I
  <2> SUFFICES ASSUME NEW i \in I PROVE IsFiniteSet(UpTo(i)) /\ Cardinality(UpTo(i)) \in I
    OBVIOUS
  <2>1. IsFiniteSet(UpTo(i)) /\ Cardinality(UpTo(i)) <= n
    BY <1>4, <1>7, FS_Subset
  <2>2. Cardinality(UpTo(i)) \in Nat
    BY <2>1, FS_CardinalityType
  <2>3. Cardinality(UpTo(i)) # 0
    BY <1>4, <2>1, FS_EmptySet
  <2> QED BY <1>1, <2>1, <2>2, <2>3
<1>9. ASSUME NEW i \in I, NEW j \in I, i # j, i \in UpTo(j)
      PROVE  Cardinality(UpTo(i)) # Cardinality(UpTo(j))
  <2>1. UpTo(i) \subseteq UpTo(j) /\ j \notin UpTo(i) /\ j \in UpTo(j)
    BY <1>4, <1>5, <1>9
  <2>2. UpTo(i) # UpTo(j)
    BY <2>1
  <2> QED BY <1>8, <2>1, <2>2, FS_Subset
<1>10. \A i, j \in I : Cardinality(UpTo(i)) = Cardinality(UpTo(j)) => i = j
  BY <1>6, <1>9
<1>11. rank \in [I -> I] /\ \A i, j \in I : rank[i] = rank[j] => i = j
  BY <1>8, <1>10
<1>12. \A k \in I : \E i \in I : rank[i] = k
  <2>1. rank \in Injection(I, I)
    BY <1>11 DEF Injection, IsInjective
  <2>2. rank \in Surjection(I, I)
    BY <1>7, <2>1, FS_Injection
  <2> QED BY <2>2 DEF Surjection
<1> DEFINE p == [k \in DOMAIN list |-> CHOOSE i \in DOMAIN list : Cardinality(UpTo(i)) = k]
<1>13. \A k \in I : p[k] \in I /\ Cardinality(UpTo(p[k])) = k
  <2>1. \A k \in I : \E i \in I : Cardinality(UpTo(i)) = k
    BY <1>12
  <2> QED BY <1>1, <2>1
<1>14. p \in [I -> I] /\ \A i, j \in I : p[i] = p[j] => i = j
  BY <1>1, <1>13
<1>15. sort_by_key(list) = [k \in I |-> list[p[k]]]
  <2>1. sort_by_key(list) = [k \in DOMAIN list |->
                               list[CHOOSE i \in DOMAIN list : Cardinality(UpTo(i)) = k]]
    BY Zenon DEF sort_by_key, UpTo
  <2>2. \A k \in I : p[k] = CHOOSE i \in DOMAIN list : Cardinality(UpTo(i)) = k
    BY <1>1
  <2> HIDE DEF p
  <2> QED BY <1>1, <2>1, <2>2
<1> QED BY <1>14, <1>15

\* What is true of useful_nodes at all times.
GoodList(l) ==
    /\ l \in Seq(UsefulSet) /\ Len(l) <= UsefulLimit
    /\ \A i, j \in 1..Len(l) : l[i].id = l[j].id => i = j

\* should_request_node keeps it, and refuses what is too deep.
LEMMA ShouldRequestFacts ==
    ASSUME NEW l, GoodList(l), NEW id \in Nodes, NEW depth \in 0..MaxDepth, NEW r,
           r = should_request_node(l, id, depth)
    PROVE  GoodList(r.list) /\ (r.yes => depth + 1 \in 0..MaxDepth)
<1> DEFINE known == {i \in DOMAIN l : l[i].id = id}
           a == Append(l, NewUseful(id))
           pushed == sort_by_key(a)
<1>0. /\ l \in Seq(UsefulSet) /\ Len(l) \in Nat /\ DOMAIN l = 1..Len(l)
      /\ MaxDepth \in Nat /\ UsefulLimit \in Nat /\ UsefulLimit > 0
  BY LookupAssumption DEF GoodList
<1>1. CASE depth >= MaxDepth
  <2>1. r = [yes |-> FALSE, list |-> l]
    BY <1>1 DEF should_request_node
  <2> QED BY <2>1
<1>2. CASE ~(depth >= MaxDepth) /\ known # {}
  <2>1. PICK i : i = CHOOSE j \in known : TRUE
    OBVIOUS
  <2>2. i \in known
    BY <1>2, <2>1
  <2>3. r = [yes |-> l[i].old, list |-> [l EXCEPT ![i].old = FALSE]]
    BY <1>2, <2>1 DEF should_request_node
  <2>4. PICK x : x = [l[i] EXCEPT !.old = FALSE]
    OBVIOUS
  <2>5. x \in UsefulSet /\ x.id = l[i].id
    <3>1. PICK y : y = l[i]
      OBVIOUS
    <3>2. y \in UsefulSet
      BY <1>0, <2>2, <3>1
    <3> QED BY <2>4, <3>1, <3>2 DEF UsefulSet
  <2>6. r.list = [l EXCEPT ![i] = x]
    BY <2>3, <2>4
  <2>7. /\ r.list \in Seq(UsefulSet) /\ Len(r.list) = Len(l)
        /\ \A j \in 1..Len(l) : r.list[j].id = l[j].id
    BY <1>0, <2>2, <2>5, <2>6
  <2>8. depth + 1 \in 0..MaxDepth
    BY <1>0, <1>2
  <2> QED BY <2>7, <2>8 DEF GoodList
<1>3. CASE ~(depth >= MaxDepth) /\ known = {}
  <2>1. NewUseful(id) \in UsefulSet /\ NewUseful(id).id = id
    BY DEF NewUseful, UsefulSet, AddrSet
  <2>2. /\ a \in Seq(UsefulSet) /\ Len(a) = Len(l) + 1
        /\ \A i \in 1..Len(l) : a[i] = l[i]
        /\ a[Len(l) + 1] = NewUseful(id)
    BY <1>0, <2>1, AppendProperties
  <2> HIDE DEF a
  <2>3. \A i, j \in 1..Len(a) : a[i].id = a[j].id => i = j
    <3>1. \A i \in 1..Len(l) : l[i].id # id
      BY <1>0, <1>3
    <3>2. \A i \in 1..Len(a) : \/ i \in 1..Len(l) /\ a[i].id = l[i].id
                               \/ i = Len(l) + 1 /\ a[i].id = id
      BY <1>0, <2>1, <2>2
    <3>3. \A i, j \in 1..Len(l) : l[i].id = l[j].id => i = j
      BY DEF GoodList
    <3> QED BY <3>1, <3>2, <3>3
  <2>4. PICK p \in [1..Len(a) -> 1..Len(a)] :
           /\ \A i, j \in 1..Len(a) : p[i] = p[j] => i = j
           /\ pushed = [k \in 1..Len(a) |-> a[p[k]]]
    BY <2>2, SortFacts
  <2> HIDE DEF pushed
  <2>5. /\ pushed \in Seq(UsefulSet) /\ Len(pushed) = Len(l) + 1
        /\ \A i \in 1..Len(pushed) : pushed[i] = a[p[i]]
    <3>1. Len(a) \in Nat /\ \A k \in 1..Len(a) : a[p[k]] \in UsefulSet
      BY <1>0, <2>2, <2>4
    <3> QED BY <2>2, <2>4, <3>1
  <2>6. \A i, j \in 1..Len(pushed) : pushed[i].id = pushed[j].id => i = j
    <3>1. \A i \in 1..Len(pushed) : p[i] \in 1..Len(a) /\ pushed[i] = a[p[i]]
      BY <2>2, <2>4, <2>5
    <3>2. Len(pushed) = Len(a)
      BY <2>2, <2>5
    <3> SUFFICES ASSUME NEW i \in 1..Len(pushed), NEW j \in 1..Len(pushed),
                        pushed[i].id = pushed[j].id
                 PROVE  i = j
      OBVIOUS
    <3>3. p[i] = p[j]
      <4>1. /\ p[i] \in 1..Len(a) /\ pushed[i] = a[p[i]]
            /\ p[j] \in 1..Len(a) /\ pushed[j] = a[p[j]]
        BY <3>1
      <4> QED BY <2>3, <4>1
    <3> QED BY <2>4, <3>2, <3>3
  <2>7. depth + 1 \in 0..MaxDepth
    BY <1>0, <1>3
  <2>8. CASE Len(pushed) > UsefulLimit
    <3>1. r = [yes |-> Last(pushed).id # id, list |-> Front(pushed)]
      BY <1>3, <2>8 DEF should_request_node, pushed, a
    <3>2. Front(pushed) = SubSeq(pushed, 1, Len(l))
      BY <1>0, <2>5 DEF Front
    <3>3. \A i \in 1..Len(l) : pushed[i] \in UsefulSet
      BY <1>0, <2>5
    <3>4. /\ SubSeq(pushed, 1, Len(l)) \in Seq(UsefulSet)
          /\ Len(SubSeq(pushed, 1, Len(l))) = IF 1 <= Len(l) THEN Len(l) - 1 + 1 ELSE 0
          /\ \A i \in 1..(Len(l) - 1 + 1) : SubSeq(pushed, 1, Len(l))[i] = pushed[1 + i - 1]
      BY <1>0, <2>5, <3>3, SubSeqProperties
    <3>5. /\ r.list \in Seq(UsefulSet) /\ Len(r.list) = Len(l)
          /\ \A i \in 1..Len(l) : r.list[i] = pushed[i]
      BY <1>0, <3>1, <3>2, <3>4
    <3>6. \A i \in 1..Len(l) : i \in 1..Len(pushed)
      BY <1>0, <2>5
    <3>7. \A i, j \in 1..Len(r.list) : r.list[i].id = r.list[j].id => i = j
      BY <2>6, <3>5, <3>6
    <3>8. Len(r.list) <= UsefulLimit
      BY <3>5 DEF GoodList
    <3> QED BY <2>7, <3>5, <3>7, <3>8 DEF GoodList
  <2>9. CASE ~(Len(pushed) > UsefulLimit)
    <3>1. r = [yes |-> TRUE, list |-> pushed]
      BY <1>3, <2>9 DEF should_request_node, pushed, a
    <3>2. Len(pushed) <= UsefulLimit
      BY <1>0, <2>5, <2>9
    <3> QED BY <2>5, <2>6, <2>7, <3>1, <3>2 DEF GoodList
  <2> QED BY <2>8, <2>9
<1> QED BY <1>1, <1>2, <1>3

\* The list while the nodes of a response are looked at, and what is to be asked.
GoodAcc(acc) == GoodList(acc.list) /\ acc.send \in Seq(QueueSet)

\* One node of a response.
LEMMA HandleNodeGood ==
    ASSUME NEW acc, GoodAcc(acc), NEW n \in Nodes, NEW depth \in 0..MaxDepth
    PROVE  GoodAcc(HandleNode(acc, n, depth))
<1>1. PICK r, l : l = acc.list /\ r = should_request_node(l, n, depth)
  OBVIOUS
<1>2. GoodList(r.list) /\ (r.yes => depth + 1 \in 0..MaxDepth)
  BY <1>1, ShouldRequestFacts DEF GoodAcc
<1>3. PICK x : x = [id |-> n, addr |-> AddrOf[n], depth |-> depth + 1]
  OBVIOUS
<1>4. HandleNode(acc, n, depth) =
         [list |-> r.list, send |-> IF r.yes THEN Append(acc.send, x) ELSE acc.send]
  BY <1>1, <1>3 DEF HandleNode
<1>5. r.yes => x \in QueueSet
  BY <1>2, <1>3 DEF QueueSet, AddrSet
<1>6. acc.send \in Seq(QueueSet)
  BY DEF GoodAcc
<1>7. CASE r.yes
  <2>1. Append(acc.send, x) \in Seq(QueueSet)
    BY <1>5, <1>6, <1>7
  <2> QED BY <1>2, <1>4, <1>7, <2>1 DEF GoodAcc
<1>8. CASE ~r.yes
  BY <1>2, <1>4, <1>6, <1>8 DEF GoodAcc
<1> QED BY <1>7, <1>8

\* g[k] is what HandleNodes has after k nodes, for k up to m.
IsRun(g, list, nodes, depth, m) ==
    g = [k \in 0..m |-> IF k = 0 THEN [list |-> list, send |-> <<>>]
                        ELSE HandleNode(g[k - 1], nodes[k], depth)]

\* There is one for every number of nodes.
LEMMA RunExists ==
    ASSUME NEW list, NEW nodes, NEW depth, NEW m \in Nat
    PROVE  \E g : IsRun(g, list, nodes, depth, m)
<1> DEFINE T == {n \in Nat : ~\E g : IsRun(g, list, nodes, depth, n)}
<1> SUFFICES ASSUME T # {} PROVE FALSE
  OBVIOUS
<1>1. T \in SUBSET Nat
  OBVIOUS
<1>2. PICK n \in T : \A k \in T : n <= k
  BY <1>1, LeastNat
<1>3. n # 0
  <2> DEFINE g == [k \in 0..0 |-> [list |-> list, send |-> <<>>]]
  <2>1. IsRun(g, list, nodes, depth, 0)
    BY DEF IsRun
  <2> QED BY <2>1
<1>4. n \in Nat /\ n - 1 \in Nat /\ n - 1 \notin T
  BY <1>2, <1>3
<1>5. PICK g : IsRun(g, list, nodes, depth, n - 1)
  BY <1>4
<1> DEFINE h == [k \in 0..n |-> IF k = n THEN HandleNode(g[n - 1], nodes[n], depth) ELSE g[k]]
<1>6. /\ g[0] = [list |-> list, send |-> <<>>]
      /\ \A k \in 1..(n - 1) : g[k] = HandleNode(g[k - 1], nodes[k], depth)
  BY <1>4, <1>5 DEF IsRun
<1>7. ASSUME NEW k \in 0..n
      PROVE  h[k] = IF k = 0 THEN [list |-> list, send |-> <<>>]
                    ELSE HandleNode(h[k - 1], nodes[k], depth)
  <2>1. CASE k = 0
    BY <1>3, <1>4, <1>6, <2>1
  <2>2. CASE k = n
    <3>1. h[n - 1] = g[n - 1] /\ h[n] = HandleNode(g[n - 1], nodes[n], depth)
      BY <1>4
    <3> QED BY <1>3, <2>2, <3>1
  <2>3. CASE k # 0 /\ k # n
    <3>1. k \in 1..(n - 1) /\ k - 1 \in 0..n /\ k - 1 # n
      BY <1>4, <2>3
    <3>2. h[k] = g[k] /\ h[k - 1] = g[k - 1]
      BY <2>3, <3>1
    <3> QED BY <1>6, <2>3, <3>1, <3>2
  <2> QED BY <2>1, <2>2, <2>3
<1> HIDE DEF h
<1>8. h = [k \in 0..n |-> h[k]]
  BY DEF h
<1>9. IsRun(h, list, nodes, depth, n)
  BY <1>7, <1>8 DEF IsRun
<1> QED BY <1>2, <1>9

\* The nodes of a response.
LEMMA HandleNodesGood ==
    ASSUME NEW list, GoodList(list), NEW nodes \in Seq(Nodes), NEW depth \in 0..MaxDepth
    PROVE  GoodAcc(HandleNodes(list, nodes, depth))
<1> DEFINE D(f) == [k \in 0..Len(nodes) |-> IF k = 0 THEN [list |-> list, send |-> <<>>]
                                            ELSE HandleNode(f[k - 1], nodes[k], depth)]
           g == CHOOSE f : f = D(f)
<1>1. HandleNodes(list, nodes, depth) = g[Len(nodes)]
  BY Zenon DEF HandleNodes
<1>2. \E f : f = D(f)
  <2>1. Len(nodes) \in Nat
    OBVIOUS
  <2>2. \E f : IsRun(f, list, nodes, depth, Len(nodes))
    BY <2>1, RunExists
  <2> QED BY <2>2 DEF IsRun
<1>3. g = D(g)
  BY <1>2
<1> HIDE DEF g
<1>4. /\ g[0] = [list |-> list, send |-> <<>>]
      /\ \A k \in 1..Len(nodes) : g[k] = HandleNode(g[k - 1], nodes[k], depth)
  BY <1>3
<1> HIDE DEF D
<1>5. \A k \in 0..Len(nodes) : GoodAcc(g[k])
  <2> DEFINE T == {k \in 0..Len(nodes) : ~GoodAcc(g[k])}
  <2> SUFFICES ASSUME T # {} PROVE FALSE
    OBVIOUS
  <2>1. T \in SUBSET Nat
    OBVIOUS
  <2>2. PICK k \in T : \A m \in T : k <= m
    BY <2>1, LeastNat
  <2>3. GoodAcc(g[0])
    <3>1. <<>> \in Seq(QueueSet)
      OBVIOUS
    <3> QED BY <1>4, <3>1 DEF GoodAcc
  <2>4. k \in 1..Len(nodes) /\ k - 1 \in 0..Len(nodes) /\ k - 1 \notin T
    BY <2>2, <2>3
  <2>5. GoodAcc(g[k - 1]) /\ nodes[k] \in Nodes
    BY <2>4
  <2> QED BY <1>4, <2>2, <2>4, <2>5, HandleNodeGood
<1>6. Len(nodes) \in 0..Len(nodes)
  OBVIOUS
<1> QED BY <1>1, <1>5, <1>6

-----------------------------------------------------------------------------
(* Transactions *)

FutSet == [id : Nodes \cup {NoId}, addr : AddrSet, depth : 0..MaxDepth,
           step : {"start1", "wait1", "start2", "wait2"}, tid : 0..(TidSpace - 1), age : 0..Window]
EntrySet == [tid : 0..(TidSpace - 1), addr : AddrSet, age : 0..Lifetime]

OpenIn(fs) == {s \in Slots : fs[s].step \in Waiting}
EntryOf(f) == [tid |-> f.tid, addr |-> f.addr, age |-> f.age]

\* Id tid is that of a request of this age when n is the next id.
Fits(tid, age, n) == tid + age + 1 = n \/ tid + age + 1 = n + TidSpace

\* The requests, their entries and the datagrams, when n is the next id.
TransOK(fs, inf, nt, n) ==
    /\ fs \in [Slots -> FutSet \cup {Free}]
    /\ n \in 0..(TidSpace - 1)
    /\ inf = {EntryOf(fs[s]) : s \in OpenIn(fs)}
    /\ nt \subseteq EntrySet
    /\ \A d \in nt : Fits(d.tid, d.age, n)
    /\ \A s \in OpenIn(fs) : Fits(fs[s].tid, fs[s].age, n)
    /\ \A s, t \in OpenIn(fs) : fs[s].age = fs[t].age => s = t

\* The requests when one more id is given out, and when one of them changes.
Aged(fs) == [s \in Slots |-> IF s \in OpenIn(fs) THEN [fs[s] EXCEPT !.age = @ + 1] ELSE fs[s]]
Updated(fs, s, x) == [fs EXCEPT ![s] = x]
Sent(nt, n, addr) == OneOlder(nt) \cup {[tid |-> n, addr |-> addr, age |-> 0]}
Timely(inf, nt) == (\A e \in inf : e.age < Window) /\ (\A d \in nt : d.age < Lifetime)
Apart(g, fs, n) ==
    /\ OpenIn(g) = OpenIn(fs)
    /\ \A s \in Slots \ OpenIn(fs) : g[s] = fs[s]
    /\ \A s \in OpenIn(fs) : g[s].tid # n /\ g[s].age # 0
Without(inf, tid, addr) == {e \in inf : KeyOf(e) # <<tid, addr>>}

\* The next id, and the bounds.
LEMMA Bounds ==
    /\ TidSpace \in Nat /\ Lifetime \in Nat /\ Window \in Nat /\ MaxDepth \in Nat
    /\ Window <= Lifetime /\ Lifetime < TidSpace /\ 0 < Window
BY LookupAssumption

\* next_transaction_id goes up by one and wraps.
LEMMA NextTid ==
    ASSUME NEW n \in 0..(TidSpace - 1)
    PROVE  (n + 1) % TidSpace = IF n + 1 = TidSpace THEN 0 ELSE n + 1
<1>1. TidSpace \in Nat /\ TidSpace > 0
  BY Bounds
<1> QED BY <1>1

\* An open request is not free.
LEMMA OpenFacts ==
    ASSUME NEW fs \in [Slots -> FutSet \cup {Free}], NEW s \in OpenIn(fs)
    PROVE  /\ s \in Slots /\ fs[s] \in FutSet
           /\ fs[s].tid \in 0..(TidSpace - 1) /\ fs[s].age \in 0..Window /\ fs[s].addr \in AddrSet
<1>1. s \in Slots /\ fs[s].step \in Waiting
  BY DEF OpenIn
<1>2. fs[s] # Free
  BY <1>1 DEF Free, Waiting
<1>3. fs[s] \in FutSet
  BY <1>1, <1>2
<1> QED BY <1>1, <1>3 DEF FutSet

\* Ids of the same next id are the same only at the same age.
LEMMA SameTidSameAge ==
    ASSUME NEW t \in 0..(TidSpace - 1), NEW a \in 0..Lifetime, NEW b \in 0..Lifetime,
           NEW n \in 0..(TidSpace - 1), Fits(t, a, n), Fits(t, b, n)
    PROVE  a = b
<1>1. TidSpace \in Nat /\ Lifetime \in Nat /\ Lifetime < TidSpace
  BY Bounds
<1> QED BY <1>1 DEF Fits

\* One more id is given out: what was in time fits the new next id, and has another id.
LEMMA FitsOlder ==
    ASSUME NEW t \in 0..(TidSpace - 1), NEW a \in 0..(Lifetime - 1),
           NEW n \in 0..(TidSpace - 1), Fits(t, a, n), NEW n2, n2 = (n + 1) % TidSpace
    PROVE  Fits(t, a + 1, n2) /\ t # n
<1>1. TidSpace \in Nat /\ Lifetime \in Nat /\ Lifetime < TidSpace
  BY Bounds
<1>2. n2 = IF n + 1 = TidSpace THEN 0 ELSE n + 1
  BY NextTid
<1>3. t # n
  BY <1>1 DEF Fits
<1>4. Fits(t, a + 1, n2)
  BY <1>1, <1>2 DEF Fits
<1> QED BY <1>3, <1>4

\* The id that was just given out has age zero.
LEMMA FitsNew ==
    ASSUME NEW n \in 0..(TidSpace - 1), NEW n2, n2 = (n + 1) % TidSpace
    PROVE  Fits(n, 0, n2) /\ n2 \in 0..(TidSpace - 1)
<1>1. TidSpace \in Nat
  BY Bounds
<1>2. n2 = IF n + 1 = TidSpace THEN 0 ELSE n + 1
  BY NextTid
<1> QED BY <1>1, <1>2 DEF Fits

\* create_request: the ages go up by one, and the new datagram is under way.
LEMMA GiveOut ==
    ASSUME NEW fs, NEW inf, NEW nt, NEW n, TransOK(fs, inf, nt, n),
           Timely(inf, nt),
           NEW addr \in AddrSet, NEW n2, n2 = (n + 1) % TidSpace,
           NEW nt2, nt2 = Sent(nt, n, addr)
    PROVE  TransOK(Aged(fs), OneOlder(inf), nt2, n2) /\ Apart(Aged(fs), fs, n)
<1>0. /\ \A e \in inf : e.age < Window
      /\ \A d \in nt : d.age < Lifetime
      /\ nt2 = OneOlder(nt) \cup {[tid |-> n, addr |-> addr, age |-> 0]}
  BY DEF Timely, Sent
<1>1. /\ fs \in [Slots -> FutSet \cup {Free}] /\ n \in 0..(TidSpace - 1)
      /\ inf = {EntryOf(fs[s]) : s \in OpenIn(fs)} /\ nt \subseteq EntrySet
      /\ \A d \in nt : Fits(d.tid, d.age, n)
      /\ \A s \in OpenIn(fs) : Fits(fs[s].tid, fs[s].age, n)
      /\ \A s, t \in OpenIn(fs) : fs[s].age = fs[t].age => s = t
  BY DEF TransOK
<1>2. \A s \in OpenIn(fs) : /\ s \in Slots /\ fs[s] \in FutSet
                            /\ fs[s].tid \in 0..(TidSpace - 1) /\ fs[s].age \in 0..Window
                            /\ fs[s].addr \in AddrSet
  BY <1>1, OpenFacts
<1>3. \A s \in OpenIn(fs) : fs[s].age < Window
  <2> SUFFICES ASSUME NEW s \in OpenIn(fs) PROVE fs[s].age < Window
    OBVIOUS
  <2>1. EntryOf(fs[s]) \in inf /\ EntryOf(fs[s]).age = fs[s].age
    BY <1>1 DEF EntryOf
  <2> QED BY <1>0, <2>1
<1>4. n2 \in 0..(TidSpace - 1) /\ Fits(n, 0, n2)
  BY <1>1, FitsNew
<1> DEFINE g == Aged(fs)
<1>5. ASSUME NEW s \in OpenIn(fs)
      PROVE  /\ g[s] \in FutSet /\ g[s].age = fs[s].age + 1 /\ g[s].tid = fs[s].tid
             /\ g[s].addr = fs[s].addr /\ g[s].step = fs[s].step
             /\ fs[s].age \in 0..(Lifetime - 1)
  <2>1. g[s] = [fs[s] EXCEPT !.age = fs[s].age + 1]
    BY <1>2 DEF Aged
  <2>2. fs[s].age + 1 \in 0..Window /\ fs[s].age \in 0..(Lifetime - 1)
    BY <1>2, <1>3, Bounds
  <2>3. PICK f, a : f = fs[s] /\ a = fs[s].age + 1
    OBVIOUS
  <2>4. f \in FutSet /\ a \in 0..Window /\ g[s] = [f EXCEPT !.age = a]
    BY <1>2, <2>1, <2>2, <2>3
  <2>5. g[s] \in FutSet /\ g[s].age = a /\ g[s].tid = f.tid /\ g[s].addr = f.addr
        /\ g[s].step = f.step
    BY <2>4 DEF FutSet
  <2> QED BY <2>2, <2>3, <2>5
<1>6. \A s \in Slots \ OpenIn(fs) : g[s] = fs[s]
  BY DEF Aged
<1>7. g \in [Slots -> FutSet \cup {Free}]
  <2>1. \A s \in Slots : g[s] \in FutSet \cup {Free}
    BY <1>1, <1>5, <1>6
  <2>2. g = [s \in Slots |-> g[s]]
    BY DEF Aged
  <2> HIDE DEF g
  <2> QED BY <2>1, <2>2
<1> HIDE DEF g
<1>8. OpenIn(g) = OpenIn(fs)
  <2>1. \A s \in Slots : g[s].step = fs[s].step
    BY <1>5, <1>6
  <2> QED BY <2>1 DEF OpenIn
<1>9. \A s \in OpenIn(g) : Fits(g[s].tid, g[s].age, n2) /\ g[s].tid # n /\ g[s].age # 0
  <2> SUFFICES ASSUME NEW s \in OpenIn(g)
               PROVE  Fits(g[s].tid, g[s].age, n2) /\ g[s].tid # n /\ g[s].age # 0
    OBVIOUS
  <2>1. PICK t, a : t = fs[s].tid /\ a = fs[s].age
    OBVIOUS
  <2>2. t \in 0..(TidSpace - 1) /\ a \in 0..(Lifetime - 1) /\ Fits(t, a, n)
    BY <1>1, <1>2, <1>5, <1>8, <2>1
  <2>3. Fits(t, a + 1, n2) /\ t # n
    BY <1>1, <2>2, FitsOlder
  <2>4. g[s].tid = t /\ g[s].age = a + 1
    BY <1>5, <1>8, <2>1
  <2>5. a + 1 # 0
    BY <2>2
  <2> QED BY <2>3, <2>4, <2>5
<1>10. \A s, t \in OpenIn(g) : g[s].age = g[t].age => s = t
  <2> SUFFICES ASSUME NEW s \in OpenIn(g), NEW t \in OpenIn(g), g[s].age = g[t].age PROVE s = t
    OBVIOUS
  <2>1. fs[s].age = fs[t].age
    BY <1>2, <1>5, <1>8
  <2> QED BY <1>1, <1>8, <2>1
<1>11. OneOlder(inf) = {EntryOf(g[s]) : s \in OpenIn(g)}
  <2>1. OneOlder(inf) = {[EntryOf(fs[s]) EXCEPT !.age = @ + 1] : s \in OpenIn(fs)}
    BY <1>1 DEF OneOlder
  <2>2. \A s \in OpenIn(fs) : [EntryOf(fs[s]) EXCEPT !.age = @ + 1] = EntryOf(g[s])
    BY <1>5 DEF EntryOf
  <2> QED BY <1>8, <2>1, <2>2
<1>12. nt2 \subseteq EntrySet /\ \A d \in nt2 : Fits(d.tid, d.age, n2)
  <2> SUFFICES ASSUME NEW d \in nt2 PROVE d \in EntrySet /\ Fits(d.tid, d.age, n2)
    OBVIOUS
  <2>1. CASE d \in OneOlder(nt)
    <3>1. PICK c \in nt : d = [c EXCEPT !.age = @ + 1]
      BY <2>1 DEF OneOlder
    <3>2. c \in EntrySet /\ c.tid \in 0..(TidSpace - 1) /\ c.age \in 0..Lifetime
      BY <1>1 DEF EntrySet
    <3>3. c.age \in 0..(Lifetime - 1) /\ c.age + 1 \in 0..Lifetime
      BY <1>0, <3>2, Bounds
    <3>4. PICK a : a = c.age + 1
      OBVIOUS
    <3>5. d = [c EXCEPT !.age = a] /\ a \in 0..Lifetime
      BY <3>1, <3>3, <3>4
    <3>6. d \in EntrySet /\ d.tid = c.tid /\ d.age = a
      BY <3>2, <3>5 DEF EntrySet
    <3>7. Fits(c.tid, c.age + 1, n2)
      <4>1. PICK u, b : u = c.tid /\ b = c.age
        OBVIOUS
      <4>2. u \in 0..(TidSpace - 1) /\ b \in 0..(Lifetime - 1) /\ Fits(u, b, n)
        BY <1>1, <3>2, <3>3, <4>1
      <4>3. Fits(u, b + 1, n2)
        BY <1>1, <4>2, FitsOlder
      <4> QED BY <4>1, <4>3
    <3> QED BY <3>4, <3>6, <3>7
  <2>2. CASE d = [tid |-> n, addr |-> addr, age |-> 0]
    <3>1. 0 \in 0..Lifetime
      BY Bounds
    <3> QED BY <1>1, <1>4, <2>2, <3>1 DEF EntrySet
  <2> QED BY <1>0, <2>1, <2>2
<1>13. TransOK(g, OneOlder(inf), nt2, n2)
  BY <1>4, <1>7, <1>9, <1>10, <1>11, <1>12 DEF TransOK
<1> QED BY <1>6, <1>8, <1>9, <1>13 DEF g, Apart

\* What a request may become when it is not waiting.
Idle(x) == x \in FutSet \cup {Free} /\ x.step \notin Waiting

\* Datagrams get lost, or are taken.
LEMMA FewerDatagrams ==
    ASSUME NEW fs, NEW inf, NEW nt, NEW n, TransOK(fs, inf, nt, n), NEW nt2 \in SUBSET nt
    PROVE  TransOK(fs, inf, nt2, n)
BY DEF TransOK

\* A request that does not wait begins, or ends.
LEMMA ChangeIdle ==
    ASSUME NEW fs, NEW inf, NEW nt, NEW n, TransOK(fs, inf, nt, n),
           NEW s \in Slots \ OpenIn(fs), NEW x, Idle(x), NEW fs2, fs2 = Updated(fs, s, x)
    PROVE  TransOK(fs2, inf, nt, n)
<1>1. fs \in [Slots -> FutSet \cup {Free}]
  BY DEF TransOK
<1>2. fs2 \in [Slots -> FutSet \cup {Free}] /\ fs2[s] = x /\ \A t \in Slots \ {s} : fs2[t] = fs[t]
  BY <1>1 DEF Updated, Idle
<1>3. OpenIn(fs2) = OpenIn(fs) /\ s \notin OpenIn(fs) /\ OpenIn(fs) \subseteq Slots
  BY <1>2 DEF OpenIn, Idle
<1>4. \A t \in OpenIn(fs) : fs2[t] = fs[t]
  BY <1>2, <1>3
<1>5. {EntryOf(fs2[t]) : t \in OpenIn(fs2)} = {EntryOf(fs[t]) : t \in OpenIn(fs)}
  BY <1>3, <1>4
<1> QED BY <1>2, <1>3, <1>4, <1>5 DEF TransOK

\* An open request is closed and its entry removed: no other entry has its key.
LEMMA CloseRequest ==
    ASSUME NEW fs, NEW inf, NEW nt, NEW n, TransOK(fs, inf, nt, n),
           NEW s \in OpenIn(fs), NEW x, Idle(x), NEW fs2, fs2 = Updated(fs, s, x),
           NEW inf2, inf2 = Without(inf, fs[s].tid, fs[s].addr)
    PROVE  TransOK(fs2, inf2, nt, n)
<1>1. fs \in [Slots -> FutSet \cup {Free}] /\ n \in 0..(TidSpace - 1)
  BY DEF TransOK
<1>2. fs2 \in [Slots -> FutSet \cup {Free}] /\ fs2[s] = x /\ \A t \in Slots \ {s} : fs2[t] = fs[t]
  BY <1>1 DEF Updated, Idle, OpenIn
<1>3. OpenIn(fs2) = OpenIn(fs) \ {s} /\ OpenIn(fs) \subseteq Slots
  BY <1>2 DEF OpenIn, Idle
<1>4. \A t \in OpenIn(fs2) : fs2[t] = fs[t] /\ t \in OpenIn(fs)
  BY <1>2, <1>3
<1>5. \A t \in OpenIn(fs) : /\ fs[t].tid \in 0..(TidSpace - 1) /\ fs[t].age \in 0..Lifetime
                            /\ Fits(fs[t].tid, fs[t].age, n)
  <2>1. \A t \in OpenIn(fs) : fs[t].tid \in 0..(TidSpace - 1) /\ fs[t].age \in 0..Window
    BY <1>1, OpenFacts
  <2> QED BY <2>1, Bounds DEF TransOK
<1>6. ASSUME NEW t \in OpenIn(fs), t # s PROVE fs[t].tid # fs[s].tid
  <2> SUFFICES ASSUME fs[t].tid = fs[s].tid PROVE FALSE
    OBVIOUS
  <2>1. PICK u, a, b : u = fs[t].tid /\ a = fs[t].age /\ b = fs[s].age
    OBVIOUS
  <2>2. u \in 0..(TidSpace - 1) /\ a \in 0..Lifetime /\ b \in 0..Lifetime
        /\ Fits(u, a, n) /\ Fits(u, b, n)
    BY <1>5, <2>1
  <2>3. a = b
    BY <1>1, <2>2, SameTidSameAge
  <2> QED BY <1>6, <2>1, <2>3 DEF TransOK
<1>7. inf2 = {EntryOf(fs[t]) : t \in OpenIn(fs) \ {s}}
  <2>1. inf = {EntryOf(fs[t]) : t \in OpenIn(fs)}
    BY DEF TransOK
  <2>2. \A t \in OpenIn(fs) : KeyOf(EntryOf(fs[t])) = <<fs[t].tid, fs[t].addr>>
    BY DEF KeyOf, EntryOf
  <2>3. \A t \in OpenIn(fs) : KeyOf(EntryOf(fs[t])) = <<fs[s].tid, fs[s].addr>> <=> t = s
    BY <1>6, <2>2
  <2> QED BY <2>1, <2>3 DEF Without
<1>8. inf2 = {EntryOf(fs2[t]) : t \in OpenIn(fs2)}
  BY <1>3, <1>4, <1>7
<1>9. /\ \A t \in OpenIn(fs2) : Fits(fs2[t].tid, fs2[t].age, n)
      /\ \A t, u \in OpenIn(fs2) : fs2[t].age = fs2[u].age => t = u
  BY <1>4 DEF TransOK
<1> QED BY <1>2, <1>8, <1>9 DEF TransOK

\* A request is sent: an id is given out, and its entry replaces none.
LEMMA OpenRequest ==
    ASSUME NEW fs, NEW inf, NEW nt, NEW n, TransOK(fs, inf, nt, n),
           Timely(inf, nt),
           NEW s \in Slots \ OpenIn(fs), NEW x \in FutSet, x.step \in Waiting,
           x.tid = n, x.age = 0, x.addr \in AddrSet, NEW n2, n2 = (n + 1) % TidSpace,
           NEW nt2, nt2 = Sent(nt, n, x.addr),
           NEW fs2, fs2 = Updated(Aged(fs), s, x),
           NEW inf2, inf2 = Without(OneOlder(inf), n, x.addr)
                               \cup {[tid |-> n, addr |-> x.addr, age |-> 0]}
    PROVE  TransOK(fs2, inf2, nt2, n2)
<1>1. PICK g, o : g = Aged(fs) /\ o = OneOlder(inf)
  OBVIOUS
<1>2. /\ TransOK(g, o, nt2, n2) /\ OpenIn(g) = OpenIn(fs)
      /\ \A t \in OpenIn(fs) : g[t].tid # n /\ g[t].age # 0
  <2>1. PICK addr \in AddrSet : addr = x.addr
    OBVIOUS
  <2>2. nt2 = Sent(nt, n, addr)
    BY <2>1
  <2>3. TransOK(Aged(fs), OneOlder(inf), nt2, n2) /\ Apart(Aged(fs), fs, n)
    BY <2>2, GiveOut
  <2> QED BY <1>1, <2>3 DEF Apart
<1>3. /\ g \in [Slots -> FutSet \cup {Free}]
      /\ o = {EntryOf(g[t]) : t \in OpenIn(g)} /\ OpenIn(g) \subseteq Slots /\ s \notin OpenIn(g)
  BY <1>2 DEF TransOK, OpenIn
<1>4. fs2 \in [Slots -> FutSet \cup {Free}] /\ fs2[s] = x /\ \A t \in Slots \ {s} : fs2[t] = g[t]
  BY <1>1, <1>3 DEF Updated
<1>5. OpenIn(fs2) = OpenIn(g) \cup {s} /\ \A t \in OpenIn(g) : fs2[t] = g[t]
  BY <1>3, <1>4 DEF OpenIn
<1>6. Without(o, n, x.addr) = o
  <2>1. \A e \in o : KeyOf(e) # <<n, x.addr>>
    BY <1>2, <1>3 DEF KeyOf, EntryOf
  <2> QED BY <2>1 DEF Without
<1>7. EntryOf(x) = [tid |-> n, addr |-> x.addr, age |-> 0]
  BY DEF EntryOf
<1>8. inf2 = {EntryOf(fs2[t]) : t \in OpenIn(fs2)}
  <2>1. inf2 = o \cup {EntryOf(x)}
    BY <1>1, <1>6, <1>7
  <2> QED BY <1>3, <1>4, <1>5, <2>1
<1>9. Fits(x.tid, x.age, n2)
  BY FitsNew DEF TransOK
<1>10. \A t \in OpenIn(fs2) : Fits(fs2[t].tid, fs2[t].age, n2)
  BY <1>2, <1>4, <1>5, <1>9 DEF TransOK
<1>11. \A t, u \in OpenIn(fs2) : fs2[t].age = fs2[u].age => t = u
  BY <1>2, <1>4, <1>5 DEF TransOK
<1> QED BY <1>2, <1>4, <1>8, <1>10, <1>11 DEF TransOK

\* The properties of the run.
LEMMA TransImpliesMatch ==
    TransOK(futs, inflight, net, next_tid) => AnswersMatch /\ EntryPerRequest
<1> SUFFICES ASSUME TransOK(futs, inflight, net, next_tid) PROVE AnswersMatch /\ EntryPerRequest
  OBVIOUS
<1>0. Open = OpenIn(futs)
  BY DEF Open, OpenIn
<1>1. /\ futs \in [Slots -> FutSet \cup {Free}] /\ next_tid \in 0..(TidSpace - 1)
      /\ inflight = {EntryOf(futs[s]) : s \in OpenIn(futs)} /\ net \subseteq EntrySet
      /\ \A d \in net : Fits(d.tid, d.age, next_tid)
      /\ \A s \in OpenIn(futs) : Fits(futs[s].tid, futs[s].age, next_tid)
  BY DEF TransOK
<1>2. EntryPerRequest
  BY <1>0, <1>1 DEF EntryPerRequest, EntryOf
<1>3. ASSUME NEW d \in net, NEW e \in inflight, KeyOf(d) = KeyOf(e) PROVE d.age = e.age
  <2>1. PICK s \in OpenIn(futs) : e = EntryOf(futs[s])
    BY <1>1
  <2>2. futs[s].tid \in 0..(TidSpace - 1) /\ futs[s].age \in 0..Window
    BY <1>1, OpenFacts
  <2>3. e.tid = futs[s].tid /\ e.age = futs[s].age /\ d.tid = e.tid
    BY <1>3, <2>1 DEF EntryOf, KeyOf
  <2>4. PICK t, a, b : t = d.tid /\ a = d.age /\ b = e.age
    OBVIOUS
  <2>5. t \in 0..(TidSpace - 1) /\ a \in 0..Lifetime /\ b \in 0..Lifetime
    BY <1>1, <2>2, <2>3, <2>4, Bounds DEF EntrySet
  <2>6. Fits(t, a, next_tid) /\ Fits(t, b, next_tid)
    BY <1>1, <2>3, <2>4
  <2>7. PICK n \in 0..(TidSpace - 1) : n = next_tid
    BY <1>1
  <2> QED BY <2>4, <2>5, <2>6, <2>7, SameTidSameAge
<1> QED BY <1>2, <1>3 DEF AnswersMatch

-----------------------------------------------------------------------------
(* The inductive invariant *)

IndInv ==
    /\ kind \in {"find_node", "get_peers"}
    /\ queue \in Seq(QueueSet)
    /\ GoodList(useful)
    /\ \A n \in unasked : \E i \in 1..Len(queue) : queue[i].id = n
    /\ result \in {"running", "ok", "failed"}
    /\ result # "running" =>
          kind = "find_node" /\ queue = <<>> /\ \A s \in Slots : futs[s] = Free
    /\ TransOK(futs, inflight, net, next_tid)

\* It implies what the run checks.
LEMMA IndInvImpliesMatch == IndInv => RequestsMatch
<1> SUFFICES ASSUME IndInv PROVE RequestsMatch
  OBVIOUS
<1>1. AnswersMatch /\ EntryPerRequest
  BY TransImpliesMatch DEF IndInv
<1>2. futs \in [Slots -> FutSet \cup {Free}] /\ next_tid \in 0..(TidSpace - 1)
  BY DEF IndInv, TransOK
<1>3. ASSUME NEW s \in Slots, futs[s] # Free
      PROVE  /\ futs[s].step \in {"start1", "wait1", "start2", "wait2"}
             /\ futs[s].depth \in 0..MaxDepth
             /\ futs[s].age \in 0..Window
  <2>1. futs[s] \in FutSet
    BY <1>2, <1>3
  <2> QED BY <2>1 DEF FutSet
<1>4. TypeOK
  BY <1>2, <1>3 DEF TypeOK, IndInv, GoodList
<1> QED BY <1>1, <1>4 DEF RequestsMatch

\* What the list, the queue and the end of a lookup say together: nobody is left unasked.
LEMMA IndInvImpliesAsked == IndInv => UsefulAsked
<1> SUFFICES ASSUME IndInv PROVE UsefulAsked
  OBVIOUS
<1>1. UsefulUnique
  <2>1. DOMAIN useful = 1..Len(useful)
    BY DEF IndInv, GoodList
  <2> QED BY <2>1 DEF UsefulUnique, IndInv, GoodList
<1>2. AllAsked
  <2> SUFFICES ASSUME result # "running" PROVE unasked = {}
    BY DEF AllAsked
  <2>1. queue = <<>>
    BY DEF IndInv
  <2>2. \A i \in 1..Len(queue) : FALSE
    BY <2>1
  <2> QED BY <2>2 DEF IndInv
<1> QED BY <1>1, <1>2 DEF UsefulAsked

\* The futures a find_node starts with.
LEMMA FirstFutsFacts ==
    FirstFuts \in [Slots -> FutSet \cup {Free}] /\ OpenIn(FirstFuts) = {}
<1>1. ASSUME NEW s \in Slots
      PROVE  FirstFuts[s] \in FutSet \cup {Free} /\ FirstFuts[s].step \notin Waiting
  <2>1. CASE s \in DOMAIN HostAddrs
    <3>1. FirstFuts[s] = NewFut(NoId, HostAddrs[s], 0)
      BY <2>1 DEF FirstFuts
    <3>2. HostAddrs[s] \in AddrSet
      BY <2>1 DEF AddrSet
    <3>3. 0 \in 0..MaxDepth /\ 0 \in 0..(TidSpace - 1) /\ 0 \in 0..Window
      BY Bounds
    <3>4. NewFut(NoId, HostAddrs[s], 0) \in FutSet
      BY <3>2, <3>3 DEF NewFut, FutSet
    <3>5. NewFut(NoId, HostAddrs[s], 0).step = "start1"
      BY DEF NewFut
    <3> QED BY <3>1, <3>4, <3>5 DEF Waiting
  <2>2. CASE s \notin DOMAIN HostAddrs
    BY <2>2 DEF FirstFuts, Free, Waiting
  <2> QED BY <2>1, <2>2
<1>2. FirstFuts = [s \in Slots |-> FirstFuts[s]]
  BY DEF FirstFuts
<1> QED BY <1>1, <1>2 DEF OpenIn

\* Without open requests and entries, the transactions are in order.
LEMMA NobodyWaits ==
    ASSUME NEW fs \in [Slots -> FutSet \cup {Free}], OpenIn(fs) = {},
           NEW nt \in SUBSET EntrySet, NEW n \in 0..(TidSpace - 1),
           \A d \in nt : Fits(d.tid, d.age, n)
    PROVE  TransOK(fs, {}, nt, n)
BY DEF TransOK

\* Nobody waits: no entry is there.
LEMMA InitInd == Init => IndInv
<1> SUFFICES ASSUME Init PROVE IndInv
  OBVIOUS
<1>1. futs \in [Slots -> FutSet \cup {Free}] /\ OpenIn(futs) = {}
  <2>1. CASE kind = "find_node"
    BY <2>1, FirstFutsFacts DEF Init
  <2>2. CASE kind # "find_node"
    <3>1. futs = [s \in Slots |-> Free]
      BY <2>2 DEF Init
    <3> QED BY <3>1 DEF OpenIn, Free, Waiting
  <2> QED BY <2>1, <2>2
<1>2. next_tid \in 0..(TidSpace - 1)
  BY Bounds DEF Init
<1>3. TransOK(futs, inflight, net, next_tid)
  <2>1. PICK fs, n : fs = futs /\ n = next_tid
    OBVIOUS
  <2>2. TransOK(fs, {}, {}, n)
    BY <1>1, <1>2, <2>1, NobodyWaits
  <2> QED BY <2>1, <2>2 DEF Init
<1>4. GoodList(useful)
  <2>1. <<>> \in Seq(UsefulSet) /\ Len(<<>>) = 0
    OBVIOUS
  <2> QED BY <2>1, LookupAssumption DEF Init, GoodList
<1>5. queue \in Seq(QueueSet)
  <2>1. <<>> \in Seq(QueueSet)
    OBVIOUS
  <2> QED BY <2>1 DEF Init
<1>6. kind \in {"find_node", "get_peers"}
  BY LookupAssumption DEF Init
<1> QED BY <1>3, <1>4, <1>5, <1>6 DEF Init, IndInv

-----------------------------------------------------------------------------
(* The steps *)

\* While a future runs the lookup does, and steps of futures leave the queue alone.
LEMMA FutureStep ==
    ASSUME IndInv, NEW s \in Slots, futs[s] # Free,
           UNCHANGED <<kind, queue, unasked, result>>, GoodList(useful'),
           TransOK(futs', inflight', net', next_tid')
    PROVE  IndInv'
<1>1. result = "running"
  BY DEF IndInv
<1> QED BY <1>1 DEF IndInv

\* Steps of the network and of the worker.
LEMMA NetworkStep ==
    ASSUME IndInv, UNCHANGED <<lookup, futs, next_tid, inflight>>, net' \in SUBSET net
    PROVE  IndInv'
<1>1. TransOK(futs, inflight, net, next_tid)
  BY DEF IndInv
<1>2. PICK fs, inf, nt, n, nt2 :
         fs = futs /\ inf = inflight /\ nt = net /\ n = next_tid /\ nt2 = net'
  OBVIOUS
<1>3. TransOK(fs, inf, nt2, n)
  BY <1>1, <1>2, FewerDatagrams
<1>4. TransOK(futs', inflight', net', next_tid')
  BY <1>2, <1>3
<1> QED BY <1>4 DEF IndInv, lookup

\* What becomes of a future whose request has come to nothing, or was answered.
LEMMA AgainIdle ==
    ASSUME IndInv, NEW s \in Slots, futs[s] # Free, NEW x,
           x = [futs[s] EXCEPT !.step = "start2", !.tid = 0, !.age = 0]
    PROVE  Idle(x)
<1>1. futs[s] \in FutSet
  BY DEF IndInv, TransOK
<1>2. 0 \in 0..(TidSpace - 1) /\ 0 \in 0..Window
  BY Bounds
<1>3. x \in FutSet /\ x.step = "start2"
  BY <1>1, <1>2 DEF FutSet
<1> QED BY <1>3 DEF Idle, Waiting

\* A free slot waits for nothing.
LEMMA FreeIdle == Idle(Free)
BY DEF Idle, Free, Waiting

\* A request_one that fails tries once more or ends; it waits for nothing.
LEMMA FailedIdle ==
    ASSUME IndInv, NEW s \in Slots, futs[s] # Free, request_failed(s)
    PROVE  \E x : Idle(x) /\ futs' = Updated(futs, s, x)
<1>1. CASE futs[s].step \in {"start1", "wait1"}
  <2>1. PICK x : x = [futs[s] EXCEPT !.step = "start2", !.tid = 0, !.age = 0]
    OBVIOUS
  <2>2. Idle(x)
    BY <2>1, AgainIdle
  <2>3. futs' = Updated(futs, s, x)
    BY <1>1, <2>1 DEF request_failed, Updated
  <2> QED BY <2>2, <2>3
<1>2. CASE futs[s].step \notin {"start1", "wait1"}
  <2>1. futs' = Updated(futs, s, Free)
    BY <1>2 DEF request_failed, EndWithError, Updated
  <2> QED BY <2>1, FreeIdle
<1> QED BY <1>1, <1>2

\* An open request ends, in whatever way: its entry goes, and maybe datagrams.
LEMMA Closed ==
    ASSUME IndInv, NEW s \in Slots, futs[s].step \in Waiting, NEW x, Idle(x),
           futs' = Updated(futs, s, x), inflight' = RemoveEntry(futs[s].tid, futs[s].addr),
           net' \in SUBSET net, next_tid' = next_tid
    PROVE  TransOK(futs', inflight', net', next_tid') /\ futs[s] # Free
<1>1. PICK fs, inf, nt, n, fs2, inf2, nt2 :
         /\ fs = futs /\ inf = inflight /\ nt = net /\ n = next_tid
         /\ fs2 = futs' /\ inf2 = inflight' /\ nt2 = net'
  OBVIOUS
<1>2. TransOK(fs, inf, nt, n) /\ s \in OpenIn(fs) /\ fs2 = Updated(fs, s, x)
  BY <1>1 DEF IndInv, OpenIn
<1>3. inf2 = Without(inf, fs[s].tid, fs[s].addr) /\ nt2 \in SUBSET nt
  BY <1>1 DEF RemoveEntry, Without
<1>4. TransOK(fs2, inf2, nt, n)
  BY <1>2, <1>3, CloseRequest
<1>5. TransOK(fs2, inf2, nt2, n)
  BY <1>3, <1>4, FewerDatagrams
<1>6. futs[s] # Free
  BY DEF Free, Waiting
<1> QED BY <1>1, <1>5, <1>6

\* request.
LEMMA RequestInd ==
    ASSUME IndInv, NEW s \in Slots, request(s) PROVE IndInv'
<1>1. PICK fs, inf, nt, n, fs2, inf2, nt2, n2 :
         /\ fs = futs /\ inf = inflight /\ nt = net /\ n = next_tid
         /\ fs2 = futs' /\ inf2 = inflight' /\ nt2 = net' /\ n2 = next_tid'
  OBVIOUS
<1>2. TransOK(fs, inf, nt, n) /\ Timely(inf, nt) /\ s \in Slots \ OpenIn(fs)
  BY <1>1 DEF IndInv, request, create_request, InTime, Timely, OpenIn, Waiting
<1>3. PICK f : f = futs[s]
  OBVIOUS
<1>4. f \in FutSet /\ f # Free /\ n \in 0..(TidSpace - 1)
  BY <1>1, <1>2, <1>3 DEF TransOK, request, Free
<1>5. PICK w : w = IF f.step = "start1" THEN "wait1" ELSE "wait2"
  OBVIOUS
<1>6. PICK x : x = [f EXCEPT !.step = w, !.tid = n, !.age = 0]
  OBVIOUS
<1>7. x \in FutSet /\ x.step = w /\ x.tid = n /\ x.age = 0 /\ x.addr = f.addr
  <2>1. 0 \in 0..Window /\ w \in {"start1", "wait1", "start2", "wait2"}
    BY <1>5, Bounds
  <2> QED BY <1>4, <1>6, <2>1 DEF FutSet
<1>8. x.addr \in AddrSet /\ x.step \in Waiting
  BY <1>5, <1>7 DEF FutSet, Waiting
<1>9. /\ n2 = (n + 1) % TidSpace /\ nt2 = Sent(nt, n, x.addr)
      /\ inf2 = Without(OneOlder(inf), n, x.addr) \cup {[tid |-> n, addr |-> x.addr, age |-> 0]}
  BY <1>1, <1>3, <1>7 DEF request, create_request, Sent, InsertEntry, Without
<1>10. fs2 = Updated(Aged(fs), s, x)
  <2>1. AgedFuts = Aged(fs)
    BY <1>1 DEF AgedFuts, Aged, Open, OpenIn
  <2>2. PICK g : g = AgedFuts
    OBVIOUS
  <2>3. DOMAIN g = Slots /\ g[s] = f
    BY <1>1, <1>2, <1>3, <2>1, <2>2 DEF Aged
  <2>4. fs2 = [g EXCEPT ![s].step = IF @ = "start1" THEN "wait1" ELSE "wait2",
                        ![s].tid = n, ![s].age = 0]
    BY <1>1, <2>2 DEF request
  <2>5. fs2 = [g EXCEPT ![s] = x]
    BY <1>4, <1>5, <1>6, <2>3, <2>4 DEF FutSet
  <2> QED BY <2>1, <2>2, <2>5 DEF Updated
<1>11. TransOK(fs2, inf2, nt2, n2)
  BY <1>2, <1>7, <1>8, <1>9, <1>10, OpenRequest
<1> QED BY <1>1, <1>3, <1>4, <1>11, FutureStep DEF request, lookup, IndInv

\* The three ways a request comes to nothing.
LEMMA FailureInd ==
    ASSUME IndInv, NEW s \in Slots, timeout(s) \/ on_send_error(s) \/ send_failed(s) PROVE IndInv'
<1>1. request_failed(s) /\ UNCHANGED <<kind, queue, useful, unasked, result, next_tid>>
  BY DEF timeout, on_send_error, send_failed
<1>2. futs[s] # Free
  BY DEF timeout, on_send_error, send_failed, Open, Waiting, Free
<1>3. PICK x : Idle(x) /\ futs' = Updated(futs, s, x)
  BY <1>1, <1>2, FailedIdle
<1>4. CASE timeout(s) \/ on_send_error(s)
  <2>1. /\ futs[s].step \in Waiting /\ net' \in SUBSET net
        /\ inflight' = RemoveEntry(futs[s].tid, futs[s].addr)
    BY <1>4 DEF timeout, on_send_error, Open
  <2>2. TransOK(futs', inflight', net', next_tid')
    BY <1>1, <1>3, <2>1, Closed
  <2> QED BY <1>1, <1>2, <2>2, FutureStep DEF IndInv
<1>5. CASE send_failed(s)
  <2>1. PICK fs, inf, nt, n, fs2 :
           fs = futs /\ inf = inflight /\ nt = net /\ n = next_tid /\ fs2 = futs'
    OBVIOUS
  <2>2. TransOK(fs, inf, nt, n) /\ s \in Slots \ OpenIn(fs) /\ fs2 = Updated(fs, s, x)
    BY <1>3, <1>5, <2>1 DEF IndInv, send_failed, OpenIn, Waiting
  <2>3. TransOK(fs2, inf, nt, n)
    BY <1>3, <2>2, ChangeIdle
  <2>4. TransOK(futs', inflight', net', next_tid')
    BY <1>5, <2>1, <2>3 DEF send_failed
  <2> QED BY <1>1, <1>2, <2>4, FutureStep DEF IndInv
<1> QED BY <1>4, <1>5

\* An answer is for the request whose entry it finds.
LEMMA Owned ==
    ASSUME IndInv, NEW d \in net, NEW e \in inflight, NEW s \in OwnerOf(e), KeyOf(e) = KeyOf(d)
    PROVE  /\ s \in Slots /\ futs[s].step \in Waiting /\ futs[s] # Free /\ futs[s] \in FutSet
           /\ d.tid = futs[s].tid /\ d.addr = futs[s].addr /\ d.addr \in AddrSet
<1>1. s \in OpenIn(futs) /\ futs[s].age = e.age /\ s \in Slots /\ futs[s].step \in Waiting
  BY DEF OwnerOf, Open, OpenIn
<1>2. PICK t \in OpenIn(futs) : e = EntryOf(futs[t])
  BY DEF IndInv, TransOK
<1>3. e.age = futs[t].age /\ KeyOf(e) = <<futs[t].tid, futs[t].addr>>
  BY <1>2 DEF EntryOf, KeyOf
<1>4. s = t
  BY <1>1, <1>3 DEF IndInv, TransOK
<1>5. d.tid = futs[s].tid /\ d.addr = futs[s].addr
  BY <1>3, <1>4 DEF KeyOf
<1>6. futs[s] # Free /\ futs[s] \in FutSet
  BY <1>1 DEF Free, Waiting, IndInv, TransOK
<1>7. d.addr \in AddrSet
  BY DEF IndInv, TransOK, EntrySet
<1> QED BY <1>1, <1>5, <1>6, <1>7

\* An entry of useful_nodes changes, its id does not.
LEMMA ListUpdated ==
    ASSUME NEW l, GoodList(l), NEW i \in 1..Len(l), NEW x \in UsefulSet, x.id = l[i].id,
           NEW l2, l2 = Updated(l, i, x)
    PROVE  GoodList(l2)
<1>1. l \in Seq(UsefulSet)
  BY DEF GoodList
<1>2. /\ l2 \in Seq(UsefulSet) /\ Len(l2) = Len(l)
      /\ \A j \in 1..Len(l) : l2[j].id = l[j].id
  BY <1>1 DEF Updated
<1> QED BY <1>2 DEF GoodList

\* mark_node_responded changes marks, not who is in the list.
LEMMA MarkGood ==
    ASSUME IndInv, NEW addr, NEW values \in BOOLEAN, mark_node_responded(addr, values)
    PROVE  GoodList(useful')
<1> DEFINE at == {i \in DOMAIN useful : useful[i].addr = addr}
<1>1. CASE at = {}
  BY <1>1 DEF mark_node_responded, IndInv
<1>2. CASE at # {}
  <2>1. useful \in Seq(UsefulSet) /\ DOMAIN useful = 1..Len(useful)
    BY DEF IndInv, GoodList
  <2>2. at \in SUBSET Nat
    BY <2>1
  <2>3. \E i \in at : \A j \in at : i <= j
    BY <1>2, <2>2, LeastNat
  <2>4. PICK i : i = CHOOSE k \in at : \A j \in at : k <= j
    OBVIOUS
  <2>5. i \in at
    BY <2>3, <2>4
  <2>6. useful' = [useful EXCEPT ![i].responded = TRUE, ![i].returned_peers = values]
    BY <1>2, <2>4 DEF mark_node_responded
  <2>7. PICK y, x, l, l2 : /\ y = useful[i] /\ l = useful /\ l2 = useful'
                           /\ x = [y EXCEPT !.responded = TRUE, !.returned_peers = values]
    OBVIOUS
  <2>8. y \in UsefulSet /\ i \in 1..Len(l)
    BY <2>1, <2>5, <2>7
  <2>9. x \in UsefulSet /\ x.id = l[i].id
    BY <2>7, <2>8 DEF UsefulSet
  <2>10. l2 = Updated(l, i, x)
    BY <2>1, <2>5, <2>6, <2>7 DEF Updated
  <2>11. GoodList(l)
    BY <2>7 DEF IndInv
  <2> QED BY <2>7, <2>8, <2>9, <2>10, <2>11, ListUpdated
<1> QED BY <1>1, <1>2

\* The first answer, without and with the announce.
LEMMA FirstAnswerInd ==
    ASSUME IndInv, NEW d \in net, NEW dup \in BOOLEAN, NEW values \in BOOLEAN,
           NEW announce \in BOOLEAN, first_answer(d, dup, values, announce)
    PROVE  IndInv'
<1>1. PICK e \in inflight : \E s \in OwnerOf(e) :
        /\ KeyOf(e) = KeyOf(d)
        /\ futs[s].step = "wait1"
        /\ mark_node_responded(d.addr, values)
        /\ IF announce
             THEN /\ create_request(d.addr, IF dup THEN net ELSE net \ {d})
                  /\ inflight' = OneOlder(RemoveEntry(d.tid, d.addr))
                  /\ futs' = [AgedFuts EXCEPT ![s].step = "start2", ![s].tid = 0, ![s].age = 0]
             ELSE /\ inflight' = RemoveEntry(d.tid, d.addr)
                  /\ net' = IF dup THEN net ELSE net \ {d}
                  /\ futs' = [futs EXCEPT ![s].step = "start2", ![s].tid = 0, ![s].age = 0]
                  /\ UNCHANGED next_tid
        /\ UNCHANGED <<kind, queue, unasked, result>>
  BY DEF first_answer
<1>2. PICK s \in OwnerOf(e) :
        /\ KeyOf(e) = KeyOf(d)
        /\ futs[s].step = "wait1"
        /\ mark_node_responded(d.addr, values)
        /\ IF announce
             THEN /\ create_request(d.addr, IF dup THEN net ELSE net \ {d})
                  /\ inflight' = OneOlder(RemoveEntry(d.tid, d.addr))
                  /\ futs' = [AgedFuts EXCEPT ![s].step = "start2", ![s].tid = 0, ![s].age = 0]
             ELSE /\ inflight' = RemoveEntry(d.tid, d.addr)
                  /\ net' = IF dup THEN net ELSE net \ {d}
                  /\ futs' = [futs EXCEPT ![s].step = "start2", ![s].tid = 0, ![s].age = 0]
                  /\ UNCHANGED next_tid
        /\ UNCHANGED <<kind, queue, unasked, result>>
  BY <1>1
<1>3. /\ s \in Slots /\ futs[s].step \in Waiting /\ futs[s] # Free /\ futs[s] \in FutSet
      /\ d.tid = futs[s].tid /\ d.addr = futs[s].addr /\ d.addr \in AddrSet
  BY <1>2, Owned
<1>4. GoodList(useful')
  BY <1>2, MarkGood
<1>5. PICK x : x = [futs[s] EXCEPT !.step = "start2", !.tid = 0, !.age = 0]
  OBVIOUS
<1>6. Idle(x)
  BY <1>3, <1>5, AgainIdle
<1>7. CASE ~announce
  <2>1. /\ inflight' = RemoveEntry(futs[s].tid, futs[s].addr)
        /\ net' \in SUBSET net /\ next_tid' = next_tid
    BY <1>2, <1>3, <1>7
  <2>2. futs' = Updated(futs, s, x)
    BY <1>2, <1>5, <1>7 DEF Updated
  <2>3. TransOK(futs', inflight', net', next_tid')
    BY <1>3, <1>6, <2>1, <2>2, Closed
  <2> QED BY <1>2, <1>3, <1>4, <2>3, FutureStep
<1>8. CASE announce
  <2>1. PICK fs, inf, nt, n, nt1, addr : /\ fs = futs /\ inf = inflight /\ nt = net
           /\ n = next_tid /\ nt1 = (IF dup THEN net ELSE net \ {d}) /\ addr = d.addr
    OBVIOUS
  <2>2. PICK fs1, inf1 : fs1 = Updated(fs, s, x) /\ inf1 = Without(inf, fs[s].tid, fs[s].addr)
    OBVIOUS
  <2>3. TransOK(fs, inf, nt, n) /\ s \in OpenIn(fs) /\ nt1 \in SUBSET nt /\ addr \in AddrSet
    BY <1>3, <2>1 DEF IndInv, OpenIn
  <2>4. TransOK(fs1, inf1, nt, n)
    BY <1>6, <2>2, <2>3, CloseRequest
  <2>5. TransOK(fs1, inf1, nt1, n)
    BY <2>3, <2>4, FewerDatagrams
  <2>6. Timely(inf1, nt1)
    <3>1. InTime
      BY <1>2, <1>8 DEF create_request
    <3>2. inf1 \subseteq inflight /\ nt1 \subseteq net
      BY <2>1, <2>2 DEF Without
    <3> QED BY <3>1, <3>2 DEF InTime, Timely
  <2>7. PICK n2, nt2 : n2 = (n + 1) % TidSpace /\ nt2 = Sent(nt1, n, addr)
    OBVIOUS
  <2>8. TransOK(Aged(fs1), OneOlder(inf1), nt2, n2)
    BY <2>3, <2>5, <2>6, <2>7, GiveOut
  <2>9. next_tid' = n2 /\ net' = nt2
    BY <1>2, <1>8, <2>1, <2>7 DEF create_request, Sent
  <2>10. inflight' = OneOlder(inf1)
    BY <1>2, <1>3, <1>8, <2>1, <2>2 DEF RemoveEntry, Without
  <2>11. futs' = Aged(fs1)
    <3>1. PICK g, f : g = AgedFuts /\ f = futs[s]
      OBVIOUS
    <3>2. g = Aged(fs)
      BY <2>1, <3>1 DEF AgedFuts, Aged, Open, OpenIn
    <3>3. futs' = [g EXCEPT ![s].step = "start2", ![s].tid = 0, ![s].age = 0]
      BY <1>2, <1>8, <3>1
    <3>4. DOMAIN g = Slots /\ g[s] = [f EXCEPT !.age = f.age + 1]
      BY <1>3, <2>1, <2>3, <3>1, <3>2 DEF Aged
    <3>5. x = [f EXCEPT !.step = "start2", !.tid = 0, !.age = 0] /\ f \in FutSet
      BY <1>3, <1>5, <3>1
    <3>6. PICK y : y = [g[s] EXCEPT !.step = "start2", !.tid = 0, !.age = 0]
      OBVIOUS
    <3>7. y = x
      BY <3>4, <3>5, <3>6 DEF FutSet
    <3>8. futs' = [g EXCEPT ![s] = x]
      BY <3>3, <3>6, <3>7
    <3>9. futs' = [t \in Slots |-> IF t = s THEN x ELSE g[t]]
      BY <1>3, <3>4, <3>8
    <3>10. fs \in [Slots -> FutSet \cup {Free}] /\ x.step \notin Waiting
      BY <1>6, <2>3 DEF TransOK, Idle
    <3>11. fs1[s] = x /\ \A t \in Slots \ {s} : fs1[t] = fs[t]
      BY <1>3, <2>2, <3>10 DEF Updated
    <3>12. s \notin OpenIn(fs1) /\ \A t \in Slots \ {s} : t \in OpenIn(fs1) <=> t \in OpenIn(fs)
      BY <3>10, <3>11 DEF OpenIn
    <3>13. \A t \in Slots : Aged(fs1)[t] = IF t = s THEN x ELSE g[t]
      BY <3>2, <3>11, <3>12 DEF Aged
    <3>14. Aged(fs1) = [t \in Slots |-> Aged(fs1)[t]]
      BY DEF Aged
    <3> QED BY <3>9, <3>13, <3>14
  <2>12. TransOK(futs', inflight', net', next_tid')
    BY <2>8, <2>9, <2>10, <2>11
  <2> QED BY <1>2, <1>3, <1>4, <2>12, FutureStep
<1> QED BY <1>7, <1>8

\* The second answer is an error.
LEMMA SecondErrorInd ==
    ASSUME IndInv, NEW d \in net, NEW dup \in BOOLEAN, second_answer_error(d, dup)
    PROVE  IndInv'
<1>1. PICK e \in inflight : \E s \in OwnerOf(e) :
        /\ KeyOf(e) = KeyOf(d)
        /\ inflight' = RemoveEntry(d.tid, d.addr)
        /\ net' = IF dup THEN net ELSE net \ {d}
        /\ futs' = [futs EXCEPT ![s] = Free]
        /\ UNCHANGED <<kind, queue, useful, unasked, result, next_tid>>
  BY DEF second_answer_error, EndWithError
<1>2. PICK s \in OwnerOf(e) :
        /\ KeyOf(e) = KeyOf(d)
        /\ inflight' = RemoveEntry(d.tid, d.addr)
        /\ net' = IF dup THEN net ELSE net \ {d}
        /\ futs' = [futs EXCEPT ![s] = Free]
        /\ UNCHANGED <<kind, queue, useful, unasked, result, next_tid>>
  BY <1>1
<1>3. /\ s \in Slots /\ futs[s].step \in Waiting /\ futs[s] # Free
      /\ d.tid = futs[s].tid /\ d.addr = futs[s].addr
  BY <1>2, Owned
<1>4. futs' = Updated(futs, s, Free) /\ inflight' = RemoveEntry(futs[s].tid, futs[s].addr)
      /\ net' \in SUBSET net /\ next_tid' = next_tid
  BY <1>2, <1>3 DEF Updated
<1>5. TransOK(futs', inflight', net', next_tid')
  BY <1>3, <1>4, FreeIdle, Closed
<1> QED BY <1>2, <1>3, <1>5, FutureStep DEF IndInv

\* The second answer: its nodes go to the queue.
LEMMA SecondAnswerInd ==
    ASSUME IndInv, NEW d \in net, NEW dup \in BOOLEAN, NEW values \in BOOLEAN,
           NEW nodes \in Answers, second_answer(d, dup, values, nodes)
    PROVE  IndInv'
<1> DEFINE Goes(s) ==
        /\ inflight' = RemoveEntry(d.tid, d.addr)
        /\ net' = IF dup THEN net ELSE net \ {d}
        /\ futs' = [futs EXCEPT ![s] = Free]
        /\ IF values /\ kind = "find_node"
             THEN UNCHANGED <<useful, queue, unasked>>
             ELSE LET r == HandleNodes(useful, nodes, futs[s].depth)
                  IN  /\ useful' = r.list
                      /\ queue' = queue \o r.send
                      /\ unasked' = unasked \cup {r.send[i].id : i \in DOMAIN r.send}
        /\ UNCHANGED <<kind, result, next_tid>>
<1>1. PICK e \in inflight : \E s \in OwnerOf(e) : KeyOf(e) = KeyOf(d) /\ Goes(s)
  BY DEF second_answer
<1>2. PICK s \in OwnerOf(e) : KeyOf(e) = KeyOf(d) /\ Goes(s)
  BY <1>1
<1>3. /\ s \in Slots /\ futs[s].step \in Waiting /\ futs[s] # Free /\ futs[s] \in FutSet
      /\ d.tid = futs[s].tid /\ d.addr = futs[s].addr
  BY <1>2, Owned
<1>4. futs' = Updated(futs, s, Free) /\ inflight' = RemoveEntry(futs[s].tid, futs[s].addr)
      /\ net' \in SUBSET net /\ next_tid' = next_tid
  BY <1>2, <1>3 DEF Updated
<1>5. TransOK(futs', inflight', net', next_tid')
  BY <1>3, <1>4, FreeIdle, Closed
<1>6. CASE values /\ kind = "find_node"
  BY <1>2, <1>3, <1>5, <1>6, FutureStep DEF IndInv
<1>7. CASE ~(values /\ kind = "find_node")
  <2>1. PICK r, l, depth : /\ l = useful /\ depth = futs[s].depth
                           /\ r = HandleNodes(l, nodes, depth)
    OBVIOUS
  <2>2. GoodList(l) /\ depth \in 0..MaxDepth /\ nodes \in Seq(Nodes)
    BY <1>3, <2>1, LookupAssumption DEF IndInv, FutSet
  <2>3. GoodList(r.list) /\ r.send \in Seq(QueueSet)
    BY <2>1, <2>2, HandleNodesGood DEF GoodAcc
  <2>4. /\ useful' = r.list /\ queue' = queue \o r.send
        /\ unasked' = unasked \cup {r.send[i].id : i \in DOMAIN r.send}
        /\ UNCHANGED <<kind, result>>
    BY <1>2, <1>7, <2>1
  <2>5. PICK q, m : q = queue /\ m = r.send
    OBVIOUS
  <2>6. q \in Seq(QueueSet) /\ m \in Seq(QueueSet) /\ Len(q) \in Nat /\ Len(m) \in Nat
        /\ DOMAIN m = 1..Len(m)
    BY <2>3, <2>5 DEF IndInv
  <2>7. /\ q \o m \in Seq(QueueSet) /\ Len(q \o m) = Len(q) + Len(m)
        /\ \A i \in 1..(Len(q) + Len(m)) : (q \o m)[i] = IF i <= Len(q) THEN q[i] ELSE m[i - Len(q)]
    BY <2>6, ConcatProperties
  <2>8. \A u \in unasked' : \E i \in 1..Len(queue') : queue'[i].id = u
    <3> SUFFICES ASSUME NEW u \in unasked' PROVE \E i \in 1..Len(q \o m) : (q \o m)[i].id = u
      BY <2>4, <2>5
    <3>1. CASE u \in unasked
      <4>1. PICK i \in 1..Len(q) : q[i].id = u
        BY <2>5, <3>1 DEF IndInv
      <4>2. i \in 1..Len(q \o m) /\ (q \o m)[i] = q[i]
        BY <2>6, <2>7
      <4> QED BY <4>1, <4>2
    <3>2. CASE u \in {m[i].id : i \in DOMAIN m}
      <4>1. PICK i \in 1..Len(m) : m[i].id = u
        BY <2>6, <3>2
      <4>2. i + Len(q) \in 1..Len(q \o m) /\ (q \o m)[i + Len(q)] = m[i]
        BY <2>6, <2>7
      <4> QED BY <4>1, <4>2
    <3> QED BY <2>4, <2>5, <3>1, <3>2
  <2>9. queue' \in Seq(QueueSet)
    BY <2>4, <2>5, <2>7
  <2>10. result' = "running"
    BY <1>3, <2>4 DEF IndInv
  <2>11. kind' \in {"find_node", "get_peers"}
    BY <2>4 DEF IndInv
  <2> QED BY <1>5, <2>3, <2>4, <2>8, <2>9, <2>10, <2>11 DEF IndInv
<1> QED BY <1>6, <1>7

\* A datagram arrives, or does not.
LEMMA DatagramInd ==
    ASSUME IndInv, NEW d \in net, Receive(d) \/ lose(d) PROVE IndInv'
<1>1. CASE outstanding_request_not_found(d) \/ lose(d)
  BY <1>1, NetworkStep DEF outstanding_request_not_found, lose
<1>2. CASE \E dup, values, announce \in BOOLEAN : first_answer(d, dup, values, announce)
  BY <1>2, FirstAnswerInd
<1>3. CASE \E dup \in BOOLEAN : second_answer_error(d, dup)
  BY <1>3, SecondErrorInd
<1>4. CASE \E dup, values \in BOOLEAN, nodes \in Answers : second_answer(d, dup, values, nodes)
  BY <1>4, SecondAnswerInd
<1> QED BY <1>1, <1>2, <1>3, <1>4 DEF Receive

\* An entry of useful_nodes gets old.
LEMMA RequeryInd ==
    ASSUME IndInv, NEW i \in DOMAIN useful, requery_interval(i) PROVE IndInv'
<1>1. useful \in Seq(UsefulSet) /\ DOMAIN useful = 1..Len(useful)
  BY DEF IndInv, GoodList
<1>2. PICK y, x, l, l2 : /\ y = useful[i] /\ l = useful /\ l2 = useful'
                         /\ x = [y EXCEPT !.old = TRUE]
  OBVIOUS
<1>3. y \in UsefulSet /\ i \in 1..Len(l) /\ GoodList(l)
  BY <1>1, <1>2 DEF IndInv
<1>4. x \in UsefulSet /\ x.id = l[i].id
  BY <1>2, <1>3 DEF UsefulSet
<1>5. l2 = Updated(l, i, x)
  BY <1>1, <1>2 DEF Updated, requery_interval
<1>6. GoodList(useful')
  BY <1>2, <1>3, <1>4, <1>5, ListUpdated
<1> QED BY <1>6 DEF IndInv, requery_interval

\* The loop takes a node from the queue.
LEMMA RecvInd == IndInv /\ node_rx_recv => IndInv'
<1> SUFFICES ASSUME IndInv, node_rx_recv PROVE IndInv'
  OBVIOUS
<1>1. PICK s : s = FreeSlot
  OBVIOUS
<1>2. s \in Slots /\ futs[s] = Free
  <2> DEFINE T == {t \in Slots : futs[t] = Free}
  <2>1. T \in SUBSET Nat /\ T # {}
    BY DEF Slots, node_rx_recv
  <2>2. PICK t \in T : \A u \in T : t <= u
    BY <2>1, LeastNat
  <2>3. t \in Slots /\ futs[t] = Free /\ \A u \in 1..(t - 1) : futs[u] # Free
    <3>1. MaxFuts \in Nat /\ t \in 1..MaxFuts
      BY LookupAssumption DEF Slots
    <3>2. \A u \in 1..(t - 1) : u \in Slots /\ ~(t <= u)
      BY <3>1 DEF Slots
    <3> QED BY <2>2, <3>2
  <2> QED BY <1>1, <2>3 DEF FreeSlot
<1>3. PICK q, c : c = queue /\ q = Head(c)
  OBVIOUS
<1>4. c \in Seq(QueueSet) /\ c # <<>>
  BY <1>3 DEF IndInv, node_rx_recv
<1>5. q \in QueueSet /\ Tail(c) \in Seq(QueueSet) /\ Len(c) \in Nat /\ Len(c) > 0
      /\ q = c[1] /\ Len(Tail(c)) = Len(c) - 1 /\ \A i \in 1..(Len(c) - 1) : Tail(c)[i] = c[i + 1]
  BY <1>3, <1>4
<1>6. PICK x : x = NewFut(q.id, q.addr, q.depth)
  OBVIOUS
<1>7. Idle(x)
  <2>1. 0 \in 0..(TidSpace - 1) /\ 0 \in 0..Window
    BY Bounds
  <2>2. q.id \in Nodes /\ q.addr \in AddrSet /\ q.depth \in 0..MaxDepth
    BY <1>5 DEF QueueSet
  <2>3. x \in FutSet /\ x.step = "start1"
    BY <1>6, <2>1, <2>2 DEF NewFut, FutSet
  <2> QED BY <2>3 DEF Idle, Waiting
<1>8. /\ futs' = Updated(futs, s, x) /\ unasked' = unasked \ {q.id} /\ queue' = Tail(c)
      /\ UNCHANGED <<kind, useful, result, next_tid, inflight, net>> /\ result = "running"
  BY <1>1, <1>3, <1>6 DEF node_rx_recv, Updated
<1>9. TransOK(futs', inflight', net', next_tid')
  <2>1. PICK fs, inf, nt, n, fs2 :
           fs = futs /\ inf = inflight /\ nt = net /\ n = next_tid /\ fs2 = futs'
    OBVIOUS
  <2>2. TransOK(fs, inf, nt, n) /\ s \in Slots \ OpenIn(fs) /\ fs2 = Updated(fs, s, x)
    BY <1>2, <1>8, <2>1 DEF IndInv, OpenIn, Free, Waiting
  <2>3. TransOK(fs2, inf, nt, n)
    BY <1>7, <2>2, ChangeIdle
  <2> QED BY <1>8, <2>1, <2>3
<1>10. \A u \in unasked' : \E i \in 1..Len(queue') : queue'[i].id = u
  <2> SUFFICES ASSUME NEW u \in unasked, u # q.id PROVE \E i \in 1..Len(Tail(c)) : Tail(c)[i].id = u
    BY <1>8
  <2>1. PICK i \in 1..Len(c) : c[i].id = u
    BY <1>3 DEF IndInv
  <2>2. i # 1
    BY <1>5, <2>1
  <2>3. i - 1 \in 1..Len(Tail(c)) /\ Tail(c)[i - 1] = c[i]
    BY <1>5, <2>2
  <2> QED BY <2>1, <2>3
<1> QED BY <1>5, <1>8, <1>9, <1>10 DEF IndInv

\* The looper of a get_peers puts nodes into the queue.
LEMMA RootInd == IndInv /\ get_peers_root => IndInv'
<1> SUFFICES ASSUME IndInv, get_peers_root PROVE IndInv'
  OBVIOUS
<1> DEFINE root(i) == [id |-> Roots[i], addr |-> AddrOf[Roots[i]], depth |-> 0]
<1>1. Roots \in Seq(Nodes) /\ Len(Roots) \in Nat /\ DOMAIN Roots = 1..Len(Roots)
  BY LookupAssumption
<1>2. PICK q, m : q = queue /\ m = [i \in DOMAIN Roots |-> root(i)]
  OBVIOUS
<1>3. m \in Seq(QueueSet)
  <2>1. 0 \in 0..MaxDepth
    BY Bounds
  <2>2. \A i \in DOMAIN Roots : root(i) \in QueueSet
    BY <1>1, <2>1 DEF QueueSet, AddrSet
  <2> HIDE DEF root
  <2> QED BY <1>1, <1>2, <2>2
<1>4. q \in Seq(QueueSet) /\ queue' = q \o m
  BY <1>2 DEF IndInv, get_peers_root
<1>5. /\ q \o m \in Seq(QueueSet) /\ Len(q \o m) = Len(q) + Len(m)
      /\ \A i \in 1..(Len(q) + Len(m)) : (q \o m)[i] = IF i <= Len(q) THEN q[i] ELSE m[i - Len(q)]
  BY <1>3, <1>4, ConcatProperties
<1>6. \A i \in 1..Len(q) : i \in 1..Len(q \o m) /\ (q \o m)[i] = q[i]
  <2>1. Len(q) \in Nat /\ Len(m) \in Nat
    BY <1>3, <1>4
  <2> QED BY <1>5, <2>1
<1>7. /\ UNCHANGED <<kind, useful, unasked, result, futs, next_tid, inflight, net>>
      /\ kind = "get_peers"
  BY DEF get_peers_root
<1>8. \A u \in unasked' : \E i \in 1..Len(queue') : queue'[i].id = u
  BY <1>2, <1>4, <1>6, <1>7 DEF IndInv
<1>9. result' = "running"
  BY <1>7 DEF IndInv
<1> QED BY <1>4, <1>5, <1>7, <1>8, <1>9 DEF IndInv

\* A find_node ends; the bootstrap tries again, or gives up.
LEMMA BootstrapInd ==
    ASSUME IndInv, find_node_done \/ bootstrap_retry \/ bootstrap_failed PROVE IndInv'
<1>1. CASE find_node_done
  BY <1>1 DEF IndInv, find_node_done
<1>2. CASE bootstrap_retry
  <2>1. \A s \in Slots : futs[s] = Free
    BY <1>2 DEF IndInv, bootstrap_retry
  <2>2. inflight = {}
    <3>1. OpenIn(futs) = {}
      BY <2>1 DEF OpenIn, Free, Waiting
    <3> QED BY <3>1 DEF IndInv, TransOK
  <2>3. PICK fs, nt, n : fs = FirstFuts /\ nt = net /\ n = next_tid
    OBVIOUS
  <2>4. nt \in SUBSET EntrySet /\ n \in 0..(TidSpace - 1) /\ \A d \in nt : Fits(d.tid, d.age, n)
    BY <2>3 DEF IndInv, TransOK
  <2>5. TransOK(fs, {}, nt, n)
    BY <2>3, <2>4, FirstFutsFacts, NobodyWaits
  <2>6. TransOK(futs', inflight', net', next_tid')
    BY <1>2, <2>2, <2>3, <2>5 DEF bootstrap_retry
  <2>7. GoodList(<<>>)
    <3>1. <<>> \in Seq(UsefulSet) /\ Len(<<>>) = 0
      OBVIOUS
    <3> QED BY <3>1, LookupAssumption DEF GoodList
  <2> QED BY <1>2, <2>6, <2>7 DEF IndInv, bootstrap_retry
<1>3. CASE bootstrap_failed
  BY <1>3, NetworkStep DEF bootstrap_failed
<1> QED BY <1>1, <1>2, <1>3

\* Every step keeps the invariant.
LEMMA NextInd == IndInv /\ [Next]_vars => IndInv'
<1> SUFFICES ASSUME IndInv, [Next]_vars PROVE IndInv'
  OBVIOUS
<1>1. CASE \E i \in DOMAIN useful : requery_interval(i)
  BY <1>1, RequeryInd
<1>2. CASE \E s \in Slots : request(s)
  BY <1>2, RequestInd
<1>3. CASE \E s \in Slots : timeout(s) \/ on_send_error(s) \/ send_failed(s)
  BY <1>3, FailureInd
<1>4. CASE \E d \in net : Receive(d) \/ lose(d)
  BY <1>4, DatagramInd
<1>5. CASE node_rx_recv
  BY <1>5, RecvInd
<1>6. CASE get_peers_root
  BY <1>6, RootInd
<1>7. CASE find_node_done \/ bootstrap_retry \/ bootstrap_failed
  BY <1>7, BootstrapInd
<1>8. CASE UNCHANGED vars
  BY <1>8, NetworkStep DEF vars
<1> QED BY <1>1, <1>2, <1>3, <1>4, <1>5, <1>6, <1>7, <1>8 DEF Next

-----------------------------------------------------------------------------
(* The theorems *)

\* A datagram is matched only with the request that it answers, though ids wrap and
\* datagrams are late or doubled; a request that waits has its entry, and an entry its
\* request (create_request, on_received_message, request).
THEOREM LookupRequestsMatch == Spec => []RequestsMatch
<1>1. Spec => []IndInv
  BY InitInd, NextInd, PTL DEF Spec
<1> QED BY <1>1, IndInvImpliesMatch, PTL

\* useful_nodes has a node at most once, and a find_node that ends has asked every node
\* that should_request_node accepted.
THEOREM LookupUsefulAsked == Spec => []UsefulAsked
<1>1. Spec => []IndInv
  BY InitInd, NextInd, PTL DEF Spec
<1> QED BY <1>1, IndInvImpliesAsked, PTL
=============================================================================
