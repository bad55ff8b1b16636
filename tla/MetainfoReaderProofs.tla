------------------------ MODULE MetainfoReaderProofs ------------------------
(***************************************************************************)
(* MetainfoReader, for every set of peers, every size of metadata and      *)
(* chunks and every number of permits: the info that is found is right,    *)
(* permits are not lost, and a reader panics only for a peer that sends    *)
(* what was not requested or starts over.                                  *)
(***************************************************************************)
EXTENDS MetainfoReader, FiniteSetTheorems, SequenceTheorems, WellFoundedInduction, TLAPS

-----------------------------------------------------------------------------
(* Sequences *)

\* Every non-empty set of naturals has a least element.
LEMMA LeastNat ==
    ASSUME NEW T \in SUBSET Nat, T # {}
    PROVE  \E n \in T : \A m \in T : n <= m
<1> DEFINE R == OpToRel(<, Nat)
<1>1. \A m, n \in Nat : <<m, n>> \in R <=> m < n
  BY DEF OpToRel
<1>2. IsWellFoundedOn(R, Nat)
  BY NatLessThanWellFounded
<1> HIDE DEF R
<1>3. PICK x \in T : \A y \in T : ~(<<y, x>> \in R)
  BY <1>2, WFMin
<1>4. ASSUME NEW y \in T PROVE x <= y
  <2>1. x \in Nat /\ y \in Nat
    OBVIOUS
  <2>2. ~(y < x)
    BY <1>1, <1>3, <2>1
  <2> QED BY <2>1, <2>2
<1> QED BY <1>4

\* No element of s occurs twice.
Distinct(s) == \A i, j \in 1..Len(s) : s[i] = s[j] => i = j

\* Taking one place out of a sequence keeps the others in order.
LEMMA RemoveAtFacts ==
    ASSUME NEW S, NEW s \in Seq(S), NEW k \in 1..Len(s)
    PROVE  /\ RemoveAt(s, k) \in Seq(S)
           /\ Len(RemoveAt(s, k)) = Len(s) - 1
           /\ \A i \in 1..(Len(s) - 1) : RemoveAt(s, k)[i] = IF i < k THEN s[i] ELSE s[i + 1]
<1> DEFINE front == SubSeq(s, 1, k - 1)
           back == SubSeq(s, k + 1, Len(s))
<1>0. Len(s) \in Nat /\ k \in Nat /\ k >= 1 /\ k <= Len(s) /\ \A i \in 1..Len(s) : s[i] \in S
  OBVIOUS
<1>1. /\ front \in Seq(S) /\ Len(front) = k - 1
      /\ \A i \in 1..(k - 1) : front[i] = s[i]
  <2>1. \A i \in 1..(k - 1) : s[i] \in S
    BY <1>0
  <2>2. /\ SubSeq(s, 1, k - 1) \in Seq(S)
        /\ Len(SubSeq(s, 1, k - 1)) = IF 1 <= k - 1 THEN (k - 1) - 1 + 1 ELSE 0
        /\ \A i \in 1..((k - 1) - 1 + 1) : SubSeq(s, 1, k - 1)[i] = s[1 + i - 1]
    BY <1>0, <2>1, SubSeqProperties
  <2> QED BY <1>0, <2>2
<1>2. /\ back \in Seq(S) /\ Len(back) = Len(s) - k
      /\ \A i \in 1..(Len(s) - k) : back[i] = s[k + i]
  <2>1. \A i \in (k + 1)..Len(s) : s[i] \in S
    BY <1>0
  <2>2. /\ SubSeq(s, k + 1, Len(s)) \in Seq(S)
        /\ Len(SubSeq(s, k + 1, Len(s))) = IF k + 1 <= Len(s) THEN Len(s) - (k + 1) + 1 ELSE 0
        /\ \A i \in 1..(Len(s) - (k + 1) + 1) :
              SubSeq(s, k + 1, Len(s))[i] = s[(k + 1) + i - 1]
    BY <1>0, <2>1, SubSeqProperties
  <2> QED BY <1>0, <2>2
<1>3. RemoveAt(s, k) = front \o back
  BY DEF RemoveAt
<1> HIDE DEF front, back
<1>4. /\ front \o back \in Seq(S)
      /\ Len(front \o back) = Len(front) + Len(back)
      /\ \A i \in 1..(Len(front) + Len(back)) : (front \o back)[i] =
            IF i <= Len(front) THEN front[i] ELSE back[i - Len(front)]
  BY <1>1, <1>2, ConcatProperties
<1> QED BY <1>0, <1>1, <1>2, <1>3, <1>4

\* RemoveFirst takes out one place, if there is one.
LEMMA RemoveFirstIsRemoveAt ==
    ASSUME NEW S, NEW s \in Seq(S), NEW e
    PROVE  \/ ~Contains(s, e) /\ RemoveFirst(s, e) = s
           \/ \E k \in 1..Len(s) : s[k] = e /\ RemoveFirst(s, e) = RemoveAt(s, k)
<1>1. CASE ~Contains(s, e)
  BY <1>1 DEF Contains, RemoveFirst
<1>2. CASE Contains(s, e)
  <2> DEFINE I == {i \in 1..Len(s) : s[i] = e}
  <2>1. I # {} /\ I \in SUBSET Nat
    BY <1>2 DEF Contains
  <2>2. PICK n \in I : \A m \in I : n <= m
    BY <2>1, LeastNat
  <2>3. Min(I) \in I
    BY <2>2 DEF Min
  <2>4. SelectInSeq(s, LAMBDA v : v = e) = Min(I)
    BY <2>1 DEF SelectInSeq
  <2>5. RemoveFirst(s, e) = RemoveAt(s, SelectInSeq(s, LAMBDA v : v = e))
    BY <1>2 DEF RemoveFirst, Contains
  <2> QED BY <2>3, <2>4, <2>5
<1> QED BY <1>1, <1>2

\* The first request for a piece is answered: what is left is still distinct, and has
\* this piece no more.
LEMMA RemoveFirstFacts ==
    ASSUME NEW S, NEW s \in Seq(S), NEW e
    PROVE  /\ RemoveFirst(s, e) \in Seq(S)
           /\ \A i \in 1..Len(RemoveFirst(s, e)) : \E j \in 1..Len(s) : RemoveFirst(s, e)[i] = s[j]
           /\ Distinct(s) => /\ Distinct(RemoveFirst(s, e))
                             /\ \A i \in 1..Len(RemoveFirst(s, e)) : RemoveFirst(s, e)[i] # e
<1>1. CASE ~Contains(s, e) /\ RemoveFirst(s, e) = s
  BY <1>1 DEF Contains
<1>2. ASSUME NEW k \in 1..Len(s), s[k] = e, RemoveFirst(s, e) = RemoveAt(s, k)
      PROVE  /\ RemoveFirst(s, e) \in Seq(S)
             /\ \A i \in 1..Len(RemoveFirst(s, e)) : \E j \in 1..Len(s) : RemoveFirst(s, e)[i] = s[j]
             /\ Distinct(s) => /\ Distinct(RemoveFirst(s, e))
                               /\ \A i \in 1..Len(RemoveFirst(s, e)) : RemoveFirst(s, e)[i] # e
  <2> DEFINE t == RemoveAt(s, k)
             from(i) == IF i < k THEN i ELSE i + 1
  <2>0. Len(s) \in Nat /\ k \in Nat
    OBVIOUS
  <2>1. t \in Seq(S) /\ Len(t) = Len(s) - 1
    BY RemoveAtFacts
  <2>2. \A i \in 1..Len(t) : t[i] = s[from(i)] /\ from(i) \in 1..Len(s) /\ from(i) # k
    <3>1. \A i \in 1..(Len(s) - 1) : t[i] = IF i < k THEN s[i] ELSE s[i + 1]
      BY RemoveAtFacts
    <3> HIDE DEF t
    <3> QED BY <2>0, <2>1, <3>1
  <2>3. \A i, j \in 1..Len(t) : from(i) = from(j) => i = j
    BY <2>0, <2>1
  <2> HIDE DEF t, from
  <2>4. Distinct(s) => Distinct(t) /\ \A i \in 1..Len(t) : t[i] # e
    BY <1>2, <2>2, <2>3 DEF Distinct
  <2>5. RemoveFirst(s, e) = t
    BY <1>2 DEF t
  <2> QED BY <2>1, <2>2, <2>4, <2>5
<1> QED BY <1>1, <1>2, RemoveFirstIsRemoveAt

-----------------------------------------------------------------------------
(* The buffer of a reader *)

\* The pieces that were received, the state of a handler, the state of a reader.
ReceivedSets == UNION {[S -> BOOLEAN] : S \in SUBSET Nat}
Lockeds == [size : Nat, received : ReceivedSets]
States == {"waiting", "connecting", "reading", "failed", "found", "gone", "panicked"}
ReaderSet == [addr : Addrs, st : States, locked : Lockeds, reqs : Seq(Nat), handshakes : Nat,
              sent : Nat, result : Lockeds, odd : BOOLEAN]

\* A buffer has a number of pieces.
LEMMA TotalPiecesNat == \A size \in Nat : TotalPieces(size) \in Nat
<1> SUFFICES ASSUME NEW size \in Nat PROVE TotalPieces(size) \in Nat
  OBVIOUS
<1>1. ChunkSize \in Nat /\ ChunkSize > 0
  BY MetainfoAssumption
<1>2. size + ChunkSize - 1 \in Nat
  BY <1>1
<1> QED BY <1>1, <1>2 DEF TotalPieces, ceil_div

\* A new buffer is empty, and is not the absence of one.
LEMMA NewLockedFacts ==
    /\ None \in Lockeds
    /\ \A size \in Nat : /\ NewLocked(size) \in Lockeds
                         /\ NewLocked(size).size = size
                         /\ DOMAIN NewLocked(size).received = {}
    /\ \A l \in Lockeds : l.size <= MaxSize => l # None
<1>1. [i \in {} |-> TRUE] \in ReceivedSets
  <2>1. [i \in {} |-> TRUE] \in [{} -> BOOLEAN] /\ {} \in SUBSET Nat
    OBVIOUS
  <2> QED BY <2>1 DEF ReceivedSets
<1>2. MaxSize \in Nat
  BY MetainfoAssumption
<1>3. None \in Lockeds
  BY <1>1, <1>2 DEF None, Lockeds
<1>4. \A size \in Nat : NewLocked(size) \in Lockeds
  BY <1>1 DEF NewLocked, Lockeds
<1>5. \A l \in Lockeds : l.size <= MaxSize => l # None
  BY <1>2 DEF None, Lockeds
<1> QED BY <1>3, <1>4, <1>5 DEF NewLocked

\* What the pieces of l may be.
LockedOK(l) ==
    l # None => l.size <= MaxSize /\ DOMAIN l.received \subseteq 0..(TotalPieces(l.size) - 1)

\* record_piece adds the piece; when it says that all are here, all are, and the hash
\* is right.
LEMMA RecordFacts ==
    ASSUME NEW l \in Lockeds, l # None, LockedOK(l),
           NEW d, d.index \in Nat, d.content \in BOOLEAN,
           record_piece(l, d).res # "error"
    PROVE  /\ record_piece(l, d).res \in {"more", "ready"}
           /\ record_piece(l, d).locked = WithPiece(l, d)
           /\ WithPiece(l, d) \in Lockeds /\ WithPiece(l, d) # None
           /\ WithPiece(l, d).size = l.size
           /\ DOMAIN WithPiece(l, d).received = DOMAIN l.received \cup {d.index}
           /\ LockedOK(WithPiece(l, d))
           /\ record_piece(l, d).res = "ready" =>
                 Complete(WithPiece(l, d)) /\ ChecksumOk(WithPiece(l, d))
<1> DEFINE new == WithPiece(l, d)
           rcv == [i \in DOMAIN l.received \cup {d.index} |->
                     IF i = d.index THEN d.content ELSE l.received[i]]
<1>1. PICK S \in SUBSET Nat : l.received \in [S -> BOOLEAN]
  BY DEF Lockeds, ReceivedSets
<1>2. rcv \in [S \cup {d.index} -> BOOLEAN] /\ S \cup {d.index} \in SUBSET Nat
      /\ DOMAIN l.received = S
  BY <1>1
<1>3. rcv \in ReceivedSets /\ DOMAIN rcv = DOMAIN l.received \cup {d.index}
  BY <1>2 DEF ReceivedSets
<1> HIDE DEF rcv
<1>4. new = [l EXCEPT !.received = rcv]
  BY DEF WithPiece, rcv
<1>5. new \in Lockeds /\ new.size = l.size /\ new.received = rcv
  BY <1>3, <1>4 DEF Lockeds
<1>6. l.size <= MaxSize /\ l.size \in Nat
  BY DEF LockedOK, Lockeds
<1>7. new # None
  BY <1>5, <1>6, NewLockedFacts
<1> HIDE DEF new
<1>8. /\ ~(d.index >= TotalPieces(l.size))
      /\ \/ ~Complete(new) /\ record_piece(l, d) = [res |-> "more", locked |-> new]
         \/ /\ Complete(new) /\ ChecksumOk(new)
            /\ record_piece(l, d) = [res |-> "ready", locked |-> new]
  BY DEF record_piece, new
<1>9. TotalPieces(l.size) \in Nat
  BY <1>6, TotalPiecesNat
<1>10. d.index \in 0..(TotalPieces(l.size) - 1)
  BY <1>8, <1>9
<1>11. LockedOK(new)
  BY <1>3, <1>5, <1>6, <1>10 DEF LockedOK
<1> QED BY <1>3, <1>5, <1>7, <1>8, <1>11 DEF new

-----------------------------------------------------------------------------
(* One reader *)

\* What RequestsKnown says of a reader.
RequestsOK(x) ==
    x.st # "panicked" =>
        /\ x.handshakes = 0 => x.reqs = <<>> /\ x.locked = None
        /\ x.handshakes = 1 /\ ~x.odd =>
              /\ Distinct(x.reqs)
              /\ x.locked = None => x.reqs = <<>>
              /\ x.locked # None => \A i \in 1..Len(x.reqs) :
                    x.reqs[i] \in 0..(TotalPieces(x.locked.size) - 1) \ DOMAIN x.locked.received

ResultOK(x) ==
    /\ x.result # None => ChecksumOk(x.result) /\ Complete(x.result)
    /\ x.st = "found" => x.result # None

GoodReader(x) ==
    /\ x \in ReaderSet /\ LockedOK(x.locked) /\ ResultOK(x) /\ RequestsOK(x)
    /\ x.st = "panicked" => x.odd \/ x.handshakes > 1

Holds(x) == x.st \in {"connecting", "reading", "panicked"}

\* What the actions make of a reader.
Ended(x, st) == [NewReader(x.addr) EXCEPT !.st = st, !.result = x.result, !.odd = x.odd]
Moved(x, st) == [x EXCEPT !.st = st]
Greeted(x, size) ==
    [x EXCEPT !.locked = NewLocked(size), !.handshakes = x.handshakes + 1,
              !.reqs = x.reqs \o [i \in 1..TotalPieces(size) |-> i - 1]]
Taken(x, d, sent) ==
    [x EXCEPT !.sent = sent, !.odd = x.odd \/ ~Contains(x.reqs, d.index),
              !.reqs = RemoveFirst(x.reqs, d.index)]
Recorded(x, l) == [x EXCEPT !.locked = l]
Delivered(x, l) == [x EXCEPT !.locked = None, !.result = l]

\* A reader that begins has nothing.
LEMMA NewReaderGood ==
    ASSUME NEW a \in Addrs
    PROVE  GoodReader(NewReader(a)) /\ NewReader(a).addr = a /\ ~Holds(NewReader(a))
<1>1. None \in Lockeds /\ <<>> \in Seq(Nat)
  BY NewLockedFacts
<1>2. NewReader(a) \in ReaderSet
  BY <1>1 DEF NewReader, ReaderSet, States
<1>3. /\ NewReader(a).locked = None /\ NewReader(a).result = None
      /\ NewReader(a).st = "waiting" /\ NewReader(a).handshakes = 0
      /\ NewReader(a).reqs = <<>> /\ NewReader(a).addr = a
  BY DEF NewReader
<1> QED BY <1>2, <1>3 DEF GoodReader, LockedOK, ResultOK, RequestsOK, Holds

\* A reader that ends keeps its result only.
LEMMA EndedGood ==
    ASSUME NEW x, GoodReader(x), NEW st \in {"failed", "found"},
           st = "found" => x.result # None, NEW y,
           y = Ended(x, st)
    PROVE  GoodReader(y) /\ y.addr = x.addr /\ ~Holds(y)
<1>1. x \in ReaderSet /\ x.addr \in Addrs /\ x.result \in Lockeds /\ x.odd \in BOOLEAN
  BY DEF GoodReader, ReaderSet
<1>2. NewReader(x.addr) \in ReaderSet
  BY <1>1, NewReaderGood DEF GoodReader
<1>3. /\ y \in ReaderSet /\ y.addr = NewReader(x.addr).addr
      /\ y.st = st /\ y.result = x.result
      /\ y.locked = NewReader(x.addr).locked /\ y.reqs = NewReader(x.addr).reqs
      /\ y.handshakes = NewReader(x.addr).handshakes
  BY <1>1, <1>2 DEF Ended, ReaderSet, States
<1>4. /\ NewReader(x.addr).addr = x.addr /\ NewReader(x.addr).locked = None
      /\ NewReader(x.addr).reqs = <<>> /\ NewReader(x.addr).handshakes = 0
  BY DEF NewReader
<1>5. ResultOK(y)
  BY <1>3 DEF ResultOK, GoodReader
<1>6. RequestsOK(y) /\ LockedOK(y.locked)
  BY <1>3, <1>4 DEF RequestsOK, LockedOK
<1> QED BY <1>3, <1>4, <1>5, <1>6 DEF GoodReader, Holds

\* A reader that goes to another step, not to a panic or an info.
LEMMA MovedGood ==
    ASSUME NEW x, GoodReader(x), x.st # "panicked",
           NEW st \in {"connecting", "reading", "gone"}, NEW y, y = Moved(x, st)
    PROVE  GoodReader(y) /\ y.addr = x.addr /\ y.st = st
<1>1. x \in ReaderSet
  BY DEF GoodReader
<1>2. /\ y \in ReaderSet /\ y.addr = x.addr /\ y.st = st /\ y.result = x.result
      /\ y.locked = x.locked /\ y.reqs = x.reqs /\ y.handshakes = x.handshakes /\ y.odd = x.odd
  BY <1>1 DEF Moved, ReaderSet, States
<1> QED BY <1>2 DEF GoodReader, ResultOK, RequestsOK, LockedOK, Distinct

\* A handshake with a size starts a new buffer and requests every piece of it.
LEMMA HandshakeGood ==
    ASSUME NEW x, GoodReader(x), x.st = "reading", NEW size \in Nat, size <= MaxSize, NEW y,
           y = Greeted(x, size)
    PROVE  GoodReader(y) /\ y.addr = x.addr /\ y.st = "reading"
<1> DEFINE n == TotalPieces(size)
           all == [i \in 1..n |-> i - 1]
<1>1. x \in ReaderSet /\ x.reqs \in Seq(Nat) /\ x.handshakes \in Nat
  BY DEF GoodReader, ReaderSet
<1>2. n \in Nat
  BY TotalPiecesNat
<1>3. all \in Seq(Nat) /\ Len(all) = n /\ \A i \in 1..n : all[i] = i - 1
  BY <1>2
<1>4. NewLocked(size) \in Lockeds /\ NewLocked(size) # None
      /\ NewLocked(size).size = size /\ DOMAIN NewLocked(size).received = {}
  BY NewLockedFacts
<1> HIDE DEF all, n
<1>5. x.reqs \o all \in Seq(Nat)
  BY <1>1, <1>3
<1>6. y = [x EXCEPT !.locked = NewLocked(size), !.handshakes = x.handshakes + 1,
                    !.reqs = x.reqs \o all]
  BY DEF Greeted, all, n
<1>7. /\ y \in ReaderSet /\ y.addr = x.addr /\ y.st = x.st /\ y.result = x.result
      /\ y.locked = NewLocked(size) /\ y.handshakes = x.handshakes + 1
      /\ y.reqs = x.reqs \o all
  <2>1. PICK h, l, q : /\ h = x.handshakes + 1 /\ l = NewLocked(size) /\ q = x.reqs \o all
    OBVIOUS
  <2>2. h \in Nat /\ l \in Lockeds /\ q \in Seq(Nat)
    BY <1>1, <1>4, <1>5, <2>1
  <2>3. y = [x EXCEPT !.locked = l, !.handshakes = h, !.reqs = q]
    BY <1>6, <2>1
  <2>4. /\ y \in ReaderSet /\ y.addr = x.addr /\ y.st = x.st /\ y.result = x.result
        /\ y.locked = l /\ y.handshakes = h /\ y.reqs = q
    BY <1>1, <2>2, <2>3 DEF ReaderSet
  <2> QED BY <2>1, <2>4
<1>8. LockedOK(y.locked) /\ ResultOK(y)
  BY <1>4, <1>7 DEF LockedOK, ResultOK, GoodReader
<1>9. RequestsOK(y)
  <2>1. CASE x.handshakes = 0
    <3>1. y.reqs = all
      BY <1>3, <1>7, <2>1, ConcatEmptySeq DEF GoodReader, RequestsOK
    <3>2. Distinct(all)
      BY <1>2, <1>3 DEF Distinct
    <3>3. \A i \in 1..Len(all) : all[i] \in 0..(n - 1)
      BY <1>2, <1>3
    <3>4. y.locked.size = size /\ DOMAIN y.locked.received = {} /\ y.locked # None
      BY <1>4, <1>7
    <3>5. \A i \in 1..Len(y.reqs) :
             y.reqs[i] \in 0..(TotalPieces(y.locked.size) - 1) \ DOMAIN y.locked.received
      <4>1. n = TotalPieces(y.locked.size)
        BY <3>4 DEF n
      <4> QED BY <3>1, <3>3, <3>4, <4>1
    <3>6. y.handshakes # 0
      BY <1>1, <1>7
    <3> QED BY <3>1, <3>2, <3>4, <3>5, <3>6 DEF RequestsOK
  <2>2. CASE x.handshakes # 0
    <3>1. y.handshakes # 0 /\ y.handshakes # 1
      BY <1>1, <1>7, <2>2
    <3> QED BY <3>1 DEF RequestsOK
  <2> QED BY <2>1, <2>2
<1> QED BY <1>7, <1>8, <1>9 DEF GoodReader

\* What is known of a reader that took data d.
TakenOK(x, d, now) ==
    /\ now \in ReaderSet /\ now.addr = x.addr /\ now.st = "reading"
    /\ now.locked = x.locked /\ now.result = x.result
    /\ now.handshakes = x.handshakes /\ now.handshakes \in Nat
    /\ now.odd = (x.odd \/ ~Contains(x.reqs, d.index))
    /\ now.reqs \in Seq(Nat)
    /\ \A i \in 1..Len(now.reqs) : \E j \in 1..Len(x.reqs) : now.reqs[i] = x.reqs[j]
    /\ Distinct(x.reqs) => /\ Distinct(now.reqs)
                           /\ \A i \in 1..Len(now.reqs) : now.reqs[i] # d.index

\* The request that was answered is gone; data that was not requested makes it odd.
LEMMA TakenFacts ==
    ASSUME NEW x, GoodReader(x), x.st = "reading", NEW d, d.index \in Nat,
           NEW sent \in Nat, NEW now, now = Taken(x, d, sent)
    PROVE  TakenOK(x, d, now)
<1>1. /\ x \in ReaderSet /\ x.reqs \in Seq(Nat) /\ x.odd \in BOOLEAN /\ x.handshakes \in Nat
  BY DEF GoodReader, ReaderSet
<1> DEFINE left == RemoveFirst(x.reqs, d.index)
           odd == x.odd \/ ~Contains(x.reqs, d.index)
<1>2. /\ left \in Seq(Nat)
      /\ \A i \in 1..Len(left) : \E j \in 1..Len(x.reqs) : left[i] = x.reqs[j]
      /\ Distinct(x.reqs) => Distinct(left) /\ \A i \in 1..Len(left) : left[i] # d.index
  <2>1. PICK q, e : q = x.reqs /\ e = d.index
    OBVIOUS
  <2>2. q \in Seq(Nat)
    BY <1>1, <2>1
  <2>3. /\ RemoveFirst(q, e) \in Seq(Nat)
        /\ \A i \in 1..Len(RemoveFirst(q, e)) :
              \E j \in 1..Len(q) : RemoveFirst(q, e)[i] = q[j]
        /\ Distinct(q) => /\ Distinct(RemoveFirst(q, e))
                          /\ \A i \in 1..Len(RemoveFirst(q, e)) : RemoveFirst(q, e)[i] # e
    BY <2>2, RemoveFirstFacts
  <2>4. left = RemoveFirst(q, e)
    BY <2>1
  <2> HIDE DEF left
  <2> QED BY <2>1, <2>3, <2>4
<1>3. odd \in BOOLEAN
  OBVIOUS
<1>4. now = [x EXCEPT !.sent = sent, !.odd = odd, !.reqs = left]
  BY DEF Taken
<1> HIDE DEF left, odd
<1>5. /\ now \in ReaderSet /\ now.addr = x.addr /\ now.st = x.st
      /\ now.locked = x.locked /\ now.result = x.result
      /\ now.handshakes = x.handshakes /\ now.odd = odd /\ now.reqs = left
  BY <1>1, <1>2, <1>3, <1>4 DEF ReaderSet
<1> QED BY <1>1, <1>2, <1>5 DEF odd, TakenOK

\* Data without a buffer to record it in: the peer has sent what was not requested, or
\* has started over.
LEMMA PanicGood ==
    ASSUME NEW x, GoodReader(x), x.st = "reading", x.locked = None, NEW d, d.index \in Nat,
           NEW sent \in Nat, NEW now, now = Taken(x, d, sent), NEW y,
           y = Moved(now, "panicked")
    PROVE  GoodReader(y) /\ y.addr = x.addr /\ y.st = "panicked"
<1>1. /\ now \in ReaderSet /\ now.addr = x.addr /\ now.locked = x.locked
      /\ now.result = x.result /\ now.handshakes = x.handshakes /\ now.handshakes \in Nat
      /\ now.odd = (x.odd \/ ~Contains(x.reqs, d.index))
  <2>1. TakenOK(x, d, now)
    BY TakenFacts
  <2> QED BY <2>1 DEF TakenOK
<1>2. /\ y \in ReaderSet /\ y.addr = x.addr /\ y.locked = x.locked /\ y.result = x.result
      /\ y.handshakes = x.handshakes /\ y.st = "panicked" /\ y.odd = now.odd
  BY <1>1 DEF Moved, ReaderSet, States
<1>3. x.handshakes = 0 \/ (x.handshakes = 1 /\ ~x.odd) => x.reqs = <<>>
  BY DEF GoodReader, RequestsOK
<1>4. x.reqs = <<>> => ~Contains(x.reqs, d.index)
  BY DEF Contains
<1>5. CASE x.handshakes = 0 \/ (x.handshakes = 1 /\ ~x.odd)
  BY <1>1, <1>2, <1>3, <1>4, <1>5 DEF GoodReader, LockedOK, ResultOK, RequestsOK
<1>6. CASE x.handshakes = 1 /\ x.odd
  BY <1>1, <1>2, <1>6 DEF GoodReader, LockedOK, ResultOK, RequestsOK
<1>7. CASE x.handshakes # 0 /\ x.handshakes # 1
  <2>1. y.handshakes > 1
    BY <1>1, <1>2, <1>7
  <2> QED BY <1>2, <2>1 DEF GoodReader, LockedOK, ResultOK, RequestsOK
<1> QED BY <1>5, <1>6, <1>7

\* A piece is recorded and more are missing.
LEMMA MoreGood ==
    ASSUME NEW x, GoodReader(x), x.st = "reading", x.locked # None,
           NEW d, d.index \in Nat, d.content \in BOOLEAN, NEW sent \in Nat,
           NEW now, now = Taken(x, d, sent),
           record_piece(x.locked, d).res = "more", NEW y,
           y = Recorded(now, record_piece(x.locked, d).locked)
    PROVE  GoodReader(y) /\ y.addr = x.addr /\ y.st = "reading"
<1> DEFINE new == WithPiece(x.locked, d)
<1>0. x.locked \in Lockeds /\ LockedOK(x.locked) /\ record_piece(x.locked, d).res # "error"
  BY DEF GoodReader, ReaderSet
<1>1. /\ record_piece(x.locked, d).locked = new /\ new \in Lockeds /\ new # None
      /\ new.size = x.locked.size /\ LockedOK(new)
      /\ DOMAIN new.received = DOMAIN x.locked.received \cup {d.index}
  BY <1>0, RecordFacts
<1> HIDE DEF new
<1>2. /\ now \in ReaderSet /\ now.addr = x.addr /\ now.st = "reading"
      /\ now.result = x.result /\ now.handshakes = x.handshakes
      /\ now.odd = (x.odd \/ ~Contains(x.reqs, d.index))
      /\ now.reqs \in Seq(Nat)
      /\ \A i \in 1..Len(now.reqs) : \E j \in 1..Len(x.reqs) : now.reqs[i] = x.reqs[j]
      /\ Distinct(x.reqs) => /\ Distinct(now.reqs)
                             /\ \A i \in 1..Len(now.reqs) : now.reqs[i] # d.index
  <2>1. TakenOK(x, d, now)
    BY TakenFacts
  <2> QED BY <2>1 DEF TakenOK
<1>3. /\ y \in ReaderSet /\ y.addr = x.addr /\ y.st = "reading" /\ y.result = x.result
      /\ y.handshakes = x.handshakes /\ y.odd = now.odd /\ y.reqs = now.reqs /\ y.locked = new
  BY <1>1, <1>2 DEF Recorded, ReaderSet
<1>4. x.handshakes # 0
  BY DEF GoodReader, RequestsOK
<1>5. ASSUME x.handshakes = 1, ~y.odd
      PROVE  /\ Distinct(y.reqs)
             /\ \A i \in 1..Len(y.reqs) :
                   y.reqs[i] \in 0..(TotalPieces(new.size) - 1) \ DOMAIN new.received
  <2>1. ~x.odd
    BY <1>2, <1>3, <1>5
  <2>2. /\ Distinct(x.reqs)
        /\ \A i \in 1..Len(x.reqs) : x.reqs[i] \in
              0..(TotalPieces(x.locked.size) - 1) \ DOMAIN x.locked.received
    BY <1>5, <2>1 DEF GoodReader, RequestsOK
  <2>3. \A i \in 1..Len(now.reqs) :
           now.reqs[i] \in 0..(TotalPieces(x.locked.size) - 1) \ DOMAIN x.locked.received
           /\ now.reqs[i] # d.index
    BY <1>2, <2>2
  <2> QED BY <1>1, <1>2, <1>3, <2>2, <2>3
<1>6. RequestsOK(y)
  BY <1>1, <1>3, <1>4, <1>5 DEF RequestsOK
<1> QED BY <1>1, <1>3, <1>6 DEF GoodReader, ResultOK

\* The last piece is recorded: nothing is still to come from a peer that sent only what
\* was requested once.
LEMMA ReadyGood ==
    ASSUME NEW x, GoodReader(x), x.st = "reading", x.locked # None,
           NEW d, d.index \in Nat, d.content \in BOOLEAN, NEW sent \in Nat,
           NEW now, now = Taken(x, d, sent),
           record_piece(x.locked, d).res = "ready", NEW y,
           y = Delivered(now, record_piece(x.locked, d).locked)
    PROVE  GoodReader(y) /\ y.addr = x.addr /\ y.st = "reading"
<1> DEFINE new == WithPiece(x.locked, d)
<1>0. /\ x.locked \in Lockeds /\ LockedOK(x.locked) /\ record_piece(x.locked, d).res # "error"
      /\ None \in Lockeds
  BY NewLockedFacts DEF GoodReader, ReaderSet
<1>1. /\ record_piece(x.locked, d).locked = new /\ new \in Lockeds /\ new # None
      /\ new.size = x.locked.size /\ Complete(new) /\ ChecksumOk(new)
      /\ DOMAIN new.received = DOMAIN x.locked.received \cup {d.index}
  BY <1>0, RecordFacts
<1> HIDE DEF new
<1>2. /\ now \in ReaderSet /\ now.addr = x.addr /\ now.st = "reading"
      /\ now.result = x.result /\ now.handshakes = x.handshakes
      /\ now.odd = (x.odd \/ ~Contains(x.reqs, d.index))
      /\ now.reqs \in Seq(Nat)
      /\ \A i \in 1..Len(now.reqs) : \E j \in 1..Len(x.reqs) : now.reqs[i] = x.reqs[j]
      /\ Distinct(x.reqs) => /\ Distinct(now.reqs)
                             /\ \A i \in 1..Len(now.reqs) : now.reqs[i] # d.index
  <2>1. TakenOK(x, d, now)
    BY TakenFacts
  <2> QED BY <2>1 DEF TakenOK
<1>3. /\ y \in ReaderSet /\ y.addr = x.addr /\ y.st = "reading" /\ y.result = new
      /\ y.handshakes = x.handshakes /\ y.odd = now.odd /\ y.reqs = now.reqs /\ y.locked = None
  BY <1>0, <1>1, <1>2 DEF Delivered, ReaderSet
<1>4. x.handshakes # 0
  BY DEF GoodReader, RequestsOK
<1>5. ASSUME x.handshakes = 1, ~y.odd PROVE y.reqs = <<>>
  <2>1. ~x.odd
    BY <1>2, <1>3, <1>5
  <2>2. /\ Distinct(x.reqs)
        /\ \A i \in 1..Len(x.reqs) : x.reqs[i] \in
              0..(TotalPieces(x.locked.size) - 1) \ DOMAIN x.locked.received
    BY <1>5, <2>1 DEF GoodReader, RequestsOK
  <2>3. DOMAIN new.received = 0..(TotalPieces(new.size) - 1)
    BY <1>1 DEF Complete
  <2>4. \A i \in 1..Len(now.reqs) : FALSE
    BY <1>1, <1>2, <2>2, <2>3
  <2> QED BY <1>2, <1>3, <2>4
<1>6. Distinct(<<>>)
  BY DEF Distinct
<1>7. RequestsOK(y)
  BY <1>3, <1>4, <1>5, <1>6 DEF RequestsOK
<1> QED BY <1>1, <1>3, <1>7 DEF GoodReader, ResultOK, LockedOK

-----------------------------------------------------------------------------
(* The permits *)

Updated(rs, r, x) == [rs EXCEPT ![r] = x]
HolderSet(rs) == {r \in 1..Len(rs) : Holds(rs[r])}

\* There are finitely many holders.
LEMMA HoldersFinite ==
    ASSUME NEW rs \in Seq(ReaderSet)
    PROVE  IsFiniteSet(HolderSet(rs)) /\ Cardinality(HolderSet(rs)) \in Nat
<1>1. IsFiniteSet(1..Len(rs))
  <2>1. 1 \in Int /\ Len(rs) \in Int
    OBVIOUS
  <2> QED BY <2>1, FS_Interval
<1>2. HolderSet(rs) \subseteq 1..Len(rs)
  BY DEF HolderSet
<1>3. IsFiniteSet(HolderSet(rs))
  BY <1>1, <1>2, FS_Subset
<1> QED BY <1>3, FS_CardinalityType

\* What becomes of the holders when reader r becomes x.
Change(rs, r, x, rs2) ==
    /\ rs2 \in Seq(ReaderSet) /\ Len(rs2) = Len(rs)
    /\ \A s \in 1..Len(rs) : rs2[s] = IF s = r THEN x ELSE rs[s]
    /\ (Holds(x) <=> Holds(rs[r])) =>
          Cardinality(HolderSet(rs2)) = Cardinality(HolderSet(rs))
    /\ Holds(x) /\ ~Holds(rs[r]) =>
          Cardinality(HolderSet(rs2)) = Cardinality(HolderSet(rs)) + 1
    /\ ~Holds(x) /\ Holds(rs[r]) =>
          Cardinality(HolderSet(rs2)) = Cardinality(HolderSet(rs)) - 1

\* One reader changes: so does its place among the holders, and no other.
LEMMA HoldersOfUpdate ==
    ASSUME NEW rs \in Seq(ReaderSet), NEW r \in 1..Len(rs), NEW x \in ReaderSet, NEW rs2,
           rs2 = Updated(rs, r, x)
    PROVE  Change(rs, r, x, rs2)
<1>1. /\ rs2 \in Seq(ReaderSet) /\ Len(rs2) = Len(rs)
      /\ \A s \in 1..Len(rs) : rs2[s] = IF s = r THEN x ELSE rs[s]
  BY DEF Updated
<1>2. IsFiniteSet(HolderSet(rs)) /\ Cardinality(HolderSet(rs)) \in Nat
  BY HoldersFinite
<1>3. ASSUME Holds(x) <=> Holds(rs[r])
      PROVE  Cardinality(HolderSet(rs2)) = Cardinality(HolderSet(rs))
  <2>1. HolderSet(rs2) = HolderSet(rs)
    BY <1>1, <1>3 DEF HolderSet
  <2> QED BY <2>1
<1>4. ASSUME Holds(x), ~Holds(rs[r])
      PROVE  Cardinality(HolderSet(rs2)) = Cardinality(HolderSet(rs)) + 1
  <2>1. HolderSet(rs2) = HolderSet(rs) \cup {r} /\ r \notin HolderSet(rs)
    BY <1>1, <1>4 DEF HolderSet
  <2> QED BY <1>2, <2>1, FS_AddElement
<1>5. ASSUME ~Holds(x), Holds(rs[r])
      PROVE  Cardinality(HolderSet(rs2)) = Cardinality(HolderSet(rs)) - 1
  <2>1. HolderSet(rs2) = HolderSet(rs) \ {r} /\ r \in HolderSet(rs)
    BY <1>1, <1>5 DEF HolderSet
  <2> QED BY <1>2, <2>1, FS_RemoveElement
<1> QED BY <1>1, <1>3, <1>4, <1>5 DEF Change

\* A new reader holds nothing.
LEMMA HoldersOfAppend ==
    ASSUME NEW rs \in Seq(ReaderSet), NEW x \in ReaderSet, ~Holds(x)
    PROVE  HolderSet(Append(rs, x)) = HolderSet(rs)
<1>1. /\ Append(rs, x) \in Seq(ReaderSet) /\ Len(Append(rs, x)) = Len(rs) + 1
      /\ \A s \in 1..Len(rs) : Append(rs, x)[s] = rs[s]
      /\ Append(rs, x)[Len(rs) + 1] = x
  BY AppendProperties
<1>2. \A s \in 1..(Len(rs) + 1) : s = Len(rs) + 1 \/ s \in 1..Len(rs)
  OBVIOUS
<1>3. \A s \in 1..Len(rs) : s \in 1..(Len(rs) + 1)
  OBVIOUS
<1> QED BY <1>1, <1>2, <1>3 DEF HolderSet

-----------------------------------------------------------------------------
(* The inductive invariant *)

Outcomes == {"searching", "found", "channel_closed", "panicked"}

IndInv ==
    /\ kind \in [Addrs -> Kinds]
    /\ stream \in [yielded : 0..MaxStream, ended : BOOLEAN]
    /\ seen \subseteq Addrs
    /\ readers \in Seq(ReaderSet)
    /\ \A r \in 1..Len(readers) : GoodReader(readers[r]) /\ readers[r].addr \in seen
    /\ AskedOnce
    /\ outcome \in Outcomes
    /\ outcome = "found" => \E r \in 1..Len(readers) : readers[r].st = "found"
    /\ sem \in Nat /\ sem + Cardinality(HolderSet(readers)) = Permits

\* The permits of TypeOK are those of HolderSet.
LEMMA HoldersSame == Holders = HolderSet(readers)
BY DEF Holders, HolderSet, Holds, Running

\* Under it, what is found is right.
LEMMA IndInvImpliesRight == IndInv => InfoIsRight
<1> SUFFICES ASSUME IndInv PROVE InfoIsRight
  OBVIOUS
<1>1. \A r \in 1..Len(readers) : ResultOK(readers[r])
  BY DEF IndInv, GoodReader
<1> QED BY <1>1 DEF IndInv, InfoIsRight, ResultOK

\* Under it, the readers are sound.
LEMMA IndInvImpliesSound == IndInv => ReadersSound
<1> SUFFICES ASSUME IndInv PROVE ReadersSound
  OBVIOUS
<1>1. \A r \in 1..Len(readers) : /\ readers[r].st \in States /\ readers[r].addr \in seen
                                 /\ LockedOK(readers[r].locked)
                                 /\ RequestsOK(readers[r])
                                 /\ readers[r].st = "panicked" =>
                                       readers[r].odd \/ readers[r].handshakes > 1
  BY DEF IndInv, GoodReader, ReaderSet
<1>2. sem + Cardinality(Holders) = Permits
  BY HoldersSame DEF IndInv
<1>3. stream.yielded \in 0..MaxStream /\ stream.ended \in BOOLEAN
  BY DEF IndInv
<1>4. TypeOK
  BY <1>1, <1>2, <1>3 DEF IndInv, TypeOK, States, LockedOK, Outcomes
<1>5. RequestsKnown
  BY <1>1 DEF RequestsKnown, RequestsOK, Distinct
<1>6. PanicNeedsRepeat
  BY <1>1 DEF PanicNeedsRepeat
<1> QED BY <1>4, <1>5, <1>6 DEF ReadersSound, IndInv

\* It holds at the start.
LEMMA InitInd == Init => IndInv
<1> SUFFICES ASSUME Init PROVE IndInv
  OBVIOUS
<1> DEFINE n == Len(InitialAddrs)
<1>1. n \in Nat /\ \A i \in 1..n : InitialAddrs[i] \in Addrs
  BY MetainfoAssumption
<1>2. \A i \in 1..n : /\ GoodReader(NewReader(InitialAddrs[i]))
                      /\ NewReader(InitialAddrs[i]).addr = InitialAddrs[i]
                      /\ ~Holds(NewReader(InitialAddrs[i]))
  BY <1>1, NewReaderGood
<1>3. \A i \in 1..n : NewReader(InitialAddrs[i]) \in ReaderSet
  BY <1>2 DEF GoodReader
<1>4. readers = [i \in 1..n |-> NewReader(InitialAddrs[i])]
  BY DEF Init
<1>5. readers \in Seq(ReaderSet) /\ Len(readers) = n
      /\ \A i \in 1..n : readers[i] = NewReader(InitialAddrs[i])
  BY <1>1, <1>3, <1>4
<1>6. seen \subseteq Addrs /\ \A i \in 1..n : InitialAddrs[i] \in seen
  BY <1>1, MetainfoAssumption DEF Init, ToSet
<1>7. AskedOnce
  BY <1>5 DEF AskedOnce
<1>8. HolderSet(readers) = {}
  BY <1>2, <1>5 DEF HolderSet
<1>9. Cardinality(HolderSet(readers)) = 0
  BY <1>8, FS_EmptySet
<1>10. stream \in [yielded : 0..MaxStream, ended : BOOLEAN]
  BY MetainfoAssumption DEF Init
<1> HIDE DEF n
<1>11. \A r \in 1..Len(readers) : GoodReader(readers[r]) /\ readers[r].addr \in seen
  BY <1>2, <1>5, <1>6
<1>12. sem \in Nat /\ sem + Cardinality(HolderSet(readers)) = Permits
  BY <1>9, MetainfoAssumption DEF Init
<1> QED BY <1>5, <1>6, <1>7, <1>10, <1>11, <1>12 DEF Init, IndInv, Outcomes

\* One reader goes on, and the permits with it.
LEMMA ReaderUpdated ==
    ASSUME IndInv, NEW r \in 1..Len(readers), NEW x, GoodReader(x),
           x.addr = readers[r].addr, readers' = [readers EXCEPT ![r] = x],
           \/ (Holds(x) <=> Holds(readers[r])) /\ sem' = sem
           \/ Holds(x) /\ ~Holds(readers[r]) /\ sem > 0 /\ sem' = sem - 1
           \/ ~Holds(x) /\ Holds(readers[r]) /\ sem' = sem + 1,
           UNCHANGED <<kind, stream, seen>>,
           outcome' \in {"searching", "panicked"}
    PROVE  IndInv'
<1>1. readers \in Seq(ReaderSet) /\ x \in ReaderSet
  BY DEF IndInv, GoodReader
<1>2. PICK rs, rs2 : rs = readers /\ rs2 = readers'
  OBVIOUS
<1>3. rs \in Seq(ReaderSet) /\ rs2 = Updated(rs, r, x) /\ r \in 1..Len(rs)
  BY <1>1, <1>2 DEF Updated
<1>0. Change(rs, r, x, rs2)
  BY <1>1, <1>3, HoldersOfUpdate
<1>4. /\ rs2 \in Seq(ReaderSet) /\ Len(rs2) = Len(rs)
      /\ \A s \in 1..Len(rs) : rs2[s] = IF s = r THEN x ELSE rs[s]
      /\ (Holds(x) <=> Holds(rs[r])) =>
            Cardinality(HolderSet(rs2)) = Cardinality(HolderSet(rs))
      /\ Holds(x) /\ ~Holds(rs[r]) =>
            Cardinality(HolderSet(rs2)) = Cardinality(HolderSet(rs)) + 1
      /\ ~Holds(x) /\ Holds(rs[r]) =>
            Cardinality(HolderSet(rs2)) = Cardinality(HolderSet(rs)) - 1
  BY <1>0 DEF Change
<1>5. Cardinality(HolderSet(rs)) \in Nat
  BY <1>3, HoldersFinite
<1>6. sem \in Nat /\ sem + Cardinality(HolderSet(rs)) = Permits
  BY <1>2 DEF IndInv
<1>7. sem' \in Nat /\ sem' + Cardinality(HolderSet(rs2)) = Permits
  <2>1. CASE (Holds(x) <=> Holds(readers[r])) /\ sem' = sem
    BY <1>2, <1>4, <1>6, <2>1
  <2>2. CASE Holds(x) /\ ~Holds(readers[r]) /\ sem > 0 /\ sem' = sem - 1
    <3>1. Cardinality(HolderSet(rs2)) = Cardinality(HolderSet(rs)) + 1
      BY <1>2, <1>4, <2>2
    <3> QED BY <1>5, <1>6, <2>2, <3>1
  <2>3. CASE ~Holds(x) /\ Holds(readers[r]) /\ sem' = sem + 1
    <3>1. Cardinality(HolderSet(rs2)) = Cardinality(HolderSet(rs)) - 1
      BY <1>2, <1>4, <2>3
    <3> QED BY <1>5, <1>6, <2>3, <3>1
  <2> QED BY <2>1, <2>2, <2>3
<1>8. \A s \in 1..Len(rs2) : GoodReader(rs2[s]) /\ rs2[s].addr = rs[s].addr
  BY <1>2, <1>4 DEF IndInv
<1>9. ASSUME NEW s \in 1..Len(readers')
      PROVE  GoodReader(readers'[s]) /\ readers'[s].addr \in seen'
  BY <1>2, <1>4, <1>8, <1>9 DEF IndInv
<1>10. AskedOnce'
  BY <1>2, <1>4, <1>8 DEF IndInv, AskedOnce
<1>11. (sem \in Nat /\ sem + Cardinality(HolderSet(readers)) = Permits)'
  <2>1. HolderSet(readers)' = HolderSet(rs2)
    BY <1>2 DEF HolderSet
  <2> QED BY <1>7, <2>1
<1>12. (\A s \in 1..Len(readers) : GoodReader(readers[s]) /\ readers[s].addr \in seen)'
  BY <1>9
<1> QED BY <1>2, <1>4, <1>10, <1>11, <1>12 DEF IndInv, Outcomes

\* The future of a reader ends.
LEMMA EndReaderInd ==
    ASSUME IndInv, NEW r \in 1..Len(readers), NEW st \in {"failed", "found"},
           st = "found" => readers[r].result # None, Running(r), EndReader(r, st),
           UNCHANGED <<kind, stream, seen>>, outcome' \in {"searching", "panicked"}
    PROVE  IndInv'
<1>1. PICK o : o = readers[r]
  OBVIOUS
<1>2. PICK x : x = Ended(o, st)
  OBVIOUS
<1>3. GoodReader(o) /\ Holds(o) /\ (st = "found" => o.result # None)
  BY <1>1 DEF IndInv, Running, Holds
<1>4. GoodReader(x) /\ x.addr = o.addr /\ ~Holds(x)
  BY <1>1, <1>2, <1>3, EndedGood
<1>5. readers' = [readers EXCEPT ![r] = x] /\ sem' = sem + 1
  BY <1>1, <1>2 DEF EndReader, Ended
<1> QED BY <1>1, <1>3, <1>4, <1>5, ReaderUpdated

\* Every data that a peer may send has an index and a content.
LEMMA DataTypes ==
    ASSUME IndInv, NEW r \in 1..Len(readers), NEW d \in DataOf(r)
    PROVE  d.index \in Nat /\ d.content \in BOOLEAN
<1>1. CASE Kind(r) = "any"
  <2>1. d \in [index : 0..TotalPieces(MaxSize), len : 1..ChunkSize, content : BOOLEAN]
    BY <1>1 DEF DataOf
  <2>2. TotalPieces(MaxSize) \in Nat
    BY TotalPiecesNat, MetainfoAssumption
  <2> QED BY <2>1, <2>2
<1>2. CASE Kind(r) # "any"
  <2>1. /\ readers[r].reqs # <<>>
        /\ d = [index |-> Head(readers[r].reqs),
                len |-> piece_size(TrueSize, Head(readers[r].reqs)), content |-> TRUE]
    BY <1>2 DEF DataOf
  <2>2. readers[r].reqs \in Seq(Nat)
    BY DEF IndInv, GoodReader, ReaderSet
  <2>3. Head(readers[r].reqs) \in Nat
    BY <2>1, <2>2
  <2> QED BY <2>1, <2>3
<1> QED BY <1>1, <1>2

\* What arrived, in the form the lemmas have it.
LEMMA AnsweredIsTaken ==
    ASSUME IndInv, NEW r \in 1..Len(readers), NEW d, NEW o, o = readers[r]
    PROVE  \E sent \in Nat : Answered(r, d) = Taken(o, d, sent)
<1>1. o \in ReaderSet /\ o.sent \in Nat
  BY DEF IndInv, GoodReader, ReaderSet
<1>2. PICK sent \in Nat : sent = IF Kind(r) = "any" THEN o.sent + 1 ELSE o.sent
  BY <1>1
<1>3. Answered(r, d) = Taken(o, d, sent)
  BY <1>2 DEF Answered, Taken
<1> QED BY <1>3

\* A new address starts a reader, an address that was seen does not.
LEMMA NextAddrInd == IndInv /\ next_addr => IndInv'
<1> SUFFICES ASSUME IndInv, next_addr PROVE IndInv'
  OBVIOUS
<1>1. PICK a \in Addrs : /\ stream' = [stream EXCEPT !.yielded = @ + 1]
                         /\ seen' = seen \cup {a}
                         /\ readers' = IF a \in seen THEN readers
                                       ELSE Append(readers, NewReader(a))
  BY DEF next_addr
<1>2. stream' \in [yielded : 0..MaxStream, ended : BOOLEAN]
  <2>1. stream.yielded \in 0..MaxStream /\ stream.yielded < MaxStream /\ MaxStream \in Nat
    BY MetainfoAssumption DEF IndInv, next_addr
  <2>2. stream.yielded + 1 \in 0..MaxStream
    BY <2>1
  <2> QED BY <1>1, <2>2 DEF IndInv
<1>3. kind' = kind /\ sem' = sem /\ outcome' = outcome /\ outcome = "searching"
  BY DEF next_addr
<1>4. CASE a \in seen
  <2>1. readers' = readers /\ seen' = seen
    BY <1>1, <1>4
  <2>2. HolderSet(readers)' = HolderSet(readers)
    BY <2>1 DEF HolderSet
  <2>3. AskedOnce'
    BY <2>1 DEF IndInv, AskedOnce
  <2> QED BY <1>2, <1>3, <2>1, <2>2, <2>3 DEF IndInv
<1>5. CASE a \notin seen
  <2>1. PICK rs, x : rs = readers /\ x = NewReader(a)
    OBVIOUS
  <2>2. rs \in Seq(ReaderSet) /\ GoodReader(x) /\ x.addr = a /\ ~Holds(x) /\ x \in ReaderSet
    BY <2>1, NewReaderGood DEF IndInv, GoodReader
  <2>3. readers' = Append(rs, x)
    BY <1>1, <1>5, <2>1
  <2>4. /\ Append(rs, x) \in Seq(ReaderSet) /\ Len(Append(rs, x)) = Len(rs) + 1
        /\ \A s \in 1..Len(rs) : Append(rs, x)[s] = rs[s]
        /\ Append(rs, x)[Len(rs) + 1] = x
    BY <2>2, AppendProperties
  <2>5. PICK rs2 : rs2 = Append(rs, x)
    OBVIOUS
  <2>6. Len(rs) \in Nat /\ \A s \in 1..Len(rs2) :
           \/ s \in 1..Len(rs) /\ rs2[s] = rs[s]
           \/ s \notin 1..Len(rs) /\ s = Len(rs) + 1 /\ rs2[s] = x
    BY <2>2, <2>4, <2>5
  <2>7. \A s \in 1..Len(rs) : GoodReader(rs[s]) /\ rs[s].addr \in seen
    BY <2>1 DEF IndInv
  <2>8. \A s \in 1..Len(rs2) : GoodReader(rs2[s]) /\ rs2[s].addr \in seen \cup {a}
    BY <2>2, <2>6, <2>7
  <2>9. \A r, s \in 1..Len(rs2) : r # s /\ rs2[r].addr = rs2[s].addr =>
           r <= Len(InitialAddrs) /\ s <= Len(InitialAddrs)
    <3>1. \A r, s \in 1..Len(rs) : r # s /\ rs[r].addr = rs[s].addr =>
             r <= Len(InitialAddrs) /\ s <= Len(InitialAddrs)
      BY <2>1 DEF IndInv, AskedOnce
    <3>2. \A s \in 1..Len(rs) : rs[s].addr # x.addr
      BY <1>5, <2>2, <2>7
    <3> QED BY <2>6, <3>1, <3>2
  <2>10. HolderSet(rs2) = HolderSet(rs)
    BY <2>2, <2>5, HoldersOfAppend
  <2>11. readers' = rs2
    BY <2>3, <2>5
  <2>12. (\A r \in 1..Len(readers) : GoodReader(readers[r]) /\ readers[r].addr \in seen)'
    BY <1>1, <2>8, <2>11
  <2>13. AskedOnce'
    BY <2>9, <2>11 DEF AskedOnce
  <2>14. (sem \in Nat /\ sem + Cardinality(HolderSet(readers)) = Permits)'
    <3>1. HolderSet(readers)' = HolderSet(readers)
      BY <2>1, <2>10, <2>11 DEF HolderSet
    <3> QED BY <1>3, <3>1 DEF IndInv
  <2>15. readers' \in Seq(ReaderSet)
    BY <2>4, <2>5, <2>11
  <2> QED BY <1>1, <1>2, <1>3, <2>12, <2>13, <2>14, <2>15 DEF IndInv
<1> QED BY <1>4, <1>5

\* Data of a piece arrives.
LEMMA OnDataInd ==
    ASSUME IndInv, NEW r \in 1..Len(readers), on_data(r) PROVE IndInv'
<1>1. PICK d \in DataOf(r) :
         IF Answered(r, d).locked = None
           THEN /\ outcome' = "panicked"
                /\ readers' = [readers EXCEPT ![r] = [Answered(r, d) EXCEPT !.st = "panicked"]]
                /\ UNCHANGED sem
           ELSE /\ UNCHANGED outcome
                /\ \/ EndReader(r, "failed")
                   \/ /\ record_piece(Answered(r, d).locked, d).res = "more"
                      /\ readers' = [readers EXCEPT ![r] = [Answered(r, d) EXCEPT
                            !.locked = record_piece(Answered(r, d).locked, d).locked]]
                      /\ UNCHANGED sem
                   \/ /\ record_piece(Answered(r, d).locked, d).res = "ready"
                      /\ readers' = [readers EXCEPT ![r] = [Answered(r, d) EXCEPT
                            !.locked = None,
                            !.result = record_piece(Answered(r, d).locked, d).locked]]
                      /\ UNCHANGED sem
  BY DEF on_data
<1>2. PICK o : o = readers[r]
  OBVIOUS
<1>3. PICK sent \in Nat : Answered(r, d) = Taken(o, d, sent)
  BY <1>2, AnsweredIsTaken
<1>4. PICK now : now = Taken(o, d, sent)
  OBVIOUS
<1>5. /\ GoodReader(o) /\ o.st = "reading" /\ Holds(o) /\ outcome = "searching"
      /\ UNCHANGED <<kind, stream, seen>>
  BY <1>2 DEF IndInv, on_data, Holds
<1>6. d.index \in Nat /\ d.content \in BOOLEAN
  BY DataTypes
<1>7. now.locked = o.locked
  <2>1. TakenOK(o, d, now)
    BY <1>4, <1>5, <1>6, TakenFacts
  <2> QED BY <2>1 DEF TakenOK
<1>8. CASE now.locked = None
  <2>1. PICK x : x = Moved(now, "panicked")
    OBVIOUS
  <2>2. GoodReader(x) /\ x.addr = o.addr /\ x.st = "panicked"
    <3>1. GoodReader(o) /\ o.st = "reading" /\ o.locked = None /\ d.index \in Nat
      BY <1>5, <1>6, <1>7, <1>8
    <3> QED BY <1>4, <2>1, <3>1, PanicGood
  <2>3. readers' = [readers EXCEPT ![r] = x] /\ sem' = sem /\ outcome' = "panicked"
    BY <1>1, <1>3, <1>4, <1>8, <2>1 DEF Moved
  <2>4. Holds(x)
    BY <2>2 DEF Holds
  <2> QED BY <1>2, <1>5, <2>2, <2>3, <2>4, ReaderUpdated
<1>9. CASE now.locked # None /\ EndReader(r, "failed") /\ UNCHANGED outcome
  BY <1>2, <1>5, <1>9, EndReaderInd DEF Running
<1>10. CASE /\ now.locked # None /\ UNCHANGED <<outcome, sem>>
            /\ record_piece(o.locked, d).res = "more"
            /\ readers' = [readers EXCEPT ![r] = Recorded(now, record_piece(o.locked, d).locked)]
  <2>1. PICK x : x = Recorded(now, record_piece(o.locked, d).locked)
    OBVIOUS
  <2>2. GoodReader(x) /\ x.addr = o.addr /\ x.st = "reading"
    <3>1. GoodReader(o) /\ o.st = "reading" /\ d.index \in Nat /\ d.content \in BOOLEAN
      BY <1>5, <1>6
    <3>2. o.locked # None /\ record_piece(o.locked, d).res = "more"
      BY <1>7, <1>10
    <3> QED BY <1>4, <2>1, <3>1, <3>2, MoreGood
  <2>3. Holds(x)
    BY <2>2 DEF Holds
  <2>4. readers' = [readers EXCEPT ![r] = x] /\ sem' = sem /\ outcome' = "searching"
    BY <1>5, <1>10, <2>1
  <2> QED BY <1>2, <1>5, <2>2, <2>3, <2>4, ReaderUpdated
<1>11. CASE /\ now.locked # None /\ UNCHANGED <<outcome, sem>>
            /\ record_piece(o.locked, d).res = "ready"
            /\ readers' = [readers EXCEPT ![r] = Delivered(now, record_piece(o.locked, d).locked)]
  <2>1. PICK x : x = Delivered(now, record_piece(o.locked, d).locked)
    OBVIOUS
  <2>2. GoodReader(x) /\ x.addr = o.addr /\ x.st = "reading"
    <3>1. GoodReader(o) /\ o.st = "reading" /\ d.index \in Nat /\ d.content \in BOOLEAN
      BY <1>5, <1>6
    <3>2. o.locked # None /\ record_piece(o.locked, d).res = "ready"
      BY <1>7, <1>11
    <3> QED BY <1>4, <2>1, <3>1, <3>2, ReadyGood
  <2>3. Holds(x)
    BY <2>2 DEF Holds
  <2>4. readers' = [readers EXCEPT ![r] = x] /\ sem' = sem /\ outcome' = "searching"
    BY <1>5, <1>11, <2>1
  <2> QED BY <1>2, <1>5, <2>2, <2>3, <2>4, ReaderUpdated
<1> QED BY <1>1, <1>3, <1>4, <1>7, <1>8, <1>9, <1>10, <1>11 DEF Recorded, Delivered

\* The other steps of a reader.
LEMMA ReaderStepInd ==
    ASSUME IndInv, NEW r \in 1..Len(readers), ReaderStep(r) PROVE IndInv'
<1>1. PICK o : o = readers[r]
  OBVIOUS
<1>2. GoodReader(o) /\ readers \in Seq(ReaderSet) /\ o \in ReaderSet
  BY <1>1 DEF IndInv, GoodReader
<1>3. CASE acquire(r)
  <2>1. PICK x : x = Moved(o, "connecting")
    OBVIOUS
  <2>2. o.st = "waiting" /\ sem > 0 /\ sem' = sem - 1 /\ outcome' = "searching"
        /\ UNCHANGED <<kind, stream, seen>> /\ readers' = [readers EXCEPT ![r] = x]
    BY <1>1, <1>3, <2>1 DEF acquire, Moved
  <2>3. GoodReader(x) /\ x.addr = o.addr /\ x.st = "connecting"
    BY <1>2, <2>1, <2>2, MovedGood
  <2>4. Holds(x) /\ ~Holds(o)
    BY <2>2, <2>3 DEF Holds
  <2> QED BY <1>1, <2>2, <2>3, <2>4, ReaderUpdated
<1>4. CASE on_handshake(r)
  <2>1. CASE EndReader(r, "failed")
    BY <1>4, <2>1, EndReaderInd DEF on_handshake, Running
  <2>2. CASE readers' = [readers EXCEPT ![r].st = "reading"] /\ UNCHANGED sem
    <3>1. PICK x : x = Moved(o, "reading")
      OBVIOUS
    <3>2. o.st = "connecting" /\ sem' = sem /\ outcome' = "searching"
          /\ UNCHANGED <<kind, stream, seen>> /\ readers' = [readers EXCEPT ![r] = x]
      BY <1>1, <1>4, <2>2, <3>1 DEF on_handshake, Moved
    <3>3. GoodReader(x) /\ x.addr = o.addr /\ x.st = "reading"
      BY <1>2, <3>1, <3>2, MovedGood
    <3>4. Holds(x) /\ Holds(o)
      BY <3>2, <3>3 DEF Holds
    <3> QED BY <1>1, <3>2, <3>3, <3>4, ReaderUpdated
  <2> QED BY <1>4, <2>1, <2>2 DEF on_handshake
<1>5. CASE on_extended_handshake(r)
  <2>1. o.st = "reading" /\ outcome' = "searching" /\ UNCHANGED <<kind, stream, seen>>
    BY <1>1, <1>5 DEF on_extended_handshake
  <2>2. PICK size \in Nat :
           IF size > MaxSize THEN EndReader(r, "failed")
           ELSE /\ readers' = [readers EXCEPT
                    ![r].locked = NewLocked(size),
                    ![r].handshakes = @ + 1,
                    ![r].reqs = @ \o [i \in 1..TotalPieces(size) |-> i - 1]]
                /\ UNCHANGED sem
    <3>1. Sizes \subseteq Nat /\ TrueSize \in Nat
      BY MetainfoAssumption
    <3> QED BY <1>5, <3>1 DEF on_extended_handshake
  <2>3. CASE size > MaxSize
    BY <1>1, <2>1, <2>2, <2>3, EndReaderInd DEF Running
  <2>4. CASE ~(size > MaxSize)
    <3>1. PICK x : x = Greeted(o, size)
      OBVIOUS
    <3>2. size <= MaxSize
      BY <2>4, MetainfoAssumption
    <3>3. GoodReader(x) /\ x.addr = o.addr /\ x.st = "reading"
      BY <1>2, <2>1, <3>1, <3>2, HandshakeGood
    <3>4. readers' = [readers EXCEPT ![r] = x] /\ sem' = sem
      BY <1>1, <1>2, <2>2, <2>4, <3>1 DEF Greeted, ReaderSet
    <3>5. Holds(x) /\ Holds(o)
      BY <2>1, <3>3 DEF Holds
    <3> QED BY <1>1, <2>1, <3>3, <3>4, <3>5, ReaderUpdated
  <2> QED BY <2>3, <2>4
<1>6. CASE on_data(r)
  BY <1>6, OnDataInd
<1>7. CASE result_reader(r)
  BY <1>7, EndReaderInd DEF result_reader, Running
<1>8. CASE reader_done(r)
  <2>1. CASE o.st = "found"
    <3>1. UNCHANGED <<readers, kind, stream, seen, sem>> /\ outcome' = "found"
      BY <1>1, <1>8, <2>1 DEF reader_done
    <3>2. HolderSet(readers)' = HolderSet(readers)
      BY <3>1 DEF HolderSet
    <3>3. AskedOnce'
      BY <3>1 DEF IndInv, AskedOnce
    <3>4. (\E s \in 1..Len(readers) : readers[s].st = "found")'
      BY <1>1, <2>1, <3>1
    <3> QED BY <3>1, <3>2, <3>3, <3>4 DEF IndInv, Outcomes
  <2>2. CASE o.st # "found"
    <3>1. PICK x : x = Moved(o, "gone")
      OBVIOUS
    <3>2. o.st = "failed" /\ sem' = sem /\ outcome' = "searching"
          /\ UNCHANGED <<kind, stream, seen>> /\ readers' = [readers EXCEPT ![r] = x]
      BY <1>1, <1>8, <2>2, <3>1 DEF reader_done, Moved
    <3>3. GoodReader(x) /\ x.addr = o.addr /\ x.st = "gone"
      BY <1>2, <3>1, <3>2, MovedGood
    <3>4. ~Holds(x) /\ ~Holds(o)
      BY <3>2, <3>3 DEF Holds
    <3> QED BY <1>1, <3>2, <3>3, <3>4, ReaderUpdated
  <2> QED BY <2>1, <2>2
<1>9. CASE connection_ends(r)
  BY <1>9, EndReaderInd DEF connection_ends
<1> QED BY <1>3, <1>4, <1>5, <1>6, <1>7, <1>8, <1>9 DEF ReaderStep

\* Every step keeps the invariant.
LEMMA NextInd == IndInv /\ [Next]_vars => IndInv'
<1> SUFFICES ASSUME IndInv, [Next]_vars PROVE IndInv'
  OBVIOUS
<1>1. CASE next_addr
  BY <1>1, NextAddrInd
<1>2. CASE stream_ends \/ channel_closed \/ UNCHANGED vars
  <2>1. UNCHANGED <<kind, seen, readers, sem>>
    BY <1>2 DEF stream_ends, channel_closed, vars
  <2>2. stream' \in [yielded : 0..MaxStream, ended : BOOLEAN]
    BY <1>2 DEF stream_ends, channel_closed, vars, IndInv
  <2>3. outcome' \in Outcomes /\ (outcome' = "found" => outcome = "found")
    BY <1>2 DEF stream_ends, channel_closed, vars, IndInv, Outcomes
  <2>4. HolderSet(readers)' = HolderSet(readers)
    BY <2>1 DEF HolderSet
  <2>5. AskedOnce'
    BY <2>1 DEF IndInv, AskedOnce
  <2> QED BY <2>1, <2>2, <2>3, <2>4, <2>5 DEF IndInv
<1>3. CASE \E r \in 1..Len(readers) : ReaderStep(r)
  BY <1>3, ReaderStepInd
<1> QED BY <1>1, <1>2, <1>3 DEF Next

-----------------------------------------------------------------------------
(* The theorems *)

\* The info that add_torrent goes on with, and every info that waits in a oneshot, is
\* complete and has the hash of the magnet link, whatever the peers send
\* (record_piece, Handler::on_received_message).
THEOREM MetadataIsRight == Spec => []InfoIsRight
<1>1. Spec => []IndInv
  BY InitInd, NextInd, PTL DEF Spec
<1> QED BY <1>1, IndInvImpliesRight, PTL

\* One reader per address that the stream yields, permits neither lost nor given twice,
\* and no reader panics unless its peer sends what was not requested or repeats its
\* extended handshake (read_metainfo_from_peer_receiver, Handler::on_received_message).
THEOREM MetadataReadersSound == Spec => []ReadersSound
<1>1. Spec => []IndInv
  BY InitInd, NextInd, PTL DEF Spec
<1> QED BY <1>1, IndInvImpliesSound, PTL
=============================================================================
