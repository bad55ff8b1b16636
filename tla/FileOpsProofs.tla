---------------------------- MODULE FileOpsProofs ----------------------------
(***************************************************************************)
(* FileOps, for every list of files, every length of pieces and chunks and *)
(* whatever the files hold: the chunks tile the pieces, the initial check  *)
(* is exact and covers the selection, and every byte is written to its     *)
(* place and found there again.                                            *)
(***************************************************************************)
EXTENDS FileOps, FiniteSetTheorems, SequenceTheorems, WellFoundedInduction, TLAPS

-----------------------------------------------------------------------------
(* Recursion over 0..n *)

\* A set of naturals has a least element.
LEMMA LeastOf ==
    ASSUME NEW T \in SUBSET Nat, T # {}
    PROVE  \E x \in T : \A y \in T : x <= y
<1> DEFINE R == OpToRel(<, Nat)
<1>1. \A x, y \in Nat : x < y => <<x, y>> \in R
  BY DEF OpToRel
<1>2. IsWellFoundedOn(R, Nat)
  BY NatLessThanWellFounded
<1> HIDE DEF R
<1>3. PICK x \in T : \A y \in T : ~(<<y, x>> \in R)
  BY <1>2, WFMin
<1>4. ASSUME NEW y \in T PROVE x <= y
  <2>1. x \in Nat /\ y \in Nat
    OBVIOUS
  <2>2. ~(y < x)
    BY <1>1, <1>3, <2>1
  <2> QED BY <2>1, <2>2
<1> QED BY <1>4

\* What holds of 0 and is handed from k - 1 to k holds up to n.
LEMMA UpTo ==
    ASSUME NEW n \in Nat, NEW T, 0 \in T, \A k \in 1..n : k - 1 \in T => k \in T
    PROVE  \A k \in 0..n : k \in T
<1> DEFINE B == {k \in 0..n : k \notin T}
<1> SUFFICES ASSUME B # {} PROVE FALSE
  OBVIOUS
<1>1. B \in SUBSET Nat
  OBVIOUS
<1>2. PICK k \in B : \A m \in B : k <= m
  BY <1>1, LeastOf
<1>3. k # 0 /\ k \in 1..n /\ k - 1 \in 0..n
  BY <1>2
<1>4. k - 1 \notin B
  BY <1>2, <1>3
<1> QED BY <1>2, <1>3, <1>4

\* A function that is defined by recursion over 0..n, with one step F[k] per k.
Recurs(g, F, c, n) == g[0] = c /\ \A k \in 1..n : g[k] = F[k][g[k - 1]]

LEMMA RecursionExists ==
    ASSUME NEW V, NEW c \in V, NEW n \in Nat, NEW F \in [1..n -> [V -> V]]
    PROVE  \E g \in [0..n -> V] : Recurs(g, F, c, n)
<1> DEFINE T == {m \in 0..n : \E g \in [0..m -> V] : Recurs(g, F, c, m)}
<1>1. 0 \in T
  <2>1. Recurs([k \in 0..0 |-> c], F, c, 0)
    BY DEF Recurs
  <2> QED BY <2>1
<1>2. ASSUME NEW m \in 1..n, m - 1 \in T PROVE m \in T
  <2>1. PICK g \in [0..(m - 1) -> V] : Recurs(g, F, c, m - 1)
    BY <1>2
  <2> DEFINE h == [i \in 0..m |-> IF i = m THEN F[m][g[m - 1]] ELSE g[i]]
  <2>2. m - 1 \in 0..(m - 1) /\ m \in Nat /\ m # 0 /\ m \in 0..n
    BY <1>2
  <2>3. F[m] \in [V -> V] /\ g[m - 1] \in V
    BY <2>2
  <2>4. h \in [0..m -> V]
    BY <2>2, <2>3
  <2>5. h[0] = c
    BY <2>1, <2>2 DEF Recurs
  <2>6. ASSUME NEW k \in 1..m PROVE h[k] = F[k][h[k - 1]]
    <3>1. k - 1 \in 0..(m - 1) /\ k - 1 \in 0..m /\ k - 1 # m
      BY <2>2
    <3>2. CASE k = m
      BY <2>2, <3>1, <3>2
    <3>3. CASE k # m
      <4>1. k \in 1..(m - 1) /\ k \in 0..m
        BY <2>2, <3>3
      <4>2. g[k] = F[k][g[k - 1]]
        BY <2>1, <4>1 DEF Recurs
      <4> QED BY <3>1, <3>3, <4>1, <4>2
    <3> QED BY <3>2, <3>3
  <2>7. Recurs(h, F, c, m)
    BY <2>5, <2>6 DEF Recurs
  <2> QED BY <2>2, <2>4, <2>7
<1> HIDE DEF T
<1>3. \A k \in 0..n : k \in T
  BY <1>1, <1>2, UpTo
<1>4. n \in 0..n
  OBVIOUS
<1> QED BY <1>3, <1>4 DEF T

-----------------------------------------------------------------------------
(* Division *)

LEMMA DivFacts ==
    ASSUME NEW a \in Nat, NEW b \in Nat \ {0}
    PROVE  a \div b \in Nat /\ a % b \in 0..(b - 1) /\ a = b * (a \div b) + (a % b)
OBVIOUS

LEMMA DivExists ==
    ASSUME NEW a \in Nat, NEW b \in Nat \ {0}
    PROVE  \E q \in Nat, r \in 0..(b - 1) : a = b * q + r
BY DivFacts

LEMMA DivUnique ==
    ASSUME NEW a \in Nat, NEW b \in Nat \ {0}, NEW q \in Int, NEW r \in 0..(b - 1),
           a = b * q + r
    PROVE  a \div b = q /\ a % b = r
OBVIOUS

LEMMA TimesOrder ==
    ASSUME NEW a \in Nat, NEW b \in Nat, NEW c \in Nat
    PROVE  /\ a * c \in Nat /\ (a + 1) * c = a * c + c
           /\ a <= b => a * c <= b * c
           /\ a < b => a * c + c <= b * c
<1>1. a * c \in Nat /\ (a + 1) * c = a * c + c
  OBVIOUS
<1>2. \A x, y \in Nat : x <= y => x * c <= y * c
  OBVIOUS
<1>3. a < b => (a + 1) * c <= b * c
  BY <1>2
<1> QED BY <1>1, <1>2, <1>3

\* A number below k * m is in one of k blocks of m numbers.
LEMMA InBlock ==
    ASSUME NEW x \in Nat, NEW k \in Nat, NEW m \in Nat, x < k * m
    PROVE  \E p \in 0..(k - 1), w \in Nat : w = p * m /\ w <= x /\ x < w + m
<1>1. k * m \in Nat
  OBVIOUS
<1>2. m # 0
  BY <1>1
<1>3. PICK b \in Nat \ {0} : b = m
  BY <1>2
<1>4. PICK p \in Nat, y \in 0..(b - 1) : x = b * p + y
  BY DivExists
<1>5. b * p = p * b /\ p * b \in Nat
  OBVIOUS
<1>6. PICK w \in Nat : w = p * m /\ x = w + y
  BY <1>3, <1>4, <1>5
<1>7. ~(k <= p)
  <2>1. k <= p => k * m <= p * m
    BY TimesOrder
  <2> QED BY <1>1, <1>6, <2>1
<1>8. p \in 0..(k - 1) /\ w <= x /\ x < w + m
  BY <1>3, <1>6, <1>7
<1> QED BY <1>6, <1>8

\* ceil_div(a, b) is the least c with a <= c * b, and nothing else is.
LEMMA CeilFacts ==
    ASSUME NEW a \in Nat, NEW b \in Nat \ {0}
    PROVE  LET c == ceil_div(a, b) IN
           c \in Nat /\ a <= c * b /\ c * b < a + b /\ (a > 0 => c > 0)
<1>1. PICK z \in Nat : z = a + b - 1
  OBVIOUS
<1>2. PICK q \in Nat, r \in 0..(b - 1) : q = z \div b /\ r = z % b /\ z = b * q + r
  BY DivFacts
<1>3. ceil_div(a, b) = q
  BY <1>1, <1>2 DEF ceil_div
<1>4. b * q = q * b /\ q * b \in Nat
  OBVIOUS
<1>5. PICK w \in Nat : w = q * b /\ z = w + r
  BY <1>2, <1>4
<1>6. a <= w /\ w < a + b
  BY <1>1, <1>5
<1>7. q = 0 => w = 0
  BY <1>5
<1> QED BY <1>3, <1>5, <1>6, <1>7

LEMMA CeilUnique ==
    ASSUME NEW a \in Nat, NEW b \in Nat \ {0}, NEW c \in Nat, a <= c * b, c * b < a + b
    PROVE  ceil_div(a, b) = c
<1>1. PICK d \in Nat : d = ceil_div(a, b) /\ a <= d * b /\ d * b < a + b
  BY CeilFacts
<1>2. d * b \in Nat /\ c * b \in Nat
  OBVIOUS
<1>3. ~(c < d)
  <2>1. c < d => c * b + b <= d * b
    BY TimesOrder
  <2> QED BY <1>1, <1>2, <2>1
<1>4. ~(d < c)
  <2>1. d < c => d * b + b <= c * b
    BY TimesOrder
  <2> QED BY <1>1, <1>2, <2>1
<1> QED BY <1>1, <1>3, <1>4

-----------------------------------------------------------------------------
(* The arithmetic of pieces and chunks *)

\* What Lengths::new makes of the length of a torrent.
LengthsOK(L) ==
    /\ L.total_length \in Nat \ {0}
    /\ L.piece_length \in Nat \ {0} /\ L.chunk_length \in Nat \ {0}
    /\ L.chunk_length <= L.piece_length
    /\ L.last_piece_id \in Nat /\ L.last_piece_length \in 1..L.piece_length
    /\ L.last_piece_id * L.piece_length + L.last_piece_length = L.total_length
    /\ L.max_chunks_per_piece = ceil_div(L.piece_length, L.chunk_length)

LEMMA NewLengthsOK ==
    ASSUME NEW total \in Nat, NEW pl \in Nat \ {0}, NEW cl \in Nat \ {0},
           IsValid(total, pl, cl)
    PROVE  /\ LengthsOK(NewLengths(total, pl, cl))
           /\ NewLengths(total, pl, cl).total_length = total
<1>1. total \in Nat \ {0} /\ cl <= pl
  BY DEF IsValid
<1>2. PICK c \in Nat : c = ceil_div(total, pl) /\ total <= c * pl /\ c * pl < total + pl /\ c > 0
  BY <1>1, CeilFacts
<1>3. PICK last \in Nat : last = c - 1
  BY <1>2
<1>4. c * pl = last * pl + pl /\ last * pl \in Nat
  BY <1>3, TimesOrder
<1>5. PICK w \in Nat : w = last * pl
  BY <1>4
<1>6. PICK r \in 1..pl : w + r = total
  BY <1>1, <1>2, <1>4, <1>5
<1>7. last_element_size(total, pl) = r
  <2>1. CASE r = pl
    <3>1. total = pl * c + 0 /\ 0 \in 0..(pl - 1)
      BY <1>4, <1>5, <1>6, <2>1
    <3>2. PICK q \in Int, x \in 0..(pl - 1) : q = c /\ x = 0 /\ total = pl * q + x
      BY <3>1
    <3>3. total % pl = 0
      BY <3>2, DivUnique
    <3> QED BY <2>1, <3>3 DEF last_element_size
  <2>2. CASE r # pl
    <3>1. total = pl * last + r /\ r \in 0..(pl - 1) /\ r # 0
      BY <1>5, <1>6, <2>2
    <3>2. PICK q \in Int, x \in 0..(pl - 1) : q = last /\ x = r /\ total = pl * q + x
      BY <3>1
    <3>3. total % pl = r
      BY <3>2, DivUnique
    <3> QED BY <3>1, <3>3 DEF last_element_size
  <2> QED BY <2>1, <2>2
<1>8. PICK L : L = NewLengths(total, pl, cl)
  OBVIOUS
<1>9. /\ L.total_length = total /\ L.piece_length = pl /\ L.chunk_length = cl
      /\ L.max_chunks_per_piece = ceil_div(pl, cl)
      /\ L.last_piece_id = last /\ L.last_piece_length = r
  BY <1>2, <1>3, <1>7, <1>8 DEF NewLengths
<1> QED BY <1>1, <1>5, <1>6, <1>8, <1>9 DEF LengthsOK

\* The pieces lie one behind the other, and end with the torrent.
LEMMA PieceFacts ==
    ASSUME NEW L, LengthsOK(L), NEW p \in PieceIds(L)
    PROVE  /\ p \in Nat /\ piece_offset(L, p) \in Nat
           /\ piece_length(L, p) \in 1..L.piece_length
           /\ p = 0 => piece_offset(L, p) = 0
           /\ p # L.last_piece_id =>
                 /\ p + 1 \in PieceIds(L)
                 /\ piece_offset(L, p + 1) = piece_offset(L, p) + piece_length(L, p)
           /\ p = L.last_piece_id => piece_offset(L, p) + piece_length(L, p) = L.total_length
           /\ piece_offset(L, p) + piece_length(L, p) <= L.total_length
           /\ \A q \in PieceIds(L) :
                 p < q => piece_offset(L, p) + piece_length(L, p) <= piece_offset(L, q)
<1>1. PICK pl \in Nat \ {0} : pl = L.piece_length
  BY DEF LengthsOK
<1>2. PICK last \in Nat : last = L.last_piece_id
  BY DEF LengthsOK
<1>3. PICK r \in 1..pl : r = L.last_piece_length
  BY <1>1 DEF LengthsOK
<1>4. last * pl + r = L.total_length
  BY <1>1, <1>2, <1>3 DEF LengthsOK
<1>5. p \in 0..last /\ p \in Nat /\ PieceIds(L) = 0..last
  BY <1>2 DEF PieceIds
<1>6. piece_length(L, p) = (IF p = last THEN r ELSE pl) /\ \A q : piece_offset(L, q) = q * pl
  BY <1>1, <1>2, <1>3 DEF piece_length, piece_offset
<1>7. p * pl \in Nat /\ last * pl \in Nat /\ (p + 1) * pl = p * pl + pl
  BY <1>5, TimesOrder
<1>8. ASSUME NEW q \in 0..last, p < q
      PROVE  p * pl + pl <= q * pl /\ p # last /\ q * pl \in Nat
  BY <1>5, <1>8, TimesOrder
<1>9. p = 0 => p * pl = 0
  OBVIOUS
<1>10. p # last => p + 1 \in 0..last
  BY <1>5
<1>11. p * pl + piece_length(L, p) <= L.total_length
  <2>1. CASE p = last
    BY <1>4, <1>6, <2>1
  <2>2. CASE p # last
    <3>1. p < last /\ last \in 0..last
      BY <1>5, <2>2
    <3>2. p * pl + pl <= last * pl
      BY <1>8, <3>1
    <3> QED BY <1>4, <1>6, <1>7, <2>2, <3>2
  <2> QED BY <2>1, <2>2
<1>12. piece_length(L, p) \in 1..pl
  BY <1>6
<1>13. ASSUME NEW q \in 0..last, p < q PROVE p * pl + piece_length(L, p) <= q * pl
  BY <1>6, <1>8, <1>13
<1> QED BY <1>1, <1>2, <1>4, <1>5, <1>6, <1>7, <1>9, <1>10, <1>11, <1>12, <1>13

\* The number of chunks of a piece.
LEMMA ChunkCount ==
    ASSUME NEW L, LengthsOK(L), NEW p \in PieceIds(L)
    PROVE  LET n == chunks_per_piece(L, p) IN
           /\ n \in Nat \ {0} /\ L.max_chunks_per_piece \in Nat
           /\ piece_length(L, p) <= n * L.chunk_length
           /\ n * L.chunk_length < piece_length(L, p) + L.chunk_length
           /\ n <= L.max_chunks_per_piece
           /\ p # L.last_piece_id => n = L.max_chunks_per_piece
<1>1. PICK pl \in Nat \ {0}, cl \in Nat \ {0} : pl = L.piece_length /\ cl = L.chunk_length
  BY DEF LengthsOK
<1>2. PICK len \in Nat \ {0} : len = piece_length(L, p) /\ len <= pl
  BY <1>1, PieceFacts
<1>3. PICK m \in Nat : m = L.max_chunks_per_piece /\ pl <= m * cl /\ m * cl < pl + cl
  BY <1>1, CeilFacts DEF LengthsOK
<1>4. PICK n \in Nat : n = ceil_div(len, cl) /\ len <= n * cl /\ n * cl < len + cl /\ n > 0
  <2>1. len \in Nat /\ len > 0
    BY <1>2
  <2> QED BY <2>1, CeilFacts
<1>5. chunks_per_piece(L, p) = n
  BY <1>1, <1>2, <1>4 DEF chunks_per_piece, piece_length, LengthsOK
<1>6. n <= m
  <2>1. m < n => m * cl + cl <= n * cl
    BY TimesOrder
  <2>2. m * cl \in Nat /\ n * cl \in Nat
    OBVIOUS
  <2> QED BY <1>2, <1>3, <1>4, <2>1, <2>2
<1>7. p # L.last_piece_id => n = m
  BY <1>3, <1>5 DEF chunks_per_piece
<1> QED BY <1>1, <1>2, <1>3, <1>4, <1>5, <1>6, <1>7

\* Chunk k of piece p.
ChunkAt(L, p, k) ==
    [piece_index    |-> p,
     chunk_index    |-> k,
     absolute_index |-> p * L.max_chunks_per_piece + k,
     size           |-> Least(piece_length(L, p) - k * L.chunk_length, L.chunk_length),
     offset         |-> k * L.chunk_length]

\* What is left of len bytes before chunk k.
LeftAt(len, cl, k) == IF k * cl < len THEN len - k * cl ELSE 0

LEMMA LeftFacts ==
    ASSUME NEW len \in Nat, NEW cl \in Nat
    PROVE  /\ LeftAt(len, cl, 0) = len
           /\ \A j \in Nat :
                 LeftAt(len, cl, j + 1) = LeftAt(len, cl, j) - Least(LeftAt(len, cl, j), cl)
<1>1. LeftAt(len, cl, 0) = len
  BY DEF LeftAt
<1>2. ASSUME NEW j \in Nat
      PROVE  LeftAt(len, cl, j + 1) = LeftAt(len, cl, j) - Least(LeftAt(len, cl, j), cl)
  <2>1. (j + 1) * cl = j * cl + cl /\ j * cl \in Nat
    BY TimesOrder
  <2>2. PICK w \in Nat : w = j * cl /\ (j + 1) * cl = w + cl
    BY <2>1
  <2>3. PICK a \in Nat : a = IF w < len THEN len - w ELSE 0
    <3>1. (IF w < len THEN len - w ELSE 0) \in Nat
      OBVIOUS
    <3> QED BY <3>1
  <2>4. a - Least(a, cl) = IF w + cl < len THEN len - (w + cl) ELSE 0
    BY <2>3 DEF Least
  <2>5. LeftAt(len, cl, j) = a /\ LeftAt(len, cl, j + 1) = IF w + cl < len THEN len - (w + cl) ELSE 0
    BY <2>2, <2>3 DEF LeftAt
  <2> QED BY <2>4, <2>5
<1> QED BY <1>1, <1>2

\* The scan of iter_chunk_infos goes through the chunks of the piece.
LEMMA InfosFacts ==
    ASSUME NEW L, LengthsOK(L), NEW p \in PieceIds(L)
    PROVE  ChunkInfos(L, p) = {ChunkAt(L, p, k) : k \in 0..(chunks_per_piece(L, p) - 1)}
<1>1. PICK cl \in Nat \ {0} : cl = L.chunk_length
  BY DEF LengthsOK
<1>2. PICK len \in Nat \ {0} : len = piece_length(L, p)
  BY PieceFacts DEF LengthsOK
<1>3. PICK n \in Nat \ {0} : n = chunks_per_piece(L, p) /\ len <= n * cl /\ n * cl < len + cl
  BY <1>1, <1>2, ChunkCount
<1> DEFINE D(f) == [k \in 0..chunks_per_piece(L, p) |->
                        IF k = 0 THEN piece_length(L, p)
                        ELSE f[k - 1] - Least(f[k - 1], L.chunk_length)]
           rem == CHOOSE f : f = D(f)
           F == [k \in 1..n |-> [v \in Nat |-> v - Least(v, cl)]]
<1>4. PICK g \in [0..n -> Nat] : Recurs(g, F, len, n)
  <2>1. \A v \in Nat : v - Least(v, cl) \in Nat
    BY DEF Least
  <2>2. F \in [1..n -> [Nat -> Nat]]
    BY <2>1
  <2> HIDE DEF F
  <2> QED BY <2>2, RecursionExists
<1>5. ASSUME NEW k \in 1..n
      PROVE  k - 1 \in 0..n /\ g[k] = g[k - 1] - Least(g[k - 1], cl)
  <2>1. k - 1 \in 0..n /\ g[k - 1] \in Nat
    OBVIOUS
  <2>2. g[k] = F[k][g[k - 1]]
    BY <1>4 DEF Recurs
  <2> QED BY <2>1, <2>2
<1>6. g = D(g)
  <2>1. g[0] = len
    BY <1>4 DEF Recurs
  <2>2. \A k \in 0..n : k # 0 => k \in 1..n
    OBVIOUS
  <2>3. \A k \in 0..n : g[k] = IF k = 0 THEN len ELSE g[k - 1] - Least(g[k - 1], cl)
    BY <1>5, <2>1, <2>2
  <2> QED BY <1>1, <1>2, <1>3, <2>3
<1>0. rem = D(rem)
  BY <1>6, Zenon
<1>11. ChunkInfos(L, p) =
          {[piece_index    |-> p,
            chunk_index    |-> k,
            absolute_index |-> p * L.max_chunks_per_piece + k,
            size           |-> Least(rem[k], L.chunk_length),
            offset         |-> piece_length(L, p) - rem[k]] :
               k \in {k \in 0..chunks_per_piece(L, p) : rem[k] > 0}}
  BY Zenon DEF ChunkInfos
<1> HIDE DEF rem
<1>7. \A k \in 0..n : rem[k] = IF k = 0 THEN len ELSE rem[k - 1] - Least(rem[k - 1], cl)
  BY <1>0, <1>1, <1>2, <1>3
<1>8. \A k \in 0..n : rem[k] = IF k * cl < len THEN len - k * cl ELSE 0
  <2> DEFINE T == {k \in 0..n : rem[k] = LeftAt(len, cl, k)}
  <2>1. 0 \in T
    <3>1. rem[0] = len
      BY <1>7
    <3>2. LeftAt(len, cl, 0) = len
      BY LeftFacts
    <3>3. 0 \in 0..n
      OBVIOUS
    <3> QED BY <3>1, <3>2, <3>3
  <2>2. ASSUME NEW k \in 1..n, k - 1 \in T PROVE k \in T
    <3>1. PICK j \in Nat : j = k - 1 /\ j + 1 = k
      OBVIOUS
    <3>2. k \in 0..n /\ k # 0
      OBVIOUS
    <3>3. rem[k] = rem[j] - Least(rem[j], cl)
      BY <1>7, <3>1, <3>2
    <3>4. rem[j] = LeftAt(len, cl, j)
      BY <2>2, <3>1
    <3>5. LeftAt(len, cl, k) = LeftAt(len, cl, j) - Least(LeftAt(len, cl, j), cl)
      BY <3>1, LeftFacts
    <3> QED BY <3>2, <3>3, <3>4, <3>5
  <2> HIDE DEF T
  <2>3. \A k \in 0..n : k \in T
    BY <2>1, <2>2, UpTo
  <2> QED BY <2>3 DEF T, LeftAt
<1>9. ASSUME NEW k \in 0..n PROVE k * cl < len <=> k \in 0..(n - 1)
  <2>1. k * cl \in Nat /\ n * cl \in Nat /\ (k < n => k * cl + cl <= n * cl)
    BY TimesOrder
  <2>2. k = n => k * cl = n * cl
    OBVIOUS
  <2> QED BY <1>3, <2>1, <2>2
<1>10. {k \in 0..n : rem[k] > 0} = 0..(n - 1)
  <2>1. ASSUME NEW k \in 0..n PROVE rem[k] > 0 <=> k \in 0..(n - 1)
    <3>1. PICK w \in Nat : w = k * cl
      OBVIOUS
    <3>2. rem[k] = IF w < len THEN len - w ELSE 0
      BY <1>8, <3>1
    <3>3. w < len <=> k \in 0..(n - 1)
      BY <1>9, <3>1
    <3> QED BY <3>2, <3>3
  <2> QED BY <2>1
<1>12. ASSUME NEW k \in 0..(n - 1)
       PROVE  ChunkAt(L, p, k) = [piece_index    |-> p,
                                  chunk_index    |-> k,
                                  absolute_index |-> p * L.max_chunks_per_piece + k,
                                  size           |-> Least(rem[k], cl),
                                  offset         |-> len - rem[k]]
  <2>1. k \in 0..n
    OBVIOUS
  <2>2. PICK w \in Nat : w = k * cl
    BY <2>1
  <2>3. rem[k] = len - w /\ len - rem[k] = w
    BY <1>8, <1>9, <2>1, <2>2
  <2> QED BY <1>1, <1>2, <2>2, <2>3 DEF ChunkAt
<1>13. ChunkInfos(L, p) = {ChunkAt(L, p, k) : k \in 0..(n - 1)}
  BY <1>1, <1>2, <1>3, <1>10, <1>11, <1>12
<1> QED BY <1>3, <1>13

\* Chunk k is inside its piece, and as long as the others unless it is the last.
LEMMA ChunkAtFacts ==
    ASSUME NEW L, LengthsOK(L), NEW p \in PieceIds(L), NEW k \in 0..(chunks_per_piece(L, p) - 1)
    PROVE  LET i == ChunkAt(L, p, k) IN
           /\ i.piece_index = p /\ i.absolute_index = p * L.max_chunks_per_piece + k
           /\ k \in Nat /\ i.offset = k * L.chunk_length /\ i.offset \in Nat
           /\ i.size \in Nat \ {0} /\ i.size <= L.chunk_length
           /\ i.size = Least(piece_length(L, p) - k * L.chunk_length, L.chunk_length)
           /\ i.offset + i.size <= piece_length(L, p)
           /\ i.size = L.chunk_length \/ i.offset + i.size = piece_length(L, p)
<1>1. PICK cl \in Nat \ {0} : cl = L.chunk_length
  BY DEF LengthsOK
<1>2. PICK len \in Nat \ {0} : len = piece_length(L, p)
  BY PieceFacts DEF LengthsOK
<1>3. PICK n \in Nat \ {0} : n = chunks_per_piece(L, p) /\ len <= n * cl /\ n * cl < len + cl
  BY <1>1, <1>2, ChunkCount
<1>4. k \in Nat /\ k < n
  BY <1>3
<1>5. k * cl + cl <= n * cl /\ k * cl \in Nat /\ n * cl \in Nat
  BY <1>4, TimesOrder
<1>6. PICK w \in Nat : w = k * cl /\ w < len
  BY <1>3, <1>5
<1>7. PICK i : i = ChunkAt(L, p, k)
  OBVIOUS
<1>8. /\ i.piece_index = p /\ i.absolute_index = p * L.max_chunks_per_piece + k
      /\ i.offset = w /\ i.size = Least(len - w, cl)
  BY <1>1, <1>2, <1>6, <1>7 DEF ChunkAt
<1>9. i.size \in Nat \ {0} /\ i.size <= cl /\ w + i.size <= len /\ (i.size = cl \/ w + i.size = len)
  BY <1>6, <1>8 DEF Least
<1> QED BY <1>1, <1>2, <1>4, <1>6, <1>7, <1>8, <1>9

\* A chunk that arrives is recognized.
LEMMA ChunkRecognized ==
    ASSUME NEW L, LengthsOK(L), NEW p \in PieceIds(L), NEW k \in 0..(chunks_per_piece(L, p) - 1),
           NEW i, i = ChunkAt(L, p, k)
    PROVE  chunk_info_from_received_data(L, p, i.offset, i.size) = {i}
<1>1. PICK cl \in Nat \ {0} : cl = L.chunk_length
  BY DEF LengthsOK
<1>2. /\ i.offset = k * cl /\ i.size = Least(piece_length(L, p) - k * cl, cl)
      /\ i.offset \in Nat /\ i.size \in Nat \ {0} /\ k \in Nat
  BY <1>1, ChunkAtFacts
<1>3. PICK n \in Nat \ {0} : n = chunks_per_piece(L, p)
  BY ChunkCount
<1>4. i.offset \div cl = k
  <2>1. PICK q \in Int, x \in 0..(cl - 1) : q = k /\ x = 0 /\ i.offset = cl * q + x
    BY <1>2
  <2> QED BY <1>2, <2>1, DivUnique
<1>5. ~(k >= n)
  BY <1>3
<1>6. PICK len \in Nat : len = piece_length(L, p)
  BY PieceFacts DEF LengthsOK
<1>7. Least(cl, len - k * cl) = Least(len - k * cl, cl)
  <2>1. PICK w \in Nat : w = k * cl
    BY <1>2
  <2>2. Least(cl, len - w) = Least(len - w, cl)
    BY DEF Least
  <2> QED BY <2>1, <2>2
<1>8. chunk_size(L, p, k) = {i.size} /\ chunk_offset_in_piece(L, p, k) = {i.offset}
  BY <1>1, <1>2, <1>3, <1>5, <1>6, <1>7 DEF chunk_size, chunk_offset_in_piece
<1>9. L.max_chunks_per_piece * p = p * L.max_chunks_per_piece
  BY ChunkCount, PieceFacts
<1>10. i = [piece_index    |-> p,
            chunk_index    |-> k,
            absolute_index |-> L.max_chunks_per_piece * p + k,
            size           |-> i.size,
            offset         |-> i.offset]
  BY <1>1, <1>2, <1>9 DEF ChunkAt
<1>11. chunk_info_from_received_data(L, p, i.offset, i.size) =
          {[piece_index    |-> p,
            chunk_index    |-> k,
            absolute_index |-> L.max_chunks_per_piece * p + k,
            size           |-> chunk,
            offset         |-> offset] : chunk \in {i.size}, offset \in {i.offset}}
  BY <1>1, <1>4, <1>8 DEF chunk_info_from_received_data
<1> QED BY <1>10, <1>11

\* The chunks of a piece hold every byte of it, once.
LEMMA ChunksHoldPiece ==
    ASSUME LengthsOK(lengths), NEW p \in PieceIds(lengths)
    PROVE  LET infos == ChunkInfos(lengths, p) IN
           /\ UNION {BytesOfChunk(i) : i \in infos} = BytesOfPiece(p)
           /\ \A i, j \in infos : i # j => BytesOfChunk(i) \cap BytesOfChunk(j) = {}
<1>1. PICK cl \in Nat \ {0} : cl = lengths.chunk_length
  BY DEF LengthsOK
<1>2. PICK len \in Nat \ {0} : len = piece_length(lengths, p)
  BY PieceFacts DEF LengthsOK
<1>3. PICK n \in Nat \ {0} : n = chunks_per_piece(lengths, p) /\ len <= n * cl /\ n * cl < len + cl
  BY <1>1, <1>2, ChunkCount
<1>4. PICK po \in Nat : po = piece_offset(lengths, p)
  BY PieceFacts
<1>5. BytesOfPiece(p) = po..(po + len - 1)
  BY <1>2, <1>4 DEF BytesOfPiece
<1> DEFINE C(k) == ChunkAt(lengths, p, k)
<1>6. ChunkInfos(lengths, p) = {C(k) : k \in 0..(n - 1)}
  BY <1>3, InfosFacts
<1>7. ASSUME NEW k \in 0..(n - 1)
      PROVE  /\ C(k).offset = k * cl /\ k * cl \in Nat /\ k \in Nat
             /\ C(k).size \in Nat \ {0} /\ C(k).size <= cl
             /\ k * cl + C(k).size <= len
             /\ C(k).size = cl \/ k * cl + C(k).size = len
             /\ BytesOfChunk(C(k)) = (po + k * cl)..(po + k * cl + C(k).size - 1)
  <2>1. PICK i : i = C(k)
    OBVIOUS
  <2>2. /\ i.piece_index = p /\ k \in Nat /\ i.offset = k * cl /\ i.offset \in Nat
        /\ i.size \in Nat \ {0} /\ i.size <= cl
        /\ i.offset + i.size <= len
        /\ i.size = cl \/ i.offset + i.size = len
    BY <1>1, <1>2, <1>3, <2>1, ChunkAtFacts
  <2>3. BytesOfChunk(i) = (po + k * cl)..(po + k * cl + i.size - 1)
    BY <1>4, <2>2 DEF BytesOfChunk, chunk_absolute_offset
  <2> QED BY <2>1, <2>2, <2>3
<1> HIDE DEF C
<1>8. ASSUME NEW k \in 0..(n - 1), NEW x \in BytesOfChunk(C(k)) PROVE x \in BytesOfPiece(p)
  <2>1. PICK w \in Nat : w = k * cl
    BY <1>7
  <2>2. PICK z \in Nat \ {0} : z = C(k).size /\ w + z <= len /\ BytesOfChunk(C(k)) = (po + w)..(po + w + z - 1)
    BY <1>7, <2>1
  <2> QED BY <1>5, <1>8, <2>2
<1>9. ASSUME NEW x \in BytesOfPiece(p) PROVE \E k \in 0..(n - 1) : x \in BytesOfChunk(C(k))
  <2>1. PICK a \in Nat : x = po + a /\ a < len
    BY <1>5, <1>9
  <2>2. a < n * cl
    BY <1>3, <2>1
  <2>3. PICK k \in 0..(n - 1), w \in Nat : w = k * cl /\ w <= a /\ a < w + cl
    BY <2>2, InBlock
  <2>4. PICK z \in Nat \ {0} : /\ z = C(k).size /\ (z = cl \/ w + z = len)
                               /\ BytesOfChunk(C(k)) = (po + w)..(po + w + z - 1)
    BY <1>7, <2>3
  <2>5. x \in (po + w)..(po + w + z - 1)
    BY <2>1, <2>3, <2>4
  <2> QED BY <2>3, <2>4, <2>5
<1>10. ASSUME NEW k \in 0..(n - 1), NEW m \in 0..(n - 1), k < m
       PROVE  BytesOfChunk(C(k)) \cap BytesOfChunk(C(m)) = {}
  <2>1. PICK w \in Nat : w = k * cl
    BY <1>7
  <2>2. PICK v \in Nat : v = m * cl
    BY <1>7
  <2>3. w + cl <= v
    <3>1. k \in Nat /\ m \in Nat /\ k < m
      BY <1>10
    <3> QED BY <2>1, <2>2, <3>1, TimesOrder
  <2>4. PICK z \in Nat \ {0} : z <= cl /\ BytesOfChunk(C(k)) = (po + w)..(po + w + z - 1)
    BY <1>7, <2>1
  <2>5. PICK y \in Nat \ {0} : BytesOfChunk(C(m)) = (po + v)..(po + v + y - 1)
    BY <1>7, <2>2
  <2> QED BY <2>3, <2>4, <2>5
<1>11. UNION {BytesOfChunk(i) : i \in ChunkInfos(lengths, p)} = BytesOfPiece(p)
  BY <1>6, <1>8, <1>9
<1>12. ASSUME NEW i \in ChunkInfos(lengths, p), NEW j \in ChunkInfos(lengths, p), i # j
       PROVE  BytesOfChunk(i) \cap BytesOfChunk(j) = {}
  <2>1. PICK k \in 0..(n - 1), m \in 0..(n - 1) : i = C(k) /\ j = C(m) /\ k # m
    BY <1>6, <1>12
  <2>2. k < m \/ m < k
    BY <2>1
  <2>3. CASE k < m
    BY <1>10, <2>1, <2>3
  <2>4. CASE m < k
    BY <1>10, <2>1, <2>4
  <2> QED BY <2>2, <2>3, <2>4
<1> QED BY <1>11, <1>12


\* The bits of the chunks of a piece are its chunk_range.
LEMMA RangeFacts ==
    ASSUME NEW L, LengthsOK(L), NEW p \in PieceIds(L)
    PROVE  /\ {i.absolute_index : i \in ChunkInfos(L, p)} = chunk_range(L, p)
           /\ \A q \in PieceIds(L) : p < q => chunk_range(L, p) \cap chunk_range(L, q) = {}
<1>1. PICK n \in Nat \ {0}, m \in Nat :
          n = chunks_per_piece(L, p) /\ m = L.max_chunks_per_piece /\ n <= m
  BY ChunkCount
<1>2. PICK w \in Nat : w = p * m
  BY <1>1, PieceFacts
<1>3. chunk_range(L, p) = w..(w + n - 1)
  BY <1>1, <1>2 DEF chunk_range
<1>4. \A k \in 0..(n - 1) : ChunkAt(L, p, k).absolute_index = w + k
  BY <1>1, <1>2, ChunkAtFacts
<1>5. ChunkInfos(L, p) = {ChunkAt(L, p, k) : k \in 0..(n - 1)}
  BY <1>1, InfosFacts
<1>6. {i.absolute_index : i \in ChunkInfos(L, p)} = {w + k : k \in 0..(n - 1)}
  BY <1>4, <1>5
<1>7. {w + k : k \in 0..(n - 1)} = w..(w + n - 1)
  <2>1. ASSUME NEW x \in w..(w + n - 1) PROVE x \in {w + k : k \in 0..(n - 1)}
    <3>1. x - w \in 0..(n - 1) /\ x = w + (x - w)
      OBVIOUS
    <3> QED BY <3>1
  <2>2. ASSUME NEW k \in 0..(n - 1) PROVE w + k \in w..(w + n - 1)
    OBVIOUS
  <2> QED BY <2>1, <2>2
<1>8. ASSUME NEW q \in PieceIds(L), p < q
      PROVE  chunk_range(L, p) \cap chunk_range(L, q) = {}
  <2>1. p \in Nat /\ q \in Nat
    BY PieceFacts
  <2>2. w + m <= q * m /\ q * m \in Nat
    BY <1>2, <1>8, <2>1, TimesOrder
  <2>3. PICK v \in Nat : v = q * m /\ w + m <= v
    BY <2>2
  <2>4. PICK k \in Nat : k = chunks_per_piece(L, q)
    BY ChunkCount
  <2>5. chunk_range(L, q) = v..(v + k - 1)
    BY <1>1, <2>3, <2>4 DEF chunk_range
  <2> QED BY <1>1, <1>3, <2>3, <2>5
<1> QED BY <1>3, <1>6, <1>7, <1>8

\* If a piece is a whole number of chunks, the ranges fill the bit field.
LEMMA RangesFill ==
    ASSUME NEW L, LengthsOK(L), L.piece_length % L.chunk_length = 0
    PROVE  UNION {chunk_range(L, p) : p \in PieceIds(L)} = 0..(total_chunks(L) - 1)
<1>1. PICK pl \in Nat \ {0}, cl \in Nat \ {0}, tl \in Nat, last \in Nat :
          /\ pl = L.piece_length /\ cl = L.chunk_length /\ tl = L.total_length
          /\ last = L.last_piece_id
  BY DEF LengthsOK
<1>2. PieceIds(L) = 0..last /\ last \in PieceIds(L)
  BY <1>1 DEF PieceIds
<1>3. PICK m \in Nat : m = L.max_chunks_per_piece
  BY <1>2, ChunkCount
<1>4. PICK r \in Nat : r = L.last_piece_length /\ r = piece_length(L, last) /\ last * pl + r = tl
  BY <1>1 DEF LengthsOK, piece_length
<1>5. PICK n \in Nat \ {0} : /\ n = chunks_per_piece(L, last) /\ n <= m
                             /\ r <= n * cl /\ n * cl < r + cl
  BY <1>1, <1>2, <1>3, <1>4, ChunkCount
<1>6. pl = m * cl
  <2>1. PICK q \in Nat, x \in 0..(cl - 1) : q = pl \div cl /\ x = pl % cl /\ pl = cl * q + x
    BY DivFacts
  <2>2. x = 0
    BY <1>1, <2>1
  <2>3. q * cl = pl
    BY <2>1, <2>2
  <2>4. ceil_div(pl, cl) = q
    BY <2>3, CeilUnique
  <2>5. m = q
    BY <1>1, <1>3, <2>4 DEF LengthsOK
  <2> QED BY <2>3, <2>5
<1>7. PICK lm \in Nat : lm = last * m
  BY <1>3
<1>8. lm * cl = last * pl
  BY <1>6, <1>7
<1>9. (lm + n) * cl = lm * cl + n * cl /\ lm * cl \in Nat /\ n * cl \in Nat
  OBVIOUS
<1>10. tl <= (lm + n) * cl /\ (lm + n) * cl < tl + cl
  BY <1>4, <1>5, <1>8, <1>9
<1>11. total_chunks(L) = lm + n
  <2>1. PICK c \in Nat : c = lm + n
    OBVIOUS
  <2>2. ceil_div(tl, cl) = c
    BY <1>10, <2>1, CeilUnique
  <2> QED BY <1>1, <2>1, <2>2 DEF total_chunks
<1>12. ASSUME NEW p \in 0..last
       PROVE  /\ chunk_range(L, p) = (p * m)..(p * m + (IF p = last THEN n ELSE m) - 1)
              /\ p * m \in Nat
  BY <1>1, <1>3, <1>5 DEF chunk_range, chunks_per_piece
<1>13. ASSUME NEW p \in 0..last, NEW x \in chunk_range(L, p) PROVE x \in 0..(lm + n - 1)
  <2>1. PICK w \in Nat : w = p * m
    BY <1>12
  <2>2. x \in w..(w + (IF p = last THEN n ELSE m) - 1)
    BY <1>12, <1>13, <2>1
  <2>3. CASE p = last
    BY <1>7, <2>1, <2>2, <2>3
  <2>4. CASE p # last
    <3>1. p \in Nat /\ p < last
      BY <2>4
    <3>2. w + m <= lm
      BY <1>7, <2>1, <3>1, TimesOrder
    <3> QED BY <2>2, <2>4, <3>2
  <2> QED BY <2>3, <2>4
<1>14. ASSUME NEW x \in 0..(lm + n - 1) PROVE \E p \in 0..last : x \in chunk_range(L, p)
  <2>1. CASE x < lm
    <3>1. x \in Nat /\ x < last * m
      BY <1>7, <2>1
    <3>2. PICK p \in 0..(last - 1), w \in Nat : w = p * m /\ w <= x /\ x < w + m
      BY <3>1, InBlock
    <3>3. p \in 0..last /\ p # last
      OBVIOUS
    <3>4. chunk_range(L, p) = w..(w + m - 1)
      BY <1>12, <3>2, <3>3
    <3> QED BY <3>1, <3>2, <3>3, <3>4
  <2>2. CASE ~(x < lm)
    <3>1. last \in 0..last
      OBVIOUS
    <3>2. chunk_range(L, last) = lm..(lm + n - 1)
      BY <1>7, <1>12, <3>1
    <3> QED BY <2>2, <3>1, <3>2
  <2> QED BY <2>1, <2>2
<1> QED BY <1>2, <1>11, <1>13, <1>14

LEMMA LengthsTile ==
    ASSUME LengthsOK(lengths)
    PROVE  ChunksTile
<1>1. ASSUME NEW p \in PieceIds(lengths), NEW i \in ChunkInfos(lengths, p)
      PROVE  chunk_info_from_received_data(lengths, p, i.offset, i.size) = {i}
  <2>1. PICK k \in 0..(chunks_per_piece(lengths, p) - 1) : i = ChunkAt(lengths, p, k)
    BY InfosFacts
  <2> QED BY <2>1, ChunkRecognized
<1>2. ASSUME NEW p \in PieceIds(lengths), NEW q \in PieceIds(lengths) \ {p}
      PROVE  chunk_range(lengths, p) \cap chunk_range(lengths, q) = {}
  <2>1. p < q \/ q < p
    BY PieceFacts
  <2>2. p < q => chunk_range(lengths, p) \cap chunk_range(lengths, q) = {}
    BY RangeFacts
  <2>3. q < p => chunk_range(lengths, q) \cap chunk_range(lengths, p) = {}
    BY RangeFacts
  <2> QED BY <2>1, <2>2, <2>3
<1>3. ChunksTileTorrent
  BY <1>1, <1>2, RangeFacts, ChunksHoldPiece DEF ChunksTileTorrent
<1>4. ChunkRangesInBitfield
  BY RangesFill DEF ChunkRangesInBitfield
<1> QED BY <1>3, <1>4 DEF ChunksTile


-----------------------------------------------------------------------------
(* The files of the torrent *)

\* The files lie one behind the other.
LEMMA StartRecurs ==
    ASSUME NEW ls \in Seq(Nat), Len(ls) # 0
    PROVE  /\ FileStart(ls, 1) = 0
           /\ \A f \in 1..Len(ls) :
                 /\ FileStart(ls, f) \in Nat
                 /\ f # 1 => FileStart(ls, f) = FileStart(ls, f - 1) + ls[f - 1]
<1>1. PICK n \in Nat \ {0} : n = Len(ls)
  OBVIOUS
<1>2. \A f \in 1..n : ls[f] \in Nat
  BY <1>1
<1> DEFINE D(s) == [k \in 1..Len(ls) |-> IF k = 1 THEN 0 ELSE s[k - 1] + ls[k - 1]]
           start == CHOOSE s : s = D(s)
           F == [k \in 1..(n - 1) |-> [v \in Nat |-> v + ls[k]]]
<1>3. PICK g \in [0..(n - 1) -> Nat] : Recurs(g, F, 0, n - 1)
  <2>1. F \in [1..(n - 1) -> [Nat -> Nat]]
    BY <1>2
  <2>2. n - 1 \in Nat
    OBVIOUS
  <2> HIDE DEF F
  <2> QED BY <2>1, <2>2, RecursionExists
<1>4. g[0] = 0
  BY <1>3 DEF Recurs
<1>5. ASSUME NEW k \in 1..(n - 1) PROVE g[k] = g[k - 1] + ls[k]
  <2>1. k - 1 \in 0..(n - 1) /\ g[k - 1] \in Nat
    OBVIOUS
  <2>2. g[k] = F[k][g[k - 1]]
    BY <1>3 DEF Recurs
  <2> QED BY <2>1, <2>2
<1> DEFINE h == [k \in 1..n |-> g[k - 1]]
<1>6. h = D(h)
  <2>1. ASSUME NEW k \in 1..n
        PROVE  h[k] = IF k = 1 THEN 0 ELSE h[k - 1] + ls[k - 1]
    <3>1. CASE k = 1
      BY <1>4, <3>1
    <3>2. CASE k # 1
      <4>1. k - 1 \in 1..(n - 1) /\ k - 1 \in 1..n
        BY <3>2
      <4> QED BY <1>5, <3>2, <4>1
    <3> QED BY <3>1, <3>2
  <2> QED BY <1>1, <2>1
<1>7. start = D(start)
  BY <1>6, Zenon
<1>8. \A f : FileStart(ls, f) = start[f]
  BY Zenon DEF FileStart
<1> HIDE DEF start
<1>9. \A k \in 1..n : start[k] = IF k = 1 THEN 0 ELSE start[k - 1] + ls[k - 1]
  BY <1>1, <1>7
<1>10. \A k \in 0..(n - 1) : start[k + 1] \in Nat
  <2> DEFINE T == {k \in 0..(n - 1) : start[k + 1] \in Nat}
  <2>1. 0 \in T
    <3>1. start[1] = 0
      BY <1>9
    <3> QED BY <3>1
  <2>2. ASSUME NEW k \in 1..(n - 1), k - 1 \in T PROVE k \in T
    <3>1. k + 1 \in 1..n /\ k + 1 # 1 /\ (k + 1) - 1 = k /\ (k - 1) + 1 = k /\ k \in 1..n
      OBVIOUS
    <3>2. start[k] \in Nat /\ ls[k] \in Nat
      BY <1>2, <2>2, <3>1
    <3>3. start[k + 1] = start[k] + ls[k]
      BY <1>9, <3>1
    <3> QED BY <3>2, <3>3
  <2>3. n - 1 \in Nat
    OBVIOUS
  <2> HIDE DEF T
  <2>4. \A k \in 0..(n - 1) : k \in T
    BY <2>1, <2>2, <2>3, UpTo
  <2> QED BY <2>4 DEF T
<1>11. ASSUME NEW f \in 1..n PROVE start[f] \in Nat
  <2>1. f - 1 \in 0..(n - 1) /\ (f - 1) + 1 = f
    OBVIOUS
  <2> QED BY <1>10, <2>1
<1>12. start[1] = 0
  BY <1>9
<1> QED BY <1>1, <1>8, <1>9, <1>11, <1>12

Start(f) == FileStart(lens, f)
End(f) == Start(f) + lens[f]

\* What Init chooses once and for all.
Geometry ==
    /\ lens \in Seq(Nat) /\ Len(lens) # 0
    /\ LengthsOK(lengths)
    /\ lengths.total_length = TotalLength(lens)
    /\ only_files \subseteq Files

LEMMA FileFacts ==
    ASSUME Geometry
    PROVE  /\ Files = 1..Len(lens) /\ Len(lens) \in Nat /\ 1 \in Files /\ Start(1) = 0
           /\ lengths.total_length \in Nat
           /\ \A f \in Files :
                 /\ f \in Nat /\ Start(f) \in Nat /\ lens[f] \in Nat
                 /\ End(f) \in Nat /\ End(f) = Start(f) + lens[f]
                 /\ End(f) <= lengths.total_length
                 /\ f = Len(lens) => End(f) = lengths.total_length
                 /\ f # Len(lens) => f + 1 \in Files /\ Start(f + 1) = End(f)
                 /\ \A g \in Files : f < g => End(f) <= Start(g)
<1>1. PICK n \in Nat \ {0} : n = Len(lens) /\ Files = 1..n
  BY DEF Geometry, Files
<1>2. /\ Start(1) = 0
      /\ \A f \in 1..n : /\ Start(f) \in Nat
                         /\ f # 1 => Start(f) = Start(f - 1) + lens[f - 1]
  BY <1>1, StartRecurs DEF Geometry, Start
<1>3. ASSUME NEW f \in 1..n
      PROVE  lens[f] \in Nat /\ End(f) \in Nat /\ End(f) = Start(f) + lens[f]
  <2>1. lens[f] \in Nat
    BY <1>1 DEF Geometry
  <2> QED BY <1>2, <2>1 DEF End
<1>4. End(n) = lengths.total_length /\ n \in 1..n
  BY <1>1 DEF Geometry, TotalLength, End, Start
<1>5. ASSUME NEW f \in 1..n, f # n PROVE f + 1 \in 1..n /\ Start(f + 1) = End(f)
  <2>1. f + 1 \in 1..n /\ f + 1 # 1 /\ (f + 1) - 1 = f
    BY <1>5
  <2> QED BY <1>2, <1>3, <2>1
<1>6. ASSUME NEW f \in 1..n, NEW g \in 1..n, f < g PROVE End(f) <= Start(g)
  <2> DEFINE T == {k \in 0..n : k > f /\ k \in 1..n => End(f) <= Start(k)}
  <2>1. 0 \in T
    OBVIOUS
  <2>2. ASSUME NEW k \in 1..n, k - 1 \in T PROVE k \in T
    <3>1. CASE k <= f
      BY <3>1
    <3>2. CASE k = f + 1
      <4>1. f # n
        BY <3>2
      <4> QED BY <1>3, <1>5, <3>2, <4>1
    <3>3. CASE k > f + 1
      <4>1. k - 1 \in 1..n /\ k - 1 > f /\ k - 1 # n /\ (k - 1) + 1 = k
        BY <3>3
      <4>2. End(f) <= Start(k - 1)
        BY <2>2, <4>1
      <4>3. PICK j \in 1..n : j = k - 1 /\ j # n /\ j + 1 = k
        BY <4>1
      <4>4. Start(k) = End(j) /\ End(j) = Start(j) + lens[j] /\ lens[j] \in Nat /\ Start(j) \in Nat
        BY <1>2, <1>3, <1>5, <4>3
      <4>5. End(f) \in Nat
        BY <1>3
      <4> QED BY <4>2, <4>3, <4>4, <4>5
    <3> QED BY <3>1, <3>2, <3>3
  <2> HIDE DEF T
  <2>3. \A k \in 0..n : k \in T
    BY <2>1, <2>2, UpTo
  <2>4. g \in 0..n
    OBVIOUS
  <2> QED BY <1>6, <2>3, <2>4 DEF T
<1>7. ASSUME NEW f \in 1..n PROVE End(f) <= lengths.total_length
  <2>1. CASE f = n
    BY <1>3, <1>4, <2>1
  <2>2. CASE f # n
    <3>1. End(f) <= Start(n)
      BY <1>4, <1>6, <2>2
    <3>2. Start(n) <= End(n) /\ End(n) \in Nat /\ Start(n) \in Nat /\ End(f) \in Nat
      BY <1>2, <1>3, <1>4
    <3> QED BY <1>4, <3>1, <3>2
  <2> QED BY <2>1, <2>2
<1>8. lengths.total_length \in Nat
  BY DEF Geometry, LengthsOK
<1>9. \A f \in 1..n : f \in Nat
  OBVIOUS
<1>10. 1 \in 1..n
  OBVIOUS
<1> QED BY <1>1, <1>2, <1>3, <1>4, <1>5, <1>6, <1>7, <1>8, <1>9, <1>10

\* Every byte of the torrent is in a file.
LEMMA InSomeFile ==
    ASSUME Geometry, NEW x \in Nat, x < lengths.total_length
    PROVE  \E f \in Files : Start(f) <= x /\ x < End(f)
<1>1. PICK n \in Nat : n = Len(lens) /\ Files = 1..n /\ n \in Files /\ End(n) = lengths.total_length
  <2>1. Files = 1..Len(lens) /\ Len(lens) \in Nat /\ 1 \in Files
    BY FileFacts
  <2>2. Len(lens) \in Files
    BY <2>1
  <2> QED BY <2>1, <2>2, FileFacts
<1> DEFINE T == {f \in Files : x < End(f)}
<1>2. T \in SUBSET Nat /\ T # {}
  BY <1>1, FileFacts
<1>3. PICK f \in T : \A g \in T : f <= g
  BY <1>2, LeastOf
<1>4. f \in Files /\ x < End(f)
  BY <1>3
<1>5. Start(f) <= x
  <2>1. CASE f = 1
    BY <2>1, FileFacts
  <2>2. CASE f # 1
    <3>1. PICK g \in Files : g + 1 = f /\ g # n /\ g < f
      <4>1. f - 1 \in 1..n /\ (f - 1) + 1 = f /\ f - 1 # n /\ f - 1 < f
        BY <1>1, <1>4, <2>2
      <4> QED BY <1>1, <4>1
    <3>2. g \notin T
      BY <1>1, <1>3, <1>4, <3>1
    <3>3. ~(x < End(g)) /\ End(g) \in Nat /\ Start(f) = End(g)
      BY <1>1, <3>1, <3>2, FileFacts
    <3> QED BY <3>3
  <2> QED BY <2>1, <2>2
<1> QED BY <1>4, <1>5


-----------------------------------------------------------------------------
(* The walk through the files *)

\* absolute_offset and the bytes that are left before file f, of n bytes from offset
\* on: the file is not behind offset yet, or all before the file is done.
WalkedTo(b, f, offset, n) ==
    /\ b \in [offset : Nat, left : Nat]
    /\ \/ b.left = n /\ offset = Start(f) + b.offset
       \/ /\ b.offset = 0 /\ offset <= Start(f)
          /\ b.left = IF Start(f) < offset + n THEN offset + n - Start(f) ELSE 0

LEMMA WalkFacts ==
    ASSUME Geometry, NEW offset \in Nat, NEW n \in Nat, NEW f \in Files
    PROVE  WalkedTo(Walk(offset, n)[f], f, offset, n)
<1>1. PICK k \in Nat \ {0} : k = Len(lens) /\ Files = 1..k
  BY FileFacts DEF Geometry
<1> DEFINE V == [offset : Nat, left : Nat]
           step(b, i) == IF b.offset > lens[i]
                           THEN [b EXCEPT !.offset = @ - lens[i]]
                           ELSE [offset |-> 0,
                                 left |-> b.left - Least(lens[i] - b.offset, b.left)]
           D(a) == [i \in 1..(Len(lens) + 1) |->
                        IF i = 1 THEN [offset |-> offset, left |-> n]
                        ELSE LET b == a[i - 1] IN step(b, i - 1)]
           at == CHOOSE a : a = D(a)
           F == [i \in 1..k |-> [b \in V |-> step(b, i)]]
<1>2. ASSUME NEW i \in 1..k, NEW b \in V PROVE step(b, i) \in V
  <2>1. lens[i] \in Nat /\ b.offset \in Nat /\ b.left \in Nat
    BY <1>1, FileFacts
  <2>2. CASE b.offset > lens[i]
    <3>1. b.offset - lens[i] \in Nat
      BY <2>1, <2>2
    <3> QED BY <2>2, <3>1
  <2>3. CASE ~(b.offset > lens[i])
    <3>1. b.left - Least(lens[i] - b.offset, b.left) \in Nat
      BY <2>1, <2>3 DEF Least
    <3> QED BY <2>3, <3>1
  <2> QED BY <2>2, <2>3
<1>3. PICK g \in [0..k -> V] : Recurs(g, F, [offset |-> offset, left |-> n], k)
  <2>1. F \in [1..k -> [V -> V]]
    BY <1>2
  <2>2. [offset |-> offset, left |-> n] \in V /\ k \in Nat
    OBVIOUS
  <2> HIDE DEF F, V
  <2> QED BY <2>1, <2>2, RecursionExists
<1> HIDE DEF V
<1>4. g[0] = [offset |-> offset, left |-> n]
  BY <1>3 DEF Recurs
<1>5. ASSUME NEW i \in 1..k PROVE g[i] = step(g[i - 1], i)
  <2>1. i - 1 \in 0..k /\ g[i - 1] \in V
    OBVIOUS
  <2>2. g[i] = F[i][g[i - 1]]
    BY <1>3 DEF Recurs
  <2> HIDE DEF step
  <2> QED BY <2>1, <2>2
<1> DEFINE h == [i \in 1..(k + 1) |-> g[i - 1]]
<1>6. h = D(h)
  <2> HIDE DEF step
  <2>1. ASSUME NEW i \in 1..(k + 1)
        PROVE  h[i] = IF i = 1 THEN [offset |-> offset, left |-> n] ELSE step(h[i - 1], i - 1)
    <3>1. CASE i = 1
      BY <1>4, <3>1
    <3>2. CASE i # 1
      <4>1. PICK j \in 1..k : j = i - 1 /\ j \in 1..(k + 1)
        BY <3>2
      <4>2. h[i] = g[j] /\ h[j] = g[j - 1]
        BY <4>1
      <4> QED BY <1>5, <3>2, <4>1, <4>2
    <3> QED BY <3>1, <3>2
  <2> QED BY <1>1, <2>1
<1>7. at = D(at)
  BY <1>6, Zenon
<1>8. Walk(offset, n) = at
  BY Zenon DEF Walk
<1> HIDE DEF at
<1>9. \A i \in 1..k : at[i] = IF i = 1 THEN [offset |-> offset, left |-> n]
                              ELSE step(at[i - 1], i - 1)
  <2> HIDE DEF step
  <2>1. \A i \in 1..k : i \in 1..(Len(lens) + 1)
    BY <1>1
  <2>2. \A i \in 1..(Len(lens) + 1) :
            at[i] = IF i = 1 THEN [offset |-> offset, left |-> n] ELSE step(at[i - 1], i - 1)
    BY <1>7
  <2> QED BY <2>1, <2>2
<1> DEFINE T == {i \in 0..k : i # 0 => WalkedTo(at[i], i, offset, n)}
<1>10. 0 \in T
  OBVIOUS
<1>11. ASSUME NEW i \in 1..k, i - 1 \in T PROVE i \in T
  <2>1. CASE i = 1
    <3>1. at[1] = [offset |-> offset, left |-> n] /\ Start(1) = 0
      BY <1>9, <2>1, FileFacts
    <3> QED BY <2>1, <3>1 DEF WalkedTo
  <2>2. CASE i # 1
    <3>1. PICK j \in 1..k : j = i - 1 /\ j + 1 = i /\ j # k /\ j # 0
      BY <2>2
    <3>2. PICK b : b = at[j]
      OBVIOUS
    <3>3. WalkedTo(b, j, offset, n)
      BY <1>11, <3>1, <3>2
    <3>4. at[i] = step(b, j)
      BY <1>9, <2>2, <3>1, <3>2
    <3>5. PICK s \in Nat, l \in Nat : s = Start(j) /\ l = lens[j] /\ Start(i) = s + l
      <4>1. j \in Files /\ j # Len(lens) /\ i = j + 1
        BY <1>1, <3>1
      <4>2. Start(j) \in Nat /\ lens[j] \in Nat /\ Start(j + 1) = Start(j) + lens[j]
        BY <4>1, FileFacts
      <4> QED BY <4>1, <4>2
    <3>6. PICK bo \in Nat, bl \in Nat : bo = b.offset /\ bl = b.left /\ b = [offset |-> bo, left |-> bl]
      BY <3>3 DEF WalkedTo
    <3>7. CASE bo > l
      <4>1. at[i] = [offset |-> bo - l, left |-> bl] /\ bo - l \in Nat
        BY <3>4, <3>5, <3>6, <3>7
      <4>2. bl = n /\ offset = s + bo
        BY <3>3, <3>5, <3>6, <3>7 DEF WalkedTo
      <4>3. offset = Start(i) + (bo - l)
        BY <3>5, <4>2
      <4>4. WalkedTo(at[i], i, offset, n)
        BY <4>1, <4>2, <4>3 DEF WalkedTo
      <4> QED BY <4>4
    <3>8. CASE ~(bo > l)
      <4>1. at[i] = [offset |-> 0, left |-> bl - Least(l - bo, bl)]
        BY <3>4, <3>5, <3>6, <3>8
      <4>2. PICK left \in Nat : left = bl - Least(l - bo, bl)
        <5>1. bl - Least(l - bo, bl) \in Nat
          BY <3>8 DEF Least
        <5> QED BY <5>1
      <4>3. at[i] = [offset |-> 0, left |-> left]
        BY <4>1, <4>2
      <4>4. \/ bl = n /\ offset = s + bo
            \/ bo = 0 /\ offset <= s /\ bl = IF s < offset + n THEN offset + n - s ELSE 0
        BY <3>3, <3>5, <3>6 DEF WalkedTo
      <4>5. offset <= s + l /\ left = IF s + l < offset + n THEN offset + n - (s + l) ELSE 0
        BY <3>8, <4>2, <4>4 DEF Least
      <4>6. WalkedTo(at[i], i, offset, n)
        BY <3>5, <4>3, <4>5 DEF WalkedTo
      <4> QED BY <4>6
    <3> QED BY <3>7, <3>8
  <2> QED BY <2>1, <2>2
<1> HIDE DEF T
<1>12. \A i \in 0..k : i \in T
  BY <1>10, <1>11, UpTo
<1>13. f \in 0..k /\ f # 0
  BY <1>1
<1> QED BY <1>8, <1>12, <1>13 DEF T

\* What the files of a disk d hold: no more than their length, and no byte of another
\* place.
DiskIs(d) ==
    /\ d \in [Files -> Seq(Int)]
    /\ \A f \in Files :
          /\ Len(d[f]) <= lens[f]
          /\ \A o \in DOMAIN d[f] : d[f][o] \in {Junk, Start(f) + o - 1}

\* The bytes that are written to a file are those of the range that are in the file,
\* and they get where they belong.
LEMMA WrittenFacts ==
    ASSUME Geometry, DiskIs(disk), NEW offset \in Nat, NEW n \in Nat \ {0}, NEW f \in Files
    PROVE  LET w == WrittenFile(f, offset, n) IN
           /\ w \in Seq(Int) /\ Len(disk[f]) <= Len(w) /\ Len(w) <= lens[f]
           /\ \A x \in Start(f)..(End(f) - 1) :
                 x \in offset..(offset + n - 1) => x - Start(f) < Len(w)
           /\ \A o \in 1..Len(w) :
                 w[o] = IF Start(f) + o - 1 \in offset..(offset + n - 1) THEN Start(f) + o - 1
                        ELSE IF o <= Len(disk[f]) THEN disk[f][o] ELSE Junk
<1> DEFINE b == Walk(offset, n)[f]
           bo == b.offset
           bl == b.left
           l == lens[f]
           d == Len(disk[f])
           len == IF bo > l THEN 0 ELSE Least(l - bo, bl)
           size == IF bo + len > d THEN bo + len ELSE d
           w == WrittenFile(f, offset, n)
<1>1. PICK s \in Nat : s = Start(f) /\ l \in Nat /\ End(f) = s + l
  BY FileFacts
<1>2. /\ d \in Nat /\ d <= l /\ disk[f] \in Seq(Int)
      /\ \A o \in 1..d : disk[f][o] \in Int
  BY <1>1 DEF DiskIs
<1>3. w = IF len = 0 THEN disk[f]
          ELSE [o \in 1..size |->
                  IF o - 1 \in bo..((bo + len) - 1) THEN offset + n - bl + (o - 1 - bo)
                  ELSE IF o <= d THEN disk[f][o] ELSE Junk]
  BY Zenon DEF WrittenFile
<1>4. WalkedTo(b, f, offset, n)
  BY WalkFacts
<1> HIDE DEF b, w
<1>5. bo \in Nat /\ bl \in Nat
  BY <1>4 DEF WalkedTo
<1>6. \/ bl = n /\ offset = s + bo
      \/ bo = 0 /\ offset <= s /\ bl = IF s < offset + n THEN offset + n - s ELSE 0
  BY <1>1, <1>4, <1>5 DEF WalkedTo
<1> HIDE DEF bo, bl, l, d
<1>7. len \in Nat
  BY <1>1, <1>5 DEF Least
<1>8. /\ s = Start(f) /\ l = lens[f] /\ End(f) = s + l /\ d = Len(disk[f])
      /\ w = WrittenFile(f, offset, n)
  BY <1>1 DEF l, d, w
<1>9. len = IF bo > l THEN 0 ELSE Least(l - bo, bl)
  OBVIOUS
<1> HIDE DEF len
<1>10. CASE len = 0
  <2>1. w = disk[f]
    BY <1>3, <1>10
  <2>2. ASSUME NEW x \in s..(s + l - 1) PROVE x \notin offset..(offset + n - 1)
    BY <1>1, <1>5, <1>6, <1>7, <1>9, <1>10 DEF Least
  <2>3. ASSUME NEW o \in 1..d PROVE s + o - 1 \in s..(s + l - 1)
    BY <1>1, <1>2
  <2>4. \A o \in 1..d : s + o - 1 \notin offset..(offset + n - 1) /\ o <= d
    BY <2>2, <2>3
  <2> QED BY <1>1, <1>2, <1>8, <2>1, <2>2, <2>4
<1>11. CASE len # 0
  <2>1. size \in Nat /\ d <= size /\ size <= l /\ bo + len <= size
    BY <1>1, <1>2, <1>5, <1>7, <1>9, <1>11 DEF Least
  <2>2. ASSUME NEW o \in 1..size
        PROVE  /\ o - 1 \in bo..((bo + len) - 1) <=> s + o - 1 \in offset..(offset + n - 1)
               /\ o - 1 \in bo..((bo + len) - 1) => offset + n - bl + (o - 1 - bo) = s + o - 1
    <3>1. o <= l
      BY <1>1, <2>1
    <3> HIDE DEF size
    <3> QED BY <1>1, <1>5, <1>6, <1>7, <1>9, <1>11, <3>1 DEF Least
  <2>3. ASSUME NEW x \in s..(s + l - 1), x \in offset..(offset + n - 1) PROVE x - s < bo + len
    BY <1>1, <1>5, <1>6, <1>7, <1>9, <1>11, <2>3 DEF Least
  <2>4. PICK z \in Nat : z = size
    BY <2>1
  <2> HIDE DEF size
  <2>5. w = [o \in 1..z |->
                  IF s + o - 1 \in offset..(offset + n - 1) THEN s + o - 1
                  ELSE IF o <= d THEN disk[f][o] ELSE Junk]
    BY <1>3, <1>11, <2>2, <2>4
  <2>6. \A o \in 1..z : w[o] \in Int
    BY <1>2, <2>5 DEF Junk
  <2>7. w \in Seq(Int) /\ Len(w) = z
    BY <2>5, <2>6
  <2>8. d <= z /\ z <= l /\ bo + len <= z
    BY <2>1, <2>4
  <2>9. \A x \in s..(s + l - 1) : x \in offset..(offset + n - 1) => x - s < z
    BY <1>1, <1>5, <1>7, <2>3, <2>8
  <2> QED BY <1>1, <1>2, <1>8, <2>5, <2>7, <2>8, <2>9
<1> QED BY <1>10, <1>11


-----------------------------------------------------------------------------
(* Bytes in place *)

\* InPlace, of a disk d.
There(d, x) ==
    \E f \in Files :
        LET o == x - Start(f) IN
        /\ o \in 0..(Len(d[f]) - 1)
        /\ d[f][o + 1] = x

\* A byte is looked for in its file only.
LEMMA ThereAt ==
    ASSUME Geometry, NEW d, DiskIs(d), NEW f \in Files, NEW o \in 0..(lens[f] - 1)
    PROVE  There(d, Start(f) + o) <=> o < Len(d[f]) /\ d[f][o + 1] = Start(f) + o
<1>1. Start(f) \in Nat /\ lens[f] \in Nat /\ End(f) = Start(f) + lens[f] /\ f \in Nat
  BY FileFacts
<1>2. \A g \in Files : Len(d[g]) \in Nat /\ Len(d[g]) <= lens[g]
  BY DEF DiskIs
<1>3. o \in Nat /\ o < lens[f]
  BY <1>1
<1>4. PICK x \in Nat : x = Start(f) + o /\ x - Start(f) = o
  BY <1>1, <1>3
<1>5. ASSUME o < Len(d[f]), d[f][o + 1] = x PROVE There(d, x)
  <2>1. x - Start(f) \in 0..(Len(d[f]) - 1)
    BY <1>2, <1>3, <1>4, <1>5
  <2> QED BY <1>4, <1>5, <2>1 DEF There
<1>6. ASSUME There(d, x) PROVE o < Len(d[f]) /\ d[f][o + 1] = x
  <2>1. PICK g \in Files : x - Start(g) \in 0..(Len(d[g]) - 1) /\ d[g][(x - Start(g)) + 1] = x
    BY <1>6 DEF There
  <2>2. /\ Start(g) \in Nat /\ lens[g] \in Nat /\ End(g) = Start(g) + lens[g] /\ g \in Nat
        /\ f < g => End(f) <= Start(g)
        /\ g < f => End(g) <= Start(f)
    BY FileFacts
  <2>3. Start(g) <= x /\ x < End(g)
    BY <1>2, <2>1, <2>2
  <2>4. g = f
    BY <1>1, <1>3, <1>4, <2>2, <2>3
  <2> QED BY <1>2, <1>4, <2>1, <2>4
<1> QED BY <1>4, <1>5, <1>6

\* A disk whose selected files got their full length.
Grown(d, sel) ==
    [f \in Files |-> IF f \notin sel THEN d[f]
                     ELSE [o \in 1..lens[f] |-> IF o <= Len(d[f]) THEN d[f][o] ELSE Junk]]

\* Junk is at no place of the torrent: growing the files with it changes nothing.
LEMMA GrownFacts ==
    ASSUME Geometry, NEW d, DiskIs(d), NEW sel \in SUBSET Files, NEW e, e = Grown(d, sel)
    PROVE  DiskIs(e) /\ \A x \in Nat : There(e, x) <=> There(d, x)
<1>1. ASSUME NEW f \in Files
      PROVE  /\ e[f] \in Seq(Int) /\ Len(e[f]) <= lens[f] /\ Len(d[f]) <= Len(e[f])
             /\ Len(d[f]) \in Nat /\ Len(e[f]) \in Nat
             /\ \A o \in 1..Len(e[f]) : e[f][o] = IF o <= Len(d[f]) THEN d[f][o] ELSE Junk
  <2>1. d[f] \in Seq(Int) /\ Len(d[f]) \in Nat /\ Len(d[f]) <= lens[f] /\ lens[f] \in Nat
    BY FileFacts DEF DiskIs
  <2>2. CASE f \notin sel
    <3>1. e[f] = d[f]
      BY <2>2 DEF Grown
    <3> QED BY <2>1, <3>1
  <2>3. CASE f \in sel
    <3>1. e[f] = [o \in 1..lens[f] |-> IF o <= Len(d[f]) THEN d[f][o] ELSE Junk]
      BY <2>3 DEF Grown
    <3>2. \A o \in 1..lens[f] : (IF o <= Len(d[f]) THEN d[f][o] ELSE Junk) \in Int
      BY <2>1 DEF Junk
    <3>3. e[f] \in Seq(Int) /\ Len(e[f]) = lens[f]
      BY <2>1, <3>1, <3>2
    <3> QED BY <2>1, <3>1, <3>3
  <2> QED BY <2>2, <2>3
<1>2. DiskIs(e)
  <2>1. e \in [Files -> Seq(Int)]
    BY <1>1 DEF Grown
  <2>2. ASSUME NEW f \in Files, NEW o \in DOMAIN e[f] PROVE e[f][o] \in {Junk, Start(f) + o - 1}
    <3>1. o \in 1..Len(e[f]) /\ DOMAIN d[f] = 1..Len(d[f])
      BY <1>1, <2>2 DEF DiskIs
    <3>2. e[f][o] = IF o <= Len(d[f]) THEN d[f][o] ELSE Junk
      BY <1>1, <3>1
    <3>3. o <= Len(d[f]) => o \in DOMAIN d[f]
      BY <1>1, <3>1
    <3> QED BY <3>2, <3>3 DEF DiskIs
  <2> QED BY <1>1, <2>1, <2>2 DEF DiskIs
<1>3. ASSUME NEW x \in Nat PROVE There(e, x) <=> There(d, x)
  <2>1. ASSUME NEW f \in Files, NEW o \in Int, o = x - Start(f)
        PROVE  (o \in 0..(Len(e[f]) - 1) /\ e[f][o + 1] = x)
                  <=> (o \in 0..(Len(d[f]) - 1) /\ d[f][o + 1] = x)
    <3>1. o \in 0..(Len(e[f]) - 1) =>
             o + 1 \in 1..Len(e[f]) /\ e[f][o + 1] = IF o + 1 <= Len(d[f]) THEN d[f][o + 1] ELSE Junk
      BY <1>1
    <3>2. x # Junk
      BY DEF Junk
    <3>3. o \in 0..(Len(d[f]) - 1) => o \in 0..(Len(e[f]) - 1) /\ o + 1 <= Len(d[f])
      BY <1>1
    <3>4. o \in 0..(Len(e[f]) - 1) /\ o + 1 <= Len(d[f]) => o \in 0..(Len(d[f]) - 1)
      BY <1>1
    <3> QED BY <3>1, <3>2, <3>3, <3>4
  <2>2. \A f \in Files : x - Start(f) \in Int
    BY FileFacts
  <2> QED BY <2>1, <2>2 DEF There
<1> QED BY <1>2, <1>3

\* Writing a range of bytes puts them into their place, and takes no byte out of its.
LEMMA WritesInPlace ==
    ASSUME Geometry, NEW d, d = disk, DiskIs(d), NEW offset \in Nat, NEW n \in Nat \ {0},
           offset + n <= lengths.total_length,
           NEW e, e = [f \in Files |-> WrittenFile(f, offset, n)]
    PROVE  /\ DiskIs(e)
           /\ \A x \in Nat : There(d, x) => There(e, x)
           /\ \A x \in offset..(offset + n - 1) : There(e, x)
<1>1. ASSUME NEW f \in Files
      PROVE  /\ e[f] \in Seq(Int) /\ Len(d[f]) <= Len(e[f]) /\ Len(e[f]) <= lens[f]
             /\ Len(d[f]) \in Nat /\ Len(e[f]) \in Nat
             /\ \A x \in Start(f)..(End(f) - 1) :
                   x \in offset..(offset + n - 1) => x - Start(f) < Len(e[f])
             /\ \A o \in 1..Len(e[f]) :
                   e[f][o] = IF Start(f) + o - 1 \in offset..(offset + n - 1) THEN Start(f) + o - 1
                             ELSE IF o <= Len(d[f]) THEN d[f][o] ELSE Junk
  <2>1. PICK w : w = WrittenFile(f, offset, n)
    OBVIOUS
  <2>2. /\ w \in Seq(Int) /\ Len(d[f]) <= Len(w) /\ Len(w) <= lens[f]
        /\ \A x \in Start(f)..(End(f) - 1) :
              x \in offset..(offset + n - 1) => x - Start(f) < Len(w)
        /\ \A o \in 1..Len(w) :
              w[o] = IF Start(f) + o - 1 \in offset..(offset + n - 1) THEN Start(f) + o - 1
                     ELSE IF o <= Len(d[f]) THEN d[f][o] ELSE Junk
    BY <2>1, WrittenFacts
  <2>3. e[f] = w
    BY <2>1
  <2>4. Len(d[f]) \in Nat /\ Len(w) \in Nat
    BY <2>2 DEF DiskIs
  <2> QED BY <2>2, <2>3, <2>4
<1>2. e \in [Files -> Seq(Int)]
  BY <1>1
<1>3. ASSUME NEW f \in Files, NEW o \in DOMAIN e[f] PROVE e[f][o] \in {Junk, Start(f) + o - 1}
  <2>1. o \in 1..Len(e[f]) /\ DOMAIN d[f] = 1..Len(d[f])
    BY <1>1, <1>3 DEF DiskIs
  <2>2. o <= Len(d[f]) => o \in DOMAIN d[f]
    BY <1>1, <2>1
  <2>3. o <= Len(d[f]) => d[f][o] \in {Junk, Start(f) + o - 1}
    BY <2>2 DEF DiskIs
  <2> QED BY <1>1, <2>1, <2>3
<1>4. DiskIs(e)
  BY <1>1, <1>2, <1>3 DEF DiskIs
<1>5. ASSUME NEW x \in Nat, There(d, x) PROVE There(e, x)
  <2>1. PICK f \in Files, o \in Int :
            o = x - Start(f) /\ o \in 0..(Len(d[f]) - 1) /\ d[f][o + 1] = x
    BY <1>5 DEF There
  <2>2. /\ o \in 0..(Len(e[f]) - 1) /\ o + 1 \in 1..Len(e[f]) /\ o + 1 <= Len(d[f])
        /\ Start(f) + (o + 1) - 1 = x
    <3>1. PICK s \in Nat, a \in Nat, b \in Nat :
              s = Start(f) /\ a = Len(d[f]) /\ b = Len(e[f]) /\ a <= b
      BY <1>1, FileFacts
    <3>2. o = x - s /\ o \in Nat /\ o < a
      BY <2>1, <3>1
    <3>3. o \in 0..(b - 1) /\ o + 1 \in 1..b /\ o + 1 <= a
      BY <3>1, <3>2
    <3>4. s + (o + 1) - 1 = x
      BY <3>2
    <3> QED BY <3>1, <3>3, <3>4
  <2>3. e[f][o + 1] = x
    BY <1>1, <2>1, <2>2
  <2> QED BY <2>1, <2>2, <2>3 DEF There
<1>6. ASSUME NEW x \in offset..(offset + n - 1) PROVE There(e, x)
  <2>1. x \in Nat /\ x < lengths.total_length
    BY FileFacts
  <2>2. PICK f \in Files : Start(f) <= x /\ x < End(f)
    BY <2>1, InSomeFile
  <2>3. Start(f) \in Nat /\ End(f) \in Nat
    BY FileFacts
  <2>4. PICK o \in Nat : o = x - Start(f)
    BY <2>1, <2>2, <2>3
  <2>5. x \in Start(f)..(End(f) - 1)
    BY <2>1, <2>2, <2>3
  <2>6. o < Len(e[f]) /\ Len(e[f]) \in Nat
    BY <1>1, <2>4, <2>5
  <2>7. o \in 0..(Len(e[f]) - 1) /\ o + 1 \in 1..Len(e[f]) /\ Start(f) + (o + 1) - 1 = x
    <3>1. PICK s \in Nat, b \in Nat : s = Start(f) /\ b = Len(e[f])
      BY <2>3, <2>6
    <3>2. o \in 0..(b - 1) /\ o + 1 \in 1..b /\ s + (o + 1) - 1 = x
      BY <2>1, <2>4, <2>6, <3>1
    <3> QED BY <3>1, <3>2
  <2>8. e[f][o + 1] = x
    BY <1>1, <2>7
  <2> QED BY <2>4, <2>7, <2>8 DEF There
<1> QED BY <1>4, <1>5, <1>6


-----------------------------------------------------------------------------
(* The inductive invariant *)

\* The invariant is stated of a cursor c, results r and a disk d: the same formula then
\* says what holds before a step and what holds after it.

CheckingAt(c) == c.piece <= lengths.last_piece_id

Have(d, p) == \A x \in BytesOfPiece(p) : There(d, x)

PieceStart(p) == piece_offset(lengths, p)
PieceEnd(p) == piece_offset(lengths, p) + piece_length(lengths, p)

\* The bytes before this one were looked at.
Position(c) == Start(c.file) + c.processed

CursorIs(c) ==
    /\ c \in [piece : Nat, remaining : Nat, hash_ok : BOOLEAN, broken : BOOLEAN,
              required : BOOLEAN, file : Files, processed : Nat, is_broken : BOOLEAN]
    /\ c.piece <= lengths.last_piece_id + 1
    /\ c.remaining <= lengths.piece_length
    /\ c.processed <= lens[c.file]

\* The walk through the pieces and the walk through the files are at the same byte, and
\* the hash is right as long as every byte of the piece was.
ReadingIs(c, d) ==
    CheckingAt(c) =>
        /\ Position(c) + c.remaining = PieceEnd(c.piece)
        /\ c.remaining <= piece_length(lengths, c.piece)
        /\ c.is_broken <=> Len(d[c.file]) < c.processed
        /\ c.hash_ok <=> \A x \in PieceStart(c.piece)..(Position(c) - 1) : There(d, x)
        /\ c.broken => ~c.hash_ok

\* File f has a byte of piece p, or is empty inside it, or ends where it starts.
Wanted(p, f) == PieceStart(p) <= End(f) /\ Start(f) <= PieceEnd(p) - 1

\* The piece is required if a selected file up to the current one has a byte behind the
\* start of the piece, and only if some selected file asks for it.
RequiredIs(c) ==
    CheckingAt(c) =>
        /\ \A f \in only_files : f <= c.file /\ PieceStart(c.piece) < End(f) => c.required
        /\ c.required => \E f \in only_files : Wanted(c.piece, f)

\* The verdicts on the pieces before the cursor.
VerdictsAre(c, r, d, wr) ==
    /\ \A p \in r.have_pieces \cup r.needed_pieces : p < c.piece
    /\ r.have_pieces \cap r.needed_pieces = {}
    /\ CheckingAt(c) \/ wr = {} =>
          \A p \in PieceIds(lengths) : p \in r.have_pieces <=> p < c.piece /\ Have(d, p)
    /\ \A p \in PieceIds(lengths), f \in only_files :
          p < c.piece /\ Touches(p, f) => p \in r.have_pieces \cup r.needed_pieces
    /\ \A p \in r.needed_pieces : \E f \in only_files : Wanted(p, f)

\* The results, and the sums in them.
ResultsAre(c, r) ==
    /\ r \in [needed_pieces : SUBSET PieceIds(lengths), have_pieces : SUBSET PieceIds(lengths),
              have_bytes : Nat, needed_bytes : Nat, total_selected_bytes : Nat]
    /\ r.have_bytes = Cardinality(UNION {BytesOfPiece(p) : p \in r.have_pieces})
    /\ only_files = Files =>
          r.total_selected_bytes = IF CheckingAt(c) THEN PieceStart(c.piece)
                                   ELSE lengths.total_length

\* What was written stays.
WrittenAre(c, d, wr, done) ==
    /\ CheckingAt(c) => wr = {}
    /\ \A i \in wr :
          /\ i.piece_index \in PieceIds(lengths) /\ i \in ChunkInfos(lengths, i.piece_index)
          /\ \A x \in BytesOfChunk(i) : There(d, x)
    /\ \A p \in done : p \in PieceIds(lengths) /\ Have(d, p)

FilesInv ==
    /\ Geometry
    /\ DiskIs(disk)
    /\ CursorIs(cursor)
    /\ ReadingIs(cursor, disk)
    /\ RequiredIs(cursor)
    /\ VerdictsAre(cursor, results, disk, written)
    /\ ResultsAre(cursor, results)
    /\ WrittenAre(cursor, disk, written, completed)

\* While the torrent stays the same, so does everything that is computed from it, and
\* the invariant of the next state is one of its cursor, its results and its disk.
LEMMA SameTorrent ==
    ASSUME UNCHANGED torrentVars,
           Geometry, DiskIs(disk'), CursorIs(cursor'), ReadingIs(cursor', disk'),
           RequiredIs(cursor'), VerdictsAre(cursor', results', disk', written'),
           ResultsAre(cursor', results'), WrittenAre(cursor', disk', written', completed')
    PROVE  FilesInv'
<1>1. lens' = lens /\ lengths' = lengths /\ only_files' = only_files
  BY DEF torrentVars
<1>2. Files' = Files
  BY <1>1 DEF Files
<1>3. \A f : Start(f)' = Start(f) /\ End(f)' = End(f)
  BY <1>1, Zenon DEF Start, End
<1>4. Geometry'
  BY <1>1, <1>2 DEF Geometry
<1>5. DiskIs(disk)'
  BY <1>1, <1>2, <1>3 DEF DiskIs
<1>6. \A d, x : There(d, x)' <=> There(d, x)
  BY <1>2, <1>3, Zenon DEF There
<1>7. \A x : There(disk, x)' <=> There(disk', x)
  BY <1>2, <1>3, Zenon DEF There
<1>8. \A p : BytesOfPiece(p)' = BytesOfPiece(p)
  BY <1>1, Zenon DEF BytesOfPiece
<1>9. \A i : BytesOfChunk(i)' = BytesOfChunk(i)
  BY <1>1, Zenon DEF BytesOfChunk
<1>10. \A p, f : Touches(p, f)' <=> Touches(p, f)
  BY <1>1, Zenon DEF Touches, BytesOfPiece
<1>11. \A p : PieceStart(p)' = PieceStart(p) /\ PieceEnd(p)' = PieceEnd(p)
  BY <1>1, Zenon DEF PieceStart, PieceEnd
<1>12. /\ PieceStart(cursor.piece)' = PieceStart(cursor'.piece)
       /\ PieceEnd(cursor.piece)' = PieceEnd(cursor'.piece)
  BY <1>1, Zenon DEF PieceStart, PieceEnd
<1>13. Position(cursor)' = Position(cursor')
  BY <1>1, Zenon DEF Position, Start
<1>14. CheckingAt(cursor)' <=> CheckingAt(cursor')
  BY <1>1 DEF CheckingAt
<1>15. \A p, f : Wanted(p, f)' <=> Wanted(p, f)
  BY <1>3, <1>11, Zenon DEF Wanted
<1>16. \A f : Wanted(cursor.piece, f)' <=> Wanted(cursor'.piece, f)
  BY <1>3, <1>12, Zenon DEF Wanted
<1>17. \A p : Have(disk, p)' <=> Have(disk', p)
  BY <1>7, <1>8, Zenon DEF Have
<1>18. CursorIs(cursor)'
  BY <1>1, <1>2 DEF CursorIs
<1>19. ReadingIs(cursor, disk)'
  BY <1>1, <1>7, <1>12, <1>13, <1>14 DEF ReadingIs
<1>20. RequiredIs(cursor)'
  BY <1>1, <1>3, <1>12, <1>14, <1>16 DEF RequiredIs
<1>21. VerdictsAre(cursor, results, disk, written)'
  BY <1>1, <1>10, <1>14, <1>15, <1>17 DEF VerdictsAre
<1>22. ResultsAre(cursor, results)'
  BY <1>1, <1>2, <1>8, <1>12, <1>14 DEF ResultsAre
<1>23. WrittenAre(cursor, disk, written, completed)'
  BY <1>1, <1>7, <1>9, <1>14, <1>17 DEF WrittenAre
<1> QED BY <1>4, <1>5, <1>18, <1>19, <1>20, <1>21, <1>22, <1>23 DEF FilesInv


-----------------------------------------------------------------------------
(* The steps of initial_check *)

\* The cursor is inside the piece, and the piece inside the torrent.
LEMMA AtPiece ==
    ASSUME Geometry, NEW c, NEW d, CursorIs(c), ReadingIs(c, d), CheckingAt(c)
    PROVE  /\ c.piece \in PieceIds(lengths) /\ c.remaining \in Nat /\ c.processed \in Nat
           /\ c.file \in Files /\ Position(c) \in Nat
           /\ PieceStart(c.piece) \in Nat /\ PieceEnd(c.piece) \in Nat
           /\ PieceStart(c.piece) <= Position(c) /\ PieceStart(c.piece) < PieceEnd(c.piece)
           /\ PieceEnd(c.piece) = Position(c) + c.remaining
           /\ PieceEnd(c.piece) <= lengths.total_length
<1>1. c.piece \in PieceIds(lengths)
  <2>1. c.piece \in Nat /\ c.piece <= lengths.last_piece_id
    BY DEF CursorIs, CheckingAt
  <2>2. lengths.last_piece_id \in Nat
    BY DEF Geometry, LengthsOK
  <2> QED BY <2>1, <2>2 DEF PieceIds
<1>2. PICK po \in Nat, len \in Nat : /\ po = PieceStart(c.piece) /\ len = piece_length(lengths, c.piece)
                                     /\ len > 0 /\ po + len <= lengths.total_length
  <2>1. LengthsOK(lengths)
    BY DEF Geometry
  <2>2. /\ PieceStart(c.piece) \in Nat /\ piece_length(lengths, c.piece) \in 1..lengths.piece_length
        /\ PieceStart(c.piece) + piece_length(lengths, c.piece) <= lengths.total_length
    BY <1>1, <2>1, PieceFacts DEF PieceStart
  <2>3. lengths.piece_length \in Nat
    BY <2>1 DEF LengthsOK
  <2> QED BY <2>2, <2>3
<1>3. PieceEnd(c.piece) = po + len
  BY <1>2 DEF PieceEnd, PieceStart
<1>4. c.remaining \in Nat /\ c.processed \in Nat /\ c.file \in Files
  BY DEF CursorIs
<1>5. Start(c.file) \in Nat
  BY <1>4, FileFacts
<1>6. Position(c) \in Nat
  BY <1>4, <1>5 DEF Position
<1>7. Position(c) + c.remaining = PieceEnd(c.piece) /\ c.remaining <= len
  BY <1>2 DEF ReadingIs
<1> QED BY <1>1, <1>2, <1>3, <1>4, <1>6, <1>7

\* The first file and the first piece start together.
LEMMA StartIs ==
    ASSUME Geometry, NEW d, DiskIs(d), NEW c, c = StartCursor(lens, lengths, only_files)
    PROVE  CursorIs(c) /\ ReadingIs(c, d) /\ RequiredIs(c) /\ CheckingAt(c) /\ c.piece = 0
<1>1. /\ c.piece = 0 /\ c.remaining = piece_length(lengths, 0) /\ c.hash_ok = TRUE
      /\ c.broken = FALSE /\ c.required = (1 \in only_files) /\ c.file = 1 /\ c.processed = 0
      /\ c.is_broken = FALSE
  BY DEF StartCursor
<1>2. 0 \in PieceIds(lengths) /\ lengths.last_piece_id \in Nat
  BY DEF Geometry, LengthsOK, PieceIds
<1>3. PICK len \in Nat : len = piece_length(lengths, 0) /\ len > 0 /\ len <= lengths.piece_length
  BY <1>2, PieceFacts DEF Geometry, LengthsOK
<1>4. PieceStart(0) = 0 /\ PieceEnd(0) = len
  BY <1>2, <1>3, PieceFacts DEF Geometry, PieceStart, PieceEnd
<1>5. 1 \in Files /\ Start(1) = 0 /\ lens[1] \in Nat /\ End(1) \in Nat /\ Files = 1..Len(lens)
  BY FileFacts
<1>6. Position(c) = 0
  BY <1>1, <1>5 DEF Position
<1>7. CheckingAt(c)
  BY <1>1, <1>2 DEF CheckingAt
<1>8. CursorIs(c)
  <2>1. c \in [piece : Nat, remaining : Nat, hash_ok : BOOLEAN, broken : BOOLEAN,
               required : BOOLEAN, file : Files, processed : Nat, is_broken : BOOLEAN]
    BY <1>3, <1>5 DEF StartCursor
  <2> QED BY <1>1, <1>2, <1>3, <1>5, <2>1 DEF CursorIs
<1>9. ReadingIs(c, d)
  <2>1. Len(d[1]) \in Nat
    BY <1>5 DEF DiskIs
  <2>2. ~(Len(d[1]) < 0)
    BY <2>1
  <2>3. \A x \in 0..(0 - 1) : There(d, x)
    OBVIOUS
  <2> QED BY <1>1, <1>3, <1>4, <1>6, <2>2, <2>3 DEF ReadingIs
<1>10. RequiredIs(c)
  <2>1. ASSUME NEW f \in only_files, f <= 1 PROVE f = 1
    BY <1>5, <2>1 DEF Geometry
  <2>2. 1 \in only_files => Wanted(0, 1)
    BY <1>3, <1>4, <1>5 DEF Wanted
  <2> QED BY <1>1, <2>1, <2>2 DEF RequiredIs
<1> QED BY <1>1, <1>7, <1>8, <1>9, <1>10

\* No result yet.
LEMMA NoResultsAre ==
    ASSUME Geometry, NEW c, c.piece = 0, NEW d
    PROVE  VerdictsAre(c, NoResults, d, {}) /\ ResultsAre(c, NoResults)
<1>1. PICK r : r = NoResults
  OBVIOUS
<1>2. /\ r.needed_pieces = {} /\ r.have_pieces = {} /\ r.have_bytes = 0 /\ r.needed_bytes = 0
      /\ r.total_selected_bytes = 0
  BY <1>1 DEF NoResults
<1>3. \A p \in PieceIds(lengths) : ~(p < 0)
  BY DEF PieceIds, Geometry, LengthsOK
<1>4. VerdictsAre(c, r, d, {})
  BY <1>2, <1>3 DEF VerdictsAre
<1>5. 0 \in PieceIds(lengths) /\ 0 <= lengths.last_piece_id
  BY DEF Geometry, LengthsOK, PieceIds
<1>6. PieceStart(0) = 0 /\ CheckingAt(c)
  BY <1>5, PieceFacts DEF Geometry, PieceStart, CheckingAt
<1>7. UNION {BytesOfPiece(p) : p \in r.have_pieces} = {}
  BY <1>2
<1>8. Cardinality({}) = 0
  BY FS_EmptySet
<1>9. r \in [needed_pieces : SUBSET PieceIds(lengths), have_pieces : SUBSET PieceIds(lengths),
             have_bytes : Nat, needed_bytes : Nat, total_selected_bytes : Nat]
  BY <1>1 DEF NoResults
<1>10. ResultsAre(c, r)
  BY <1>2, <1>6, <1>7, <1>8, <1>9 DEF ResultsAre
<1> QED BY <1>1, <1>4, <1>10

LEMMA InitFiles ==
    Init => FilesInv
<1> SUFFICES ASSUME Init PROVE FilesInv
  OBVIOUS
<1>1. PICK n \in 1..MaxFiles : \E ls \in [1..n -> FileLens], pl \in PieceLens,
                                  sel \in SUBSET (1..n), how \in [1..n -> Found] :
          /\ IsValid(TotalLength(ls), pl, ChunkLen)
          /\ lens = ls
          /\ lengths = NewLengths(TotalLength(ls), pl, ChunkLen)
          /\ only_files = sel
          /\ disk = [f \in 1..n |-> OldFile(ls, f, how[f])]
          /\ cursor = StartCursor(ls, NewLengths(TotalLength(ls), pl, ChunkLen), sel)
  BY DEF Init
<1>2. PICK pl \in PieceLens, how \in [1..n -> Found] :
          /\ lens \in [1..n -> FileLens]
          /\ IsValid(TotalLength(lens), pl, ChunkLen)
          /\ lengths = NewLengths(TotalLength(lens), pl, ChunkLen)
          /\ only_files \in SUBSET (1..n)
          /\ disk = [f \in 1..n |-> OldFile(lens, f, how[f])]
          /\ cursor = StartCursor(lens, lengths, only_files)
  BY <1>1
<1>3. results = NoResults /\ written = {} /\ completed = {}
  BY DEF Init
<1>4. n \in Nat \ {0} /\ \A f \in 1..n : lens[f] \in Nat
  <2>1. MaxFiles \in Nat /\ FileLens \subseteq Nat
    BY FileOpsAssumption
  <2>2. n \in Nat \ {0}
    BY <2>1
  <2>3. \A f \in 1..n : lens[f] \in FileLens
    BY <1>2
  <2> QED BY <2>1, <2>2, <2>3
<1>5. lens \in Seq(Nat) /\ Len(lens) = n /\ Files = 1..n
  BY <1>2, <1>4 DEF Files
<1>6. TotalLength(lens) \in Nat
  <2>1. FileStart(lens, n) \in Nat /\ n \in 1..n
    BY <1>4, <1>5, StartRecurs
  <2> QED BY <1>4, <1>5, <2>1 DEF TotalLength
<1>7. LengthsOK(lengths) /\ lengths.total_length = TotalLength(lens)
  BY <1>2, <1>6, NewLengthsOK, FileOpsAssumption
<1>8. Geometry
  BY <1>2, <1>4, <1>5, <1>7 DEF Geometry
<1>9. DiskIs(disk)
  <2>1. ASSUME NEW f \in Files
        PROVE  /\ disk[f] \in Seq(Int) /\ Len(disk[f]) <= lens[f]
               /\ \A o \in DOMAIN disk[f] : disk[f][o] \in {Junk, Start(f) + o - 1}
    <3>1. disk[f] = OldFile(lens, f, how[f])
      BY <1>2, <1>5
    <3>2. PICK s \in Nat, l \in Nat : s = Start(f) /\ l = lens[f] /\ s = FileStart(lens, f)
      BY <1>8, FileFacts DEF Start
    <3>3. CASE how[f] = "empty"
      <4>1. disk[f] = <<>>
        BY <3>1, <3>3 DEF OldFile
      <4> QED BY <3>2, <4>1
    <3>4. CASE how[f] # "empty"
      <4>1. disk[f] = [o \in 1..l |-> IF how[f] = "good" THEN s + o - 1 ELSE Junk]
        BY <3>1, <3>2, <3>4 DEF OldFile
      <4>2. \A o \in 1..l : (IF how[f] = "good" THEN s + o - 1 ELSE Junk) \in Int
        BY DEF Junk
      <4>3. disk[f] \in Seq(Int) /\ Len(disk[f]) = l /\ DOMAIN disk[f] = 1..l
        BY <4>1, <4>2
      <4> QED BY <3>2, <4>1, <4>3
    <3> QED BY <3>3, <3>4
  <2>2. disk \in [Files -> Seq(Int)]
    BY <1>2, <1>5, <2>1
  <2> QED BY <2>1, <2>2 DEF DiskIs
<1>10. /\ CursorIs(cursor) /\ ReadingIs(cursor, disk) /\ RequiredIs(cursor) /\ cursor.piece = 0
  BY <1>2, <1>8, <1>9, StartIs
<1>11. VerdictsAre(cursor, results, disk, written) /\ ResultsAre(cursor, results)
  BY <1>3, <1>8, <1>10, NoResultsAre
<1>12. WrittenAre(cursor, disk, written, completed)
  BY <1>3 DEF WrittenAre
<1> QED BY <1>8, <1>9, <1>10, <1>11, <1>12 DEF FilesInv


LEMMA NextFileFiles ==
    ASSUME FilesInv, next_file
    PROVE  FilesInv'
<1>1. PICK c : c = cursor
  OBVIOUS
<1>2. PICK e : e = cursor'
  OBVIOUS
<1>3. /\ Geometry /\ DiskIs(disk) /\ CursorIs(c) /\ ReadingIs(c, disk) /\ RequiredIs(c)
      /\ VerdictsAre(c, results, disk, written) /\ ResultsAre(c, results)
      /\ WrittenAre(c, disk, written, completed)
  BY <1>1 DEF FilesInv
<1>4. /\ UNCHANGED torrentVars
      /\ disk' = disk /\ results' = results /\ written' = written /\ completed' = completed
  BY DEF next_file
<1>5. CheckingAt(c) /\ c.remaining > 0 /\ Least(lens[c.file] - c.processed, c.remaining) = 0
  BY <1>1 DEF next_file, Checking, CheckingAt, to_read_in_file
<1>6. e = [c EXCEPT !.file = @ + 1, !.processed = 0, !.is_broken = FALSE,
                    !.required = @ \/ c.file + 1 \in only_files]
  BY <1>1, <1>2 DEF next_file
<1>7. /\ c.piece \in PieceIds(lengths) /\ c.remaining \in Nat /\ c.processed \in Nat
      /\ c.file \in Files /\ Position(c) \in Nat
      /\ PieceStart(c.piece) \in Nat /\ PieceEnd(c.piece) \in Nat
      /\ PieceStart(c.piece) <= Position(c) /\ PieceStart(c.piece) < PieceEnd(c.piece)
      /\ PieceEnd(c.piece) = Position(c) + c.remaining
      /\ PieceEnd(c.piece) <= lengths.total_length
  BY <1>3, <1>5, AtPiece
<1>8. PICK s \in Nat, l \in Nat : /\ s = Start(c.file) /\ l = lens[c.file] /\ End(c.file) = s + l
                                  /\ c.processed <= l
  BY <1>3, <1>7, FileFacts DEF CursorIs
<1>9. c.processed = l /\ Position(c) = s + l
  <2>1. c.processed = l
    BY <1>5, <1>7, <1>8 DEF Least
  <2> QED BY <1>8, <2>1 DEF Position
<1>10. c.file # Len(lens)
  <2>1. c.file = Len(lens) => s + l = lengths.total_length
    BY <1>3, <1>7, <1>8, FileFacts
  <2>2. s + l < lengths.total_length /\ lengths.total_length \in Nat
    BY <1>3, <1>5, <1>7, <1>9, FileFacts
  <2> QED BY <2>1, <2>2
<1>11. PICK g \in Files : g = c.file + 1 /\ Start(g) = s + l
  BY <1>3, <1>7, <1>8, <1>10, FileFacts
<1>12. /\ g \in Nat /\ lens[g] \in Nat /\ Start(g) \in Nat /\ End(g) = Start(g) + lens[g]
       /\ c.file \in Nat
  BY <1>3, <1>7, FileFacts
<1>13. c \in [piece : Nat, remaining : Nat, hash_ok : BOOLEAN, broken : BOOLEAN,
              required : BOOLEAN, file : Files, processed : Nat, is_broken : BOOLEAN]
  BY <1>3 DEF CursorIs
<1>14. /\ e.piece = c.piece /\ e.remaining = c.remaining /\ e.hash_ok = c.hash_ok
       /\ e.broken = c.broken /\ e.required = (c.required \/ g \in only_files)
       /\ e.file = g /\ e.processed = 0 /\ e.is_broken = FALSE
  BY <1>6, <1>11, <1>13
<1>15. e \in [piece : Nat, remaining : Nat, hash_ok : BOOLEAN, broken : BOOLEAN,
              required : BOOLEAN, file : Files, processed : Nat, is_broken : BOOLEAN]
  BY <1>6, <1>11, <1>13
<1>16. Position(e) = Position(c)
  BY <1>9, <1>11, <1>12, <1>14 DEF Position
<1>17. CheckingAt(e)
  BY <1>5, <1>14 DEF CheckingAt
<1>18. CursorIs(e)
  BY <1>3, <1>12, <1>14, <1>15 DEF CursorIs
<1>19. ReadingIs(e, disk)
  <2>1. ~(Len(disk[g]) < 0)
    BY <1>3 DEF DiskIs
  <2> QED BY <1>3, <1>5, <1>14, <1>16, <2>1 DEF ReadingIs
<1>20. RequiredIs(e)
  <2>1. ASSUME NEW f \in only_files, f <= g, PieceStart(c.piece) < End(f)
        PROVE  c.required \/ g \in only_files
    <3>1. f \in Nat /\ (f = g \/ f <= c.file)
      <4>1. f \in Nat
        BY <1>3, FileFacts DEF Geometry
      <4>2. PICK k \in Nat : k = c.file /\ g = k + 1
        BY <1>11, <1>12
      <4>3. f = g \/ f <= k
        BY <2>1, <4>1, <4>2
      <4> QED BY <4>1, <4>2, <4>3
    <3> QED BY <1>3, <1>5, <2>1, <3>1 DEF RequiredIs
  <2>2. Wanted(c.piece, g)
    <3>1. Start(g) = Position(c) /\ Position(c) <= PieceEnd(c.piece) - 1
      BY <1>5, <1>7, <1>9, <1>11
    <3> QED BY <1>7, <1>12, <3>1 DEF Wanted
  <2>3. c.required => \E f \in only_files : Wanted(c.piece, f)
    BY <1>3, <1>5 DEF RequiredIs
  <2> QED BY <1>14, <2>1, <2>2, <2>3 DEF RequiredIs
<1>21. VerdictsAre(e, results, disk, written)
  BY <1>3, <1>5, <1>14, <1>17 DEF VerdictsAre
<1>22. ResultsAre(e, results)
  BY <1>3, <1>5, <1>14, <1>17 DEF ResultsAre
<1>23. WrittenAre(e, disk, written, completed)
  BY <1>3, <1>5 DEF WrittenAre
<1> QED BY <1>2, <1>3, <1>4, <1>18, <1>19, <1>20, <1>21, <1>22, <1>23, SameTorrent

LEMMA ReadInFileFiles ==
    ASSUME FilesInv, read_in_file
    PROVE  FilesInv'
<1>1. PICK c : c = cursor
  OBVIOUS
<1>2. PICK e : e = cursor'
  OBVIOUS
<1>3. /\ Geometry /\ DiskIs(disk) /\ CursorIs(c) /\ ReadingIs(c, disk) /\ RequiredIs(c)
      /\ VerdictsAre(c, results, disk, written) /\ ResultsAre(c, results)
      /\ WrittenAre(c, disk, written, completed)
  BY <1>1 DEF FilesInv
<1>4. /\ UNCHANGED torrentVars
      /\ disk' = disk /\ results' = results /\ written' = written /\ completed' = completed
  BY DEF read_in_file
<1>5. CheckingAt(c) /\ to_read_in_file > 0
  BY <1>1 DEF read_in_file, Checking, CheckingAt
<1>6. /\ c.piece \in PieceIds(lengths) /\ c.remaining \in Nat /\ c.processed \in Nat
      /\ c.file \in Files /\ Position(c) \in Nat
      /\ PieceStart(c.piece) \in Nat /\ PieceEnd(c.piece) \in Nat
      /\ PieceStart(c.piece) <= Position(c) /\ PieceStart(c.piece) < PieceEnd(c.piece)
      /\ PieceEnd(c.piece) = Position(c) + c.remaining
      /\ PieceEnd(c.piece) <= lengths.total_length
  BY <1>3, <1>5, AtPiece
<1>7. PICK f \in Files : f = c.file
  BY <1>6
<1>8. PICK s \in Nat, l \in Nat : s = Start(f) /\ l = lens[f] /\ c.processed <= l
  BY <1>3, <1>7, FileFacts DEF CursorIs
<1>9. PICK a \in Nat : a = c.processed
  BY <1>6
<1>10. PICK t \in Nat : /\ t = to_read_in_file /\ t = Least(l - a, c.remaining)
                        /\ t > 0 /\ a + t <= l /\ t <= c.remaining
  <2>1. to_read_in_file = Least(l - a, c.remaining)
    BY <1>1, <1>7, <1>8, <1>9 DEF to_read_in_file
  <2>2. Least(l - a, c.remaining) \in Nat
    BY <1>6, <1>8, <1>9 DEF Least
  <2> QED BY <1>5, <1>6, <1>8, <1>9, <2>1, <2>2 DEF Least
<1>11. PICK b \in Nat : b = a + t
  OBVIOUS
<1>12. PICK len \in Nat : len = Len(disk[f])
  BY <1>3 DEF DiskIs
<1> DEFINE short == len < b
           right == \A o \in a..(b - 1) : disk[f][o + 1] = s + o
<1>13. e = [c EXCEPT !.remaining = @ - t,
                     !.processed = b,
                     !.hash_ok   = @ /\ ~c.is_broken /\ ~short /\ right,
                     !.broken    = @ \/ (~c.is_broken /\ short),
                     !.is_broken = @ \/ short]
  BY <1>1, <1>2, <1>7, <1>8, <1>9, <1>10, <1>11, <1>12 DEF read_in_file, Start
<1>14. c \in [piece : Nat, remaining : Nat, hash_ok : BOOLEAN, broken : BOOLEAN,
              required : BOOLEAN, file : Files, processed : Nat, is_broken : BOOLEAN]
  BY <1>3 DEF CursorIs
<1>15. c.remaining - t \in Nat
  BY <1>6, <1>10
<1>16. /\ e.piece = c.piece /\ e.remaining = c.remaining - t
       /\ e.hash_ok = (c.hash_ok /\ ~c.is_broken /\ ~short /\ right)
       /\ e.broken = (c.broken \/ (~c.is_broken /\ short)) /\ e.required = c.required
       /\ e.file = f /\ e.processed = b /\ e.is_broken = (c.is_broken \/ short)
  BY <1>7, <1>13, <1>14
<1>17. e \in [piece : Nat, remaining : Nat, hash_ok : BOOLEAN, broken : BOOLEAN,
              required : BOOLEAN, file : Files, processed : Nat, is_broken : BOOLEAN]
  BY <1>13, <1>14, <1>15
<1>18. Position(c) = s + a /\ Position(e) = s + b
  BY <1>7, <1>8, <1>9, <1>16 DEF Position
<1>19. CheckingAt(e)
  BY <1>5, <1>16 DEF CheckingAt
<1>20. CursorIs(e)
  <2>1. c.remaining <= lengths.piece_length /\ lengths.piece_length \in Nat
    BY <1>3 DEF CursorIs, Geometry, LengthsOK
  <2>2. e.remaining <= lengths.piece_length
    BY <1>6, <1>10, <1>16, <2>1
  <2>3. e.processed <= lens[e.file]
    BY <1>8, <1>10, <1>11, <1>16
  <2>4. e.piece <= lengths.last_piece_id + 1
    BY <1>3, <1>16 DEF CursorIs
  <2> QED BY <1>17, <2>2, <2>3, <2>4 DEF CursorIs
<1>21. c.is_broken <=> len < a
  BY <1>3, <1>5, <1>7, <1>9, <1>12 DEF ReadingIs
<1>22. e.is_broken <=> len < b
  <2>1. len < a => len < b
    BY <1>10, <1>11
  <2> QED BY <1>16, <1>21, <2>1, Zenon
<1>23. (~c.is_broken /\ ~short /\ right) <=> \A x \in (s + a)..(s + b - 1) : There(disk, x)
  <2>1. ASSUME NEW o \in a..(b - 1)
        PROVE  There(disk, s + o) <=> o < len /\ disk[f][o + 1] = s + o
    <3>1. o \in 0..(lens[f] - 1)
      BY <1>8, <1>10, <1>11
    <3> QED BY <1>3, <1>8, <1>12, <3>1, ThereAt
  <2>2. ASSUME ~c.is_broken, ~short, right, NEW x \in (s + a)..(s + b - 1) PROVE There(disk, x)
    <3>1. x - s \in a..(b - 1) /\ x = s + (x - s) /\ x - s < len
      BY <2>2
    <3>2. PICK o \in a..(b - 1) : x = s + o /\ o < len
      BY <3>1
    <3> QED BY <2>1, <2>2, <3>2
  <2>3. ASSUME \A x \in (s + a)..(s + b - 1) : There(disk, x)
        PROVE  ~c.is_broken /\ ~short /\ right
    <3>1. ASSUME NEW o \in a..(b - 1) PROVE o < len /\ disk[f][o + 1] = s + o
      <4>1. s + o \in (s + a)..(s + b - 1)
        OBVIOUS
      <4> QED BY <2>1, <2>3, <4>1
    <3>2. b - 1 \in a..(b - 1)
      BY <1>10, <1>11
    <3>3. b - 1 < len
      BY <3>1, <3>2
    <3>4. ~short
      BY <3>3
    <3>5. ~c.is_broken
      BY <1>10, <1>11, <1>21, <3>4
    <3> QED BY <3>1, <3>4, <3>5
  <2> QED BY <2>2, <2>3
<1>24. c.hash_ok <=> \A x \in PieceStart(c.piece)..(s + a - 1) : There(disk, x)
  BY <1>3, <1>5, <1>18 DEF ReadingIs
<1> HIDE DEF short, right
<1>25. e.hash_ok <=> \A x \in PieceStart(c.piece)..(s + b - 1) : There(disk, x)
  <2>1. PICK po \in Nat : po = PieceStart(c.piece) /\ po <= s + a
    BY <1>6, <1>18
  <2>2. \A x : x \in po..(s + b - 1) <=> x \in po..(s + a - 1) \/ x \in (s + a)..(s + b - 1)
    BY <1>10, <1>11, <2>1
  <2>3. (\A x \in po..(s + b - 1) : There(disk, x)) <=>
            /\ \A x \in po..(s + a - 1) : There(disk, x)
            /\ \A x \in (s + a)..(s + b - 1) : There(disk, x)
    BY <2>2
  <2> QED BY <1>16, <1>23, <1>24, <2>1, <2>3
<1>26. e.broken => ~e.hash_ok
  <2>1. c.broken => ~c.hash_ok
    BY <1>3, <1>5 DEF ReadingIs
  <2> QED BY <1>16, <2>1
<1>27. ReadingIs(e, disk)
  <2>1. Position(e) + e.remaining = PieceEnd(e.piece)
    BY <1>6, <1>10, <1>11, <1>15, <1>16, <1>18
  <2>2. e.remaining <= piece_length(lengths, e.piece)
    <3>1. c.remaining <= piece_length(lengths, c.piece) /\ piece_length(lengths, c.piece) \in Int
      BY <1>3, <1>5, <1>6, PieceFacts DEF ReadingIs, Geometry
    <3> QED BY <1>6, <1>10, <1>16, <3>1
  <2> QED BY <1>12, <1>16, <1>18, <1>22, <1>25, <1>26, <2>1, <2>2 DEF ReadingIs
<1>28. RequiredIs(e)
  BY <1>3, <1>5, <1>7, <1>16 DEF RequiredIs
<1>29. VerdictsAre(e, results, disk, written)
  BY <1>3, <1>5, <1>16, <1>19 DEF VerdictsAre
<1>30. ResultsAre(e, results)
  BY <1>3, <1>5, <1>16, <1>19 DEF ResultsAre
<1>31. WrittenAre(e, disk, written, completed)
  BY <1>3, <1>5 DEF WrittenAre
<1> QED BY <1>2, <1>3, <1>4, <1>20, <1>27, <1>28, <1>29, <1>30, <1>31, SameTorrent


\* The bytes of a piece are bytes of the torrent.
LEMMA BytesFacts ==
    ASSUME Geometry, NEW p \in PieceIds(lengths)
    PROVE  /\ p \in Nat /\ PieceStart(p) \in Nat /\ PieceEnd(p) \in Nat
           /\ piece_length(lengths, p) \in Nat \ {0}
           /\ PieceEnd(p) = PieceStart(p) + piece_length(lengths, p)
           /\ PieceEnd(p) <= lengths.total_length
           /\ BytesOfPiece(p) = PieceStart(p)..(PieceEnd(p) - 1)
           /\ BytesOfPiece(p) \subseteq 0..(lengths.total_length - 1)
           /\ \A q \in PieceIds(lengths) : p # q => BytesOfPiece(p) \cap BytesOfPiece(q) = {}
<1>1. ASSUME NEW q \in PieceIds(lengths)
      PROVE  /\ q \in Nat /\ PieceStart(q) \in Nat /\ PieceEnd(q) \in Nat
             /\ piece_length(lengths, q) \in Nat \ {0}
             /\ PieceEnd(q) = PieceStart(q) + piece_length(lengths, q)
             /\ PieceEnd(q) <= lengths.total_length
             /\ BytesOfPiece(q) = PieceStart(q)..(PieceEnd(q) - 1)
  <2>1. PICK po \in Nat, len \in Nat : /\ po = PieceStart(q) /\ len = piece_length(lengths, q)
                                       /\ len > 0 /\ po + len <= lengths.total_length
    <3>1. LengthsOK(lengths) /\ lengths.piece_length \in Nat
      BY DEF Geometry, LengthsOK
    <3> QED BY <3>1, PieceFacts DEF PieceStart
  <2>2. PieceEnd(q) = po + len
    BY <2>1 DEF PieceEnd, PieceStart
  <2>3. BytesOfPiece(q) = PieceStart(q)..(PieceEnd(q) - 1)
    BY <2>1, <2>2 DEF BytesOfPiece, PieceStart
  <2>4. q \in Nat
    BY PieceFacts DEF Geometry
  <2>5. /\ PieceStart(q) \in Nat /\ piece_length(lengths, q) \in Nat \ {0}
        /\ PieceEnd(q) = PieceStart(q) + piece_length(lengths, q)
    BY <2>1, <2>2
  <2>6. PieceEnd(q) \in Nat /\ PieceEnd(q) <= lengths.total_length
    BY <2>1, <2>2
  <2> QED BY <2>3, <2>4, <2>5, <2>6, Zenon
<1>2. BytesOfPiece(p) \subseteq 0..(lengths.total_length - 1)
  <2>1. lengths.total_length \in Nat
    BY FileFacts
  <2>2. PICK a \in Nat, z \in Nat : a = PieceStart(p) /\ z = PieceEnd(p) /\ z <= lengths.total_length
    BY <1>1
  <2>3. a..(z - 1) \subseteq 0..(lengths.total_length - 1)
    BY <2>1, <2>2
  <2> QED BY <1>1, <2>2, <2>3
<1>3. ASSUME NEW q \in PieceIds(lengths), NEW r \in PieceIds(lengths), q < r
      PROVE  BytesOfPiece(q) \cap BytesOfPiece(r) = {}
  <2>1. PieceEnd(q) <= PieceStart(r)
    BY <1>3, PieceFacts DEF Geometry, PieceStart, PieceEnd
  <2>2. PICK a \in Nat, b \in Nat, y \in Nat, z \in Nat :
            a = PieceStart(q) /\ b = PieceEnd(q) /\ y = PieceStart(r) /\ z = PieceEnd(r)
    BY <1>1
  <2>3. a..(b - 1) \cap y..(z - 1) = {}
    BY <2>1, <2>2
  <2> QED BY <1>1, <2>2, <2>3
<1>4. ASSUME NEW q \in PieceIds(lengths), p # q
      PROVE  BytesOfPiece(p) \cap BytesOfPiece(q) = {}
  <2>1. p < q \/ q < p
    BY <1>1, <1>4
  <2> QED BY <1>3, <2>1
<1> QED BY <1>1, <1>2, <1>4

\* A piece more, its length more.
LEMMA CountPiece ==
    ASSUME Geometry, NEW S \in SUBSET PieceIds(lengths), NEW p \in PieceIds(lengths), p \notin S
    PROVE  Cardinality(UNION {BytesOfPiece(q) : q \in S \cup {p}}) =
              Cardinality(UNION {BytesOfPiece(q) : q \in S}) + piece_length(lengths, p)
<1> DEFINE A == UNION {BytesOfPiece(q) : q \in S}
           B == BytesOfPiece(p)
<1>1. UNION {BytesOfPiece(q) : q \in S \cup {p}} = A \cup B
  OBVIOUS
<1>2. A \cap B = {}
  <2>1. ASSUME NEW q \in S PROVE BytesOfPiece(q) \cap BytesOfPiece(p) = {}
    <3>1. q \in PieceIds(lengths) /\ q # p
      OBVIOUS
    <3> QED BY <3>1, BytesFacts
  <2> QED BY <2>1
<1>3. PICK a \in Nat, len \in Nat \ {0} : /\ len = piece_length(lengths, p)
                                          /\ B = a..(a + len - 1)
  BY BytesFacts
<1>4. PICK t \in Nat : t = lengths.total_length
  BY FileFacts
<1>5. IsFiniteSet(0..(t - 1))
  BY FS_Interval
<1>6. A \subseteq 0..(t - 1)
  BY <1>4, BytesFacts
<1>7. IsFiniteSet(A)
  BY <1>5, <1>6, FS_Subset
<1>8. IsFiniteSet(B) /\ Cardinality(B) = len
  <2>1. PICK z \in Int : z = a + len - 1
    OBVIOUS
  <2>2. IsFiniteSet(a..z) /\ Cardinality(a..z) = IF a > z THEN 0 ELSE z - a + 1
    BY FS_Interval
  <2> QED BY <1>3, <2>1, <2>2
<1> HIDE DEF A, B
<1>9. Cardinality(A \cup B) = Cardinality(A) + Cardinality(B) - Cardinality(A \cap B)
  BY <1>7, <1>8, FS_Union
<1>10. Cardinality(A \cap B) = 0
  BY <1>2, FS_EmptySet
<1>11. Cardinality(A) \in Nat
  BY <1>7, FS_CardinalityType
<1>12. Cardinality(A \cup B) = Cardinality(A) + len
  BY <1>8, <1>9, <1>10, <1>11
<1> QED BY <1>1, <1>3, <1>12 DEF A

\* The piece was read: the verdict says whether all its bytes are there and, if not,
\* whether it is required, and it is required if it is part of a selected file.
LEMMA VerdictFacts ==
    ASSUME Geometry, NEW c, NEW d, CursorIs(c), ReadingIs(c, d), RequiredIs(c), CheckingAt(c),
           c.remaining = 0
    PROVE  /\ Verdict(c) = "have" <=> Have(d, c.piece)
           /\ Verdict(c) = "needed" <=> c.required /\ ~Have(d, c.piece)
           /\ \A f \in only_files : Touches(c.piece, f) => c.required
           /\ c.required => \E f \in only_files : Wanted(c.piece, f)
           /\ only_files = Files => c.required
<1>1. /\ c.piece \in PieceIds(lengths) /\ c.remaining \in Nat /\ c.processed \in Nat
      /\ c.file \in Files /\ Position(c) \in Nat
      /\ PieceStart(c.piece) \in Nat /\ PieceEnd(c.piece) \in Nat
      /\ PieceStart(c.piece) <= Position(c) /\ PieceStart(c.piece) < PieceEnd(c.piece)
      /\ PieceEnd(c.piece) = Position(c) + c.remaining
      /\ PieceEnd(c.piece) <= lengths.total_length
  BY AtPiece
<1>2. Position(c) = PieceEnd(c.piece)
  BY <1>1
<1>3. c.hash_ok <=> Have(d, c.piece)
  BY <1>1, <1>2, BytesFacts DEF ReadingIs, Have
<1>4. c.broken => ~c.hash_ok
  BY DEF ReadingIs
<1>5. /\ Verdict(c) = "have" <=> c.hash_ok
      /\ Verdict(c) = "needed" <=> c.required /\ ~c.hash_ok
  <2>1. CASE c.required /\ c.broken
    BY <1>4, <2>1 DEF Verdict
  <2>2. CASE ~(c.required /\ c.broken)
    BY <2>2 DEF Verdict
  <2> QED BY <2>1, <2>2
<1>6. ASSUME NEW f \in only_files, Touches(c.piece, f) PROVE c.required
  <2>1. f \in Files
    BY DEF Geometry
  <2>2. PICK x \in BytesOfPiece(c.piece) : x \in Start(f)..(Start(f) + lens[f] - 1)
    BY <1>6 DEF Touches, Start
  <2>3. /\ f \in Nat /\ Start(f) \in Nat /\ lens[f] \in Nat /\ End(f) = Start(f) + lens[f]
        /\ c.file \in Nat /\ Start(c.file) \in Nat /\ End(c.file) = Start(c.file) + lens[c.file]
        /\ lens[c.file] \in Nat
        /\ c.file < f => End(c.file) <= Start(f)
    BY <1>1, <2>1, FileFacts
  <2>4. PieceStart(c.piece) <= x /\ x < PieceEnd(c.piece) /\ x \in Int
    BY <1>1, <2>2, BytesFacts
  <2>5. x < End(f) /\ Start(f) <= x
    BY <2>2, <2>3
  <2>6. c.processed <= lens[c.file] /\ Position(c) = Start(c.file) + c.processed
    BY DEF CursorIs, Position
  <2>7. PieceEnd(c.piece) <= End(c.file)
    BY <1>1, <1>2, <2>3, <2>6
  <2>8. f <= c.file
    BY <1>1, <2>3, <2>4, <2>5, <2>7
  <2>9. PieceStart(c.piece) < End(f)
    BY <1>1, <2>3, <2>4, <2>5
  <2> QED BY <2>8, <2>9 DEF RequiredIs
<1>7. c.required => \E f \in only_files : Wanted(c.piece, f)
  BY DEF RequiredIs
<1>8. ASSUME only_files = Files PROVE c.required
  <2>1. PieceStart(c.piece) \in BytesOfPiece(c.piece)
    BY <1>1, BytesFacts
  <2>2. PieceStart(c.piece) < lengths.total_length
    BY <1>1, FileFacts
  <2>3. PICK f \in Files : Start(f) <= PieceStart(c.piece) /\ PieceStart(c.piece) < End(f)
    BY <1>1, <2>2, InSomeFile
  <2>4. PieceStart(c.piece) \in Start(f)..(Start(f) + lens[f] - 1)
    BY <1>1, <2>3, FileFacts
  <2>5. Touches(c.piece, f)
    BY <2>1, <2>4 DEF Touches, Start
  <2> QED BY <1>6, <1>8, <2>5
<1> QED BY <1>3, <1>5, <1>6, <1>7, <1>8


LEMMA PieceCheckedFiles ==
    ASSUME FilesInv, piece_checked
    PROVE  FilesInv'
<1>1. PICK c : c = cursor
  OBVIOUS
<1>2. PICK e : e = cursor'
  OBVIOUS
<1>3. PICK r : r = results
  OBVIOUS
<1>4. PICK q : q = results'
  OBVIOUS
<1>5. PICK d : d = disk
  OBVIOUS
<1>6. PICK k : k = disk'
  OBVIOUS
<1>7. /\ Geometry /\ DiskIs(d) /\ CursorIs(c) /\ ReadingIs(c, d) /\ RequiredIs(c)
      /\ VerdictsAre(c, r, d, written) /\ ResultsAre(c, r)
      /\ WrittenAre(c, d, written, completed)
  BY <1>1, <1>3, <1>5 DEF FilesInv
<1>8. UNCHANGED torrentVars /\ written' = written /\ completed' = completed
  BY DEF piece_checked
<1>9. CheckingAt(c) /\ c.remaining = 0
  BY <1>1 DEF piece_checked, Checking, CheckingAt
<1>10. PICK p \in PieceIds(lengths) : p = c.piece
  BY <1>7, <1>9, AtPiece
<1>11. PICK last \in Nat : last = lengths.last_piece_id /\ PieceIds(lengths) = 0..last /\ p \in Nat
  BY <1>7, <1>10 DEF Geometry, LengthsOK, PieceIds
<1>12. PICK len \in Nat \ {0} : len = piece_length(lengths, p)
  BY <1>7, BytesFacts
<1> DEFINE verdict == Verdict(c)
           add(cond) == IF cond THEN len ELSE 0
<1>13. q = [needed_pieces |-> r.needed_pieces \cup (IF verdict = "needed" THEN {p} ELSE {}),
            have_pieces   |-> r.have_pieces \cup (IF verdict = "have" THEN {p} ELSE {}),
            have_bytes    |-> r.have_bytes + add(verdict = "have"),
            needed_bytes  |-> r.needed_bytes + add(verdict = "needed"),
            total_selected_bytes |-> r.total_selected_bytes + add(c.required)]
  BY <1>1, <1>3, <1>4, <1>10, <1>12 DEF piece_checked
<1>14. e = NextPiece(c)
  BY <1>1, <1>2 DEF piece_checked
<1>15. k = IF p # last THEN d ELSE Grown(d, only_files)
  BY <1>1, <1>5, <1>6, <1>10, <1>11 DEF piece_checked, Grown
<1>16. /\ DiskIs(k)
       /\ \A x \in Nat : There(k, x) <=> There(d, x)
       /\ p # last => k = d
  <2>1. CASE p # last
    <3>1. k = d
      BY <1>15, <2>1
    <3> QED BY <1>7, <3>1
  <2>2. CASE p = last
    <3>1. only_files \in SUBSET Files
      BY <1>7 DEF Geometry
    <3>2. k = Grown(d, only_files)
      BY <1>15, <2>2
    <3>3. Geometry /\ DiskIs(d)
      BY <1>7
    <3>4. DiskIs(k) /\ \A x \in Nat : There(k, x) <=> There(d, x)
      BY <3>1, <3>2, <3>3, GrownFacts
    <3> QED BY <2>2, <3>4
  <2> QED BY <2>1, <2>2
<1>17. ASSUME NEW i \in PieceIds(lengths) PROVE Have(k, i) <=> Have(d, i)
  <2>1. \A x \in BytesOfPiece(i) : x \in Nat
    BY <1>7, BytesFacts
  <2> QED BY <1>16, <2>1 DEF Have
<1>18. /\ c.remaining \in Nat /\ c.processed \in Nat
       /\ c.file \in Files /\ Position(c) \in Nat
       /\ PieceStart(p) \in Nat /\ PieceEnd(p) \in Nat
       /\ PieceEnd(p) = Position(c) + c.remaining
       /\ PieceEnd(p) <= lengths.total_length
  BY <1>7, <1>9, <1>10, AtPiece
<1>19. Position(c) = PieceEnd(p)
  BY <1>9, <1>18
<1>20. c \in [piece : Nat, remaining : Nat, hash_ok : BOOLEAN, broken : BOOLEAN,
              required : BOOLEAN, file : Files, processed : Nat, is_broken : BOOLEAN]
  BY <1>7 DEF CursorIs
<1>21. PICK rem \in Nat : rem = piece_length(lengths, p + 1) /\ rem <= lengths.piece_length
  BY <1>7 DEF Geometry, LengthsOK, piece_length
<1>22. /\ e.piece = p + 1 /\ e.remaining = rem /\ e.hash_ok = TRUE /\ e.broken = FALSE
       /\ e.required = (c.file \in only_files)
       /\ e.file = c.file /\ e.processed = c.processed /\ e.is_broken = c.is_broken
  BY <1>10, <1>14, <1>20, <1>21 DEF NextPiece
<1>23. e \in [piece : Nat, remaining : Nat, hash_ok : BOOLEAN, broken : BOOLEAN,
              required : BOOLEAN, file : Files, processed : Nat, is_broken : BOOLEAN]
  <2>1. p + 1 \in Nat
    BY <1>11
  <2>2. e = [c EXCEPT !.piece = p + 1, !.remaining = rem, !.hash_ok = TRUE, !.broken = FALSE,
                      !.required = (c.file \in only_files)]
    BY <1>10, <1>14, <1>20, <1>21 DEF NextPiece
  <2>3. (c.file \in only_files) \in BOOLEAN
    OBVIOUS
  <2> QED BY <1>20, <2>1, <2>2, <2>3
<1>24. CursorIs(e)
  BY <1>7, <1>11, <1>21, <1>22, <1>23 DEF CursorIs
<1>25. CheckingAt(e) <=> p # last
  BY <1>11, <1>22 DEF CheckingAt
<1>26. Position(e) = PieceEnd(p)
  BY <1>19, <1>22 DEF Position
<1>27. ASSUME p # last
       PROVE  p + 1 \in PieceIds(lengths) /\ PieceStart(p + 1) = PieceEnd(p)
  BY <1>7, <1>11, <1>27, PieceFacts DEF Geometry, PieceStart, PieceEnd
<1>28. ReadingIs(e, k)
  <2> SUFFICES ASSUME p # last
               PROVE  /\ Position(e) + e.remaining = PieceEnd(e.piece)
                      /\ e.remaining <= piece_length(lengths, e.piece)
                      /\ e.is_broken <=> Len(k[e.file]) < e.processed
                      /\ e.hash_ok <=> \A x \in PieceStart(e.piece)..(Position(e) - 1) : There(k, x)
                      /\ e.broken => ~e.hash_ok
    BY <1>25 DEF ReadingIs
  <2>1. PieceEnd(p + 1) = PieceStart(p + 1) + rem
    BY <1>7, <1>21, <1>27, BytesFacts
  <2>2. Position(e) + e.remaining = PieceEnd(e.piece)
    BY <1>22, <1>26, <1>27, <2>1
  <2>3. c.is_broken <=> Len(d[c.file]) < c.processed
    BY <1>7, <1>9 DEF ReadingIs
  <2>4. e.is_broken <=> Len(k[e.file]) < e.processed
    BY <1>16, <1>22, <2>3
  <2>5. PieceStart(e.piece)..(Position(e) - 1) = {}
    BY <1>18, <1>22, <1>26, <1>27
  <2> QED BY <1>21, <1>22, <2>2, <2>4, <2>5
<1>29. RequiredIs(e)
  <2> SUFFICES ASSUME p # last
               PROVE  /\ \A f \in only_files :
                            f <= e.file /\ PieceStart(e.piece) < End(f) => e.required
                      /\ e.required => \E f \in only_files : Wanted(e.piece, f)
    BY <1>25 DEF RequiredIs
  <2>1. PICK g \in Files : g = c.file
    BY <1>18
  <2>2. PICK s \in Nat, l \in Nat : s = Start(g) /\ l = lens[g] /\ End(g) = s + l /\ g \in Nat
    BY <1>7, FileFacts
  <2>3. PICK a \in Nat : a = PieceStart(p + 1) /\ a = Position(c)
    BY <1>18, <1>19, <1>27
  <2>4. s <= a /\ a <= s + l
    <3>1. a = s + c.processed /\ c.processed <= l
      BY <1>7, <2>1, <2>2, <2>3 DEF Position, CursorIs
    <3> QED BY <1>18, <3>1
  <2>5. ASSUME NEW f \in only_files, f <= g, a < End(f) PROVE f = g
    <3>1. f \in Files /\ f \in Nat /\ End(f) \in Nat /\ (f < g => End(f) <= Start(g))
      BY <1>7, FileFacts DEF Geometry
    <3> QED BY <2>2, <2>4, <2>5, <3>1
  <2>6. Wanted(p + 1, g)
    <3>0. /\ PieceEnd(p + 1) \in Nat /\ piece_length(lengths, p + 1) \in Nat \ {0}
          /\ PieceEnd(p + 1) = PieceStart(p + 1) + piece_length(lengths, p + 1)
      <4>1. p + 1 \in PieceIds(lengths)
        BY <1>27
      <4>2. Geometry
        BY <1>7
      <4> QED BY <4>1, <4>2, BytesFacts
    <3>1. PICK z \in Nat : z = PieceEnd(p + 1) /\ a < z
      BY <2>3, <3>0
    <3>2. a <= s + l /\ s <= z - 1
      BY <2>4, <3>1
    <3> QED BY <2>2, <2>3, <3>1, <3>2 DEF Wanted
  <2> QED BY <1>22, <2>1, <2>3, <2>5, <2>6
<1>30. /\ verdict = "have" <=> Have(d, p)
       /\ verdict = "needed" <=> c.required /\ ~Have(d, p)
       /\ \A f \in only_files : Touches(p, f) => c.required
       /\ c.required => \E f \in only_files : Wanted(p, f)
       /\ only_files = Files => c.required
  BY <1>7, <1>9, <1>10, VerdictFacts
<1>31. written = {}
  BY <1>7, <1>9 DEF WrittenAre
<1>32. r \in [needed_pieces : SUBSET PieceIds(lengths), have_pieces : SUBSET PieceIds(lengths),
              have_bytes : Nat, needed_bytes : Nat, total_selected_bytes : Nat]
  BY <1>7 DEF ResultsAre
<1> HIDE DEF verdict
<1>33. /\ q.needed_pieces = r.needed_pieces \cup (IF verdict = "needed" THEN {p} ELSE {})
       /\ q.have_pieces = r.have_pieces \cup (IF verdict = "have" THEN {p} ELSE {})
       /\ q.have_bytes = r.have_bytes + add(verdict = "have")
       /\ q.total_selected_bytes = r.total_selected_bytes + add(c.required)
  BY <1>13
<1>34. q \in [needed_pieces : SUBSET PieceIds(lengths), have_pieces : SUBSET PieceIds(lengths),
              have_bytes : Nat, needed_bytes : Nat, total_selected_bytes : Nat]
  <2>1. \A b : add(b) \in Nat
    OBVIOUS
  <2> HIDE DEF add
  <2> QED BY <1>13, <1>32, <2>1
<1>35. \A i \in r.have_pieces \cup r.needed_pieces : i < p /\ i \in PieceIds(lengths)
  BY <1>7, <1>10, <1>32 DEF VerdictsAre
<1>36. \A i \in PieceIds(lengths) : i < p + 1 <=> i < p \/ i = p
  BY <1>11
<1>37. VerdictsAre(e, q, k, written)
  <2>1. \A i \in q.have_pieces \cup q.needed_pieces : i < p + 1
    BY <1>33, <1>35, <1>36
  <2>2. q.have_pieces \cap q.needed_pieces = {}
    <3>1. p \notin r.have_pieces /\ p \notin r.needed_pieces
      BY <1>11, <1>35
    <3>2. r.have_pieces \cap r.needed_pieces = {}
      BY <1>7 DEF VerdictsAre
    <3> QED BY <1>33, <3>1, <3>2
  <2>3. ASSUME NEW i \in PieceIds(lengths) PROVE i \in q.have_pieces <=> i < p + 1 /\ Have(k, i)
    <3>1. i \in r.have_pieces <=> i < p /\ Have(d, i)
      BY <1>7, <1>9, <1>10 DEF VerdictsAre
    <3>2. i \in q.have_pieces <=> i \in r.have_pieces \/ (i = p /\ Have(d, p))
      BY <1>30, <1>33
    <3> QED BY <1>17, <1>36, <3>1, <3>2
  <2>4. ASSUME NEW i \in PieceIds(lengths), NEW f \in only_files, i < p + 1, Touches(i, f)
        PROVE  i \in q.have_pieces \cup q.needed_pieces
    <3>1. CASE i = p
      BY <1>30, <1>33, <2>4, <3>1
    <3>2. CASE i # p
      <4>1. i \in r.have_pieces \cup r.needed_pieces
        BY <1>7, <1>10, <1>36, <2>4, <3>2 DEF VerdictsAre
      <4> QED BY <1>33, <4>1
    <3> QED BY <3>1, <3>2
  <2>5. ASSUME NEW i \in q.needed_pieces PROVE \E f \in only_files : Wanted(i, f)
    <3>1. CASE i \in r.needed_pieces
      BY <1>7, <3>1 DEF VerdictsAre
    <3>2. CASE i \notin r.needed_pieces
      BY <1>30, <1>33, <2>5, <3>2
    <3> QED BY <3>1, <3>2
  <2> QED BY <1>22, <2>1, <2>2, <2>3, <2>4, <2>5 DEF VerdictsAre
<1>38. ResultsAre(e, q)
  <2>1. r.have_bytes = Cardinality(UNION {BytesOfPiece(i) : i \in r.have_pieces})
    BY <1>7 DEF ResultsAre
  <2>2. q.have_bytes = Cardinality(UNION {BytesOfPiece(i) : i \in q.have_pieces})
    <3>1. CASE verdict = "have"
      <4>1. q.have_pieces = r.have_pieces \cup {p} /\ q.have_bytes = r.have_bytes + len
        BY <1>33, <3>1
      <4>2. p \notin r.have_pieces /\ r.have_pieces \in SUBSET PieceIds(lengths)
        BY <1>11, <1>32, <1>35
      <4>3. Cardinality(UNION {BytesOfPiece(i) : i \in r.have_pieces \cup {p}}) =
               Cardinality(UNION {BytesOfPiece(i) : i \in r.have_pieces}) + len
        BY <1>7, <1>12, <4>2, CountPiece
      <4> QED BY <2>1, <4>1, <4>3
    <3>2. CASE verdict # "have"
      <4>1. q.have_pieces = r.have_pieces /\ q.have_bytes = r.have_bytes
        BY <1>32, <1>33, <3>2
      <4> QED BY <2>1, <4>1
    <3> QED BY <3>1, <3>2
  <2>3. ASSUME only_files = Files
        PROVE  q.total_selected_bytes = IF p # last THEN PieceStart(p + 1) ELSE lengths.total_length
    <3>1. r.total_selected_bytes = PieceStart(p)
      BY <1>7, <1>9, <1>10, <2>3 DEF ResultsAre
    <3>2. q.total_selected_bytes = PieceEnd(p)
      BY <1>7, <1>12, <1>30, <1>33, <2>3, <3>1, BytesFacts
    <3>3. p = last => PieceEnd(p) = lengths.total_length
      BY <1>7, <1>11, PieceFacts DEF Geometry, PieceEnd
    <3> QED BY <1>27, <3>2, <3>3
  <2> QED BY <1>22, <1>25, <1>34, <2>2, <2>3 DEF ResultsAre
<1>39. WrittenAre(e, k, written, completed)
  BY <1>7, <1>17, <1>31 DEF WrittenAre
<1> QED BY <1>2, <1>4, <1>6, <1>7, <1>8, <1>16, <1>24, <1>28, <1>29, <1>37, <1>38, <1>39, SameTorrent

-----------------------------------------------------------------------------
(* Chunks that arrive, and the next start *)

\* A chunk is a range of bytes of its piece.
LEMMA ChunkBytes ==
    ASSUME Geometry, NEW p \in PieceIds(lengths), NEW i \in ChunkInfos(lengths, p)
    PROVE  /\ i.piece_index = p /\ i.size \in Nat \ {0}
           /\ chunk_absolute_offset(lengths, i) \in Nat
           /\ chunk_absolute_offset(lengths, i) + i.size <= lengths.total_length
           /\ BytesOfChunk(i) \subseteq Nat
<1>1. PICK n \in 0..(chunks_per_piece(lengths, p) - 1) : i = ChunkAt(lengths, p, n)
  BY InfosFacts DEF Geometry
<1>2. /\ i.piece_index = p /\ i.offset \in Nat /\ i.size \in Nat \ {0}
      /\ i.offset + i.size <= piece_length(lengths, p)
  BY <1>1, ChunkAtFacts DEF Geometry
<1>3. PICK a \in Nat, len \in Nat : /\ a = piece_offset(lengths, p) /\ len = piece_length(lengths, p)
                                    /\ a + len <= lengths.total_length
  BY BytesFacts DEF PieceStart, PieceEnd
<1>4. chunk_absolute_offset(lengths, i) = a + i.offset
  BY <1>2, <1>3 DEF chunk_absolute_offset
<1>5. lengths.total_length \in Nat
  BY FileFacts
<1>6. a + i.offset + i.size <= lengths.total_length
  BY <1>2, <1>3, <1>5
<1>7. BytesOfChunk(i) \subseteq Nat
  BY <1>2, <1>4 DEF BytesOfChunk
<1> QED BY <1>2, <1>4, <1>6, <1>7

LEMMA WriteChunkFiles ==
    ASSUME FilesInv, NEW p \in PieceIds(lengths), NEW info \in ChunkInfos(lengths, p),
           write_chunk(info)
    PROVE  FilesInv'
<1>1. PICK d : d = disk
  OBVIOUS
<1>2. PICK k : k = disk'
  OBVIOUS
<1>3. /\ Geometry /\ DiskIs(d) /\ CursorIs(cursor) /\ VerdictsAre(cursor, results, d, written)
      /\ ResultsAre(cursor, results) /\ WrittenAre(cursor, d, written, completed)
  BY <1>1 DEF FilesInv
<1>4. /\ UNCHANGED torrentVars /\ cursor' = cursor /\ results' = results
      /\ ~CheckingAt(cursor)
      /\ written' = written \cup {info}
      /\ completed' = completed \cup
            (IF ChunkInfos(lengths, info.piece_index) \subseteq written'
               THEN {info.piece_index} ELSE {})
  BY DEF write_chunk, Checking, CheckingAt
<1>5. PICK offset \in Nat, n \in Nat \ {0} :
          /\ offset = chunk_absolute_offset(lengths, info) /\ n = info.size
          /\ offset + n <= lengths.total_length
  BY <1>3, ChunkBytes
<1>6. k = [f \in Files |-> WrittenFile(f, offset, n)]
  BY <1>2, <1>5 DEF write_chunk
<1>7. BytesOfChunk(info) = offset..(offset + n - 1)
  BY <1>5 DEF BytesOfChunk
<1>8. /\ DiskIs(k)
      /\ \A x \in Nat : There(d, x) => There(k, x)
      /\ \A x \in BytesOfChunk(info) : There(k, x)
  BY <1>1, <1>3, <1>5, <1>6, <1>7, WritesInPlace
<1>9. info.piece_index = p
  BY <1>3, ChunkBytes
<1>10. ASSUME NEW i \in written'
       PROVE  /\ i.piece_index \in PieceIds(lengths) /\ i \in ChunkInfos(lengths, i.piece_index)
              /\ \A x \in BytesOfChunk(i) : There(k, x)
  <2>1. CASE i = info
    BY <1>8, <1>9, <2>1
  <2>2. CASE i # info
    <3>1. i \in written
      BY <1>4, <1>10, <2>2
    <3>2. /\ i.piece_index \in PieceIds(lengths) /\ i \in ChunkInfos(lengths, i.piece_index)
          /\ \A x \in BytesOfChunk(i) : There(d, x)
      BY <1>3, <3>1 DEF WrittenAre
    <3>3. BytesOfChunk(i) \subseteq Nat
      BY <1>3, <3>2, ChunkBytes
    <3> QED BY <1>8, <3>2, <3>3
  <2> QED BY <2>1, <2>2
<1>11. ASSUME NEW j \in completed' PROVE j \in PieceIds(lengths) /\ Have(k, j)
  <2>1. CASE j \in completed
    <3>1. j \in PieceIds(lengths) /\ Have(d, j)
      BY <1>3, <2>1 DEF WrittenAre
    <3>2. BytesOfPiece(j) \subseteq Nat
      BY <1>3, <3>1, BytesFacts
    <3> QED BY <1>8, <3>1, <3>2 DEF Have
  <2>2. CASE j \notin completed
    <3>1. j = p /\ ChunkInfos(lengths, p) \subseteq written'
      BY <1>4, <1>9, <1>11, <2>2
    <3>2. BytesOfPiece(p) = UNION {BytesOfChunk(i) : i \in ChunkInfos(lengths, p)}
      BY <1>3, ChunksHoldPiece DEF Geometry
    <3>3. ASSUME NEW x \in BytesOfPiece(p) PROVE There(k, x)
      <4>1. PICK i \in ChunkInfos(lengths, p) : x \in BytesOfChunk(i)
        BY <3>2
      <4> QED BY <1>10, <3>1, <4>1
    <3> QED BY <3>1, <3>3 DEF Have
  <2> QED BY <2>1, <2>2
<1>12. WrittenAre(cursor, k, written', completed')
  BY <1>4, <1>10, <1>11 DEF WrittenAre
<1>13. VerdictsAre(cursor, results, k, written')
  <2>1. written' # {}
    BY <1>4
  <2> QED BY <1>3, <1>4, <2>1 DEF VerdictsAre
<1>14. ReadingIs(cursor, k) /\ RequiredIs(cursor)
  BY <1>4 DEF ReadingIs, RequiredIs
<1> QED BY <1>2, <1>3, <1>4, <1>8, <1>12, <1>13, <1>14, SameTorrent

LEMMA StartAgainFiles ==
    ASSUME FilesInv, start_again
    PROVE  FilesInv'
<1>1. /\ UNCHANGED torrentVars /\ disk' = disk /\ completed' = completed /\ written' = {}
      /\ results' = NoResults /\ cursor' = StartCursor(lens, lengths, only_files)
  BY DEF start_again
<1>2. PICK c : c = cursor'
  OBVIOUS
<1>3. Geometry /\ DiskIs(disk) /\ WrittenAre(cursor, disk, written, completed)
  BY DEF FilesInv
<1>4. CursorIs(c) /\ ReadingIs(c, disk) /\ RequiredIs(c) /\ c.piece = 0
  BY <1>1, <1>2, <1>3, StartIs
<1>5. VerdictsAre(c, NoResults, disk, {}) /\ ResultsAre(c, NoResults)
  BY <1>3, <1>4, NoResultsAre
<1>6. WrittenAre(c, disk, {}, completed)
  BY <1>3 DEF WrittenAre
<1> QED BY <1>1, <1>2, <1>3, <1>4, <1>5, <1>6, SameTorrent

LEMMA StepFiles ==
    FilesInv /\ [Next]_vars => FilesInv'
<1> SUFFICES ASSUME FilesInv, [Next]_vars PROVE FilesInv'
  OBVIOUS
<1>1. CASE next_file
  BY <1>1, NextFileFiles
<1>2. CASE read_in_file
  BY <1>2, ReadInFileFiles
<1>3. CASE piece_checked
  BY <1>3, PieceCheckedFiles
<1>4. ASSUME NEW p \in PieceIds(lengths), NEW info \in ChunkInfos(lengths, p), write_chunk(info)
      PROVE  FilesInv'
  BY <1>4, WriteChunkFiles
<1>5. CASE start_again
  BY <1>5, StartAgainFiles
<1>6. CASE UNCHANGED vars
  <2>1. /\ UNCHANGED torrentVars /\ disk' = disk /\ cursor' = cursor /\ results' = results
        /\ written' = written /\ completed' = completed
    BY <1>6 DEF vars, torrentVars
  <2> QED BY <2>1, SameTorrent DEF FilesInv
<1> QED BY <1>1, <1>2, <1>3, <1>4, <1>5, <1>6 DEF Next


-----------------------------------------------------------------------------
(* The properties *)

LEMMA ResultsFollow ==
    ASSUME FilesInv
    PROVE  ResultsRight
<1>1. /\ Geometry /\ DiskIs(disk) /\ CursorIs(cursor) /\ ReadingIs(cursor, disk)
      /\ VerdictsAre(cursor, results, disk, written) /\ ResultsAre(cursor, results)
      /\ WrittenAre(cursor, disk, written, completed)
  BY DEF FilesInv
<1>2. Checking <=> CheckingAt(cursor)
  BY DEF Checking, CheckingAt
<1>3. \A x : InPlace(x) <=> There(disk, x)
  BY Zenon DEF InPlace, There, Start
<1>4. PICK last \in Nat : last = lengths.last_piece_id /\ PieceIds(lengths) = 0..last
  BY <1>1 DEF Geometry, LengthsOK, PieceIds
<1>5. ASSUME ~Checking, NEW p \in PieceIds(lengths) PROVE p < cursor.piece
  BY <1>1, <1>4, <1>5 DEF Checking, CursorIs
<1>6. TypeOK
  <2>1. cursor.piece \in 0..(lengths.last_piece_id + 1)
    BY <1>1, <1>4 DEF CursorIs
  <2>2. cursor.remaining \in 0..lengths.piece_length
    BY <1>1 DEF CursorIs, Geometry, LengthsOK
  <2>3. cursor.file \in Files /\ cursor.processed \in 0..lens[cursor.file]
    BY <1>1, FileFacts DEF CursorIs
  <2>4. {cursor.hash_ok, cursor.broken, cursor.required, cursor.is_broken} \subseteq BOOLEAN
    BY <1>1 DEF CursorIs
  <2>5. results.needed_pieces \cup results.have_pieces \cup completed \subseteq PieceIds(lengths)
    BY <1>1 DEF ResultsAre, WrittenAre
  <2>6. ASSUME NEW f \in Files, NEW o \in DOMAIN disk[f] PROVE disk[f][o] \in Nat \cup {Junk}
    <3>1. Start(f) \in Nat /\ o \in Nat \ {0} /\ disk[f][o] \in {Junk, Start(f) + o - 1}
      BY <1>1, FileFacts DEF DiskIs
    <3> QED BY <3>1
  <2> QED BY <2>1, <2>2, <2>3, <2>4, <2>5, <2>6 DEF TypeOK
<1>7. CheckIsExact
  <2> SUFFICES ASSUME ~Checking, written = {}
               PROVE  results.have_pieces =
                         {p \in PieceIds(lengths) : \A x \in BytesOfPiece(p) : InPlace(x)}
    BY <1>1 DEF CheckIsExact, ResultsAre
  <2>1. ASSUME NEW p \in PieceIds(lengths)
        PROVE  p \in results.have_pieces <=> \A x \in BytesOfPiece(p) : InPlace(x)
    BY <1>1, <1>3, <1>5 DEF VerdictsAre, Have
  <2>2. results.have_pieces \subseteq PieceIds(lengths)
    BY <1>1 DEF ResultsAre
  <2> QED BY <2>1, <2>2
<1>8. SelectedIsCovered
  <2> SUFFICES ASSUME ~Checking
               PROVE  /\ \A p \in PieceIds(lengths), f \in only_files :
                            Touches(p, f) => p \in results.have_pieces \cup results.needed_pieces
                      /\ results.have_pieces \cap results.needed_pieces = {}
                      /\ only_files = Files => results.total_selected_bytes = TotalLength(lens)
    BY DEF SelectedIsCovered
  <2>1. \A p \in PieceIds(lengths), f \in only_files :
            Touches(p, f) => p \in results.have_pieces \cup results.needed_pieces
    BY <1>1, <1>5 DEF VerdictsAre
  <2>2. results.have_pieces \cap results.needed_pieces = {}
    BY <1>1 DEF VerdictsAre
  <2>3. only_files = Files => results.total_selected_bytes = TotalLength(lens)
    BY <1>1, <1>2 DEF ResultsAre, Geometry
  <2> QED BY <2>1, <2>2, <2>3
<1>9. OnlySelectedNeeded
  <2>1. \A p \in results.needed_pieces : \E f \in only_files : Wanted(p, f)
    BY <1>1 DEF VerdictsAre
  <2>2. ASSUME NEW p \in results.needed_pieces
        PROVE  PieceEnd(p) - 1 = piece_offset(lengths, p) + piece_length(lengths, p) - 1
    <3>1. p \in PieceIds(lengths)
      BY <1>1 DEF ResultsAre
    <3>2. PICK a \in Nat, len \in Nat : a = piece_offset(lengths, p) /\ len = piece_length(lengths, p)
      BY <1>1, <3>1, BytesFacts DEF PieceStart
    <3> QED BY <3>2 DEF PieceEnd
  <2>3. \A f : Start(f) = FileStart(lens, f) /\ End(f) = FileStart(lens, f) + lens[f]
    BY Zenon DEF Start, End
  <2> QED BY <2>1, <2>2, <2>3 DEF OnlySelectedNeeded, Wanted, PieceStart
<1> QED BY <1>6, <1>7, <1>8, <1>9 DEF ResultsRight

LEMMA WritesFollow ==
    ASSUME FilesInv
    PROVE  WritesLand
<1>1. /\ Geometry /\ DiskIs(disk) /\ CursorIs(cursor)
      /\ VerdictsAre(cursor, results, disk, written)
      /\ WrittenAre(cursor, disk, written, completed)
  BY DEF FilesInv
<1>2. BytesInPlace
  BY <1>1 DEF DiskIs, BytesInPlace, Start
<1>3. ASSUME ~Checking, written = {}, NEW p \in completed PROVE p \in results.have_pieces
  <2>1. p \in PieceIds(lengths) /\ Have(disk, p)
    BY <1>1 DEF WrittenAre
  <2>2. p < cursor.piece
    BY <1>1, <1>3, <2>1 DEF Checking, CursorIs, PieceIds, Geometry, LengthsOK
  <2> QED BY <1>1, <1>3, <2>1, <2>2 DEF VerdictsAre
<1>4. WrittenIsFound
  BY <1>3 DEF WrittenIsFound
<1> QED BY <1>2, <1>4 DEF WritesLand

\* In every reachable state of initial_check, write_chunk and the restarts, for every list of
\* files and every length of pieces and chunks, the walk through the pieces and the walk
\* through the files are at the same byte and the verdicts so far are right.
THEOREM FilesInvHolds == Spec => []FilesInv
<1> QED BY InitFiles, StepFiles, PTL DEF Spec

\* initial_check is right (file_ops.rs): whatever the files held and wherever they are cut, it
\* finds exactly the pieces whose bytes are all right and counts their bytes, every piece of a
\* selected file is there or needed, and nothing is needed that touches no selected file.
THEOREM InitialCheckRight == Spec => []ResultsRight
<1>1. FilesInv => ResultsRight
  BY ResultsFollow
<1> QED BY <1>1, FilesInvHolds, PTL

\* The arithmetic of lengths.rs: for every length of torrent, pieces and chunks the chunks that
\* iter_chunk_infos yields are those that chunk_info_from_received_data recognizes, they hold
\* every byte of their piece once, and the chunk_ranges share no bit and, if a piece is a whole
\* number of chunks, fill the bit field.
THEOREM ChunksTileTheTorrent == Spec => []ChunksTile
<1>1. FilesInv => ChunksTile
  BY LengthsTile DEF FilesInv, Geometry
<1> QED BY <1>1, FilesInvHolds, PTL

\* write_chunk (file_ops.rs) puts no byte into a wrong file or at a wrong place, however many
\* files and empty files a chunk crosses, and the check of the next start finds every piece
\* whose chunks were all written.
THEOREM WritesFoundAgain == Spec => []WritesLand
<1>1. FilesInv => WritesLand
  BY WritesFollow
<1> QED BY <1>1, FilesInvHolds, PTL
=============================================================================
