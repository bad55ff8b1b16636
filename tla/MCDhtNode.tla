----------------------------- MODULE MCDhtNode -----------------------------
(***************************************************************************)
(* Ids of three bits and buckets of two: nodes 1, 2 and 3 share every bit  *)
(* but the last two with our first id, so a bucket is split twice in one   *)
(* insert, and four nodes exceed a table of three.                         *)
(***************************************************************************)
EXTENDS DhtNode, TLC

\* The id that is the number n in binary.
BinaryId(n) == [i \in Bits |-> (n \div 2^(IdBits - 1 - i)) % 2]

MCNodeAddr ==
    (BinaryId(1) :> [ip |-> 1, port |-> 1]) @@ (BinaryId(2) :> [ip |-> 1, port |-> 2])
    @@ (BinaryId(3) :> [ip |-> 2, port |-> 1]) @@ (BinaryId(6) :> [ip |-> 2, port |-> 1])

MCHashes == {BinaryId(0), BinaryId(7)}
MCMaxDistance == BinaryId(3)
MCSelfIds == {BinaryId(0), BinaryId(5)}
MCFirstId == BinaryId(0)
MCSenders == {BinaryId(1), BinaryId(6)}
=============================================================================
