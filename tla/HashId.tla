------------------------------- MODULE HashId -------------------------------
(***************************************************************************)
(* Id20, the ids of torrents and of DHT nodes                              *)
(* (crates/librqbit_core/src/hash_id.rs).  An id is a string of IdBits     *)
(* bits, bit 0 being the most significant one.                             *)
(***************************************************************************)
EXTENDS Naturals

CONSTANT IdBits     \* length of an id (160 in the code)

ASSUME IdAssumption == IdBits \in Nat \ {0}

Bits == 0..(IdBits - 1)
Ids == [Bits -> {0, 1}]

\* Ord::cmp: the first bit in which a and b differ decides.
Before(a, b) == \E i \in Bits : a[i] < b[i] /\ \A j \in 0..(i - 1) : a[j] = b[j]

get_bit(id, bit) == id[bit]
set_bit(id, bit, value) == [id EXCEPT ![bit] = value]

\* Id::distance: the exclusive or.
distance(a, b) == [i \in Bits |-> IF a[i] = b[i] THEN 0 ELSE 1]
=============================================================================
