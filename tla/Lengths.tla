------------------------------ MODULE Lengths ------------------------------
(***************************************************************************)
(* The arithmetic of pieces and chunks (crates/librqbit_core/src/          *)
(* lengths.rs).  L is a Lengths record; a ValidPieceIndex is a number up   *)
(* to L.last_piece_id.  An Option is the set of its value, or the empty    *)
(* set.  The numbers of the code are unsigned and 32 or 64 bits wide; no   *)
(* subtraction below goes under 0 and the lengths of real torrents stay    *)
(* far from the limits.                                                    *)
(***************************************************************************)
EXTENDS Naturals

Least(a, b) == IF a < b THEN a ELSE b

ceil_div(a, b) == (a + b - 1) \div b

last_element_size(total, size) == IF total % size = 0 THEN size ELSE total % size

\* Lengths::new accepts these; chunk lengths are powers of 2.
IsValid(total, piece, chunk) == total > 0 /\ chunk <= piece

NewLengths(total, piece, chunk) ==
    [total_length         |-> total,
     piece_length         |-> piece,
     chunk_length         |-> chunk,
     max_chunks_per_piece |-> ceil_div(piece, chunk),
     last_piece_id        |-> ceil_div(total, piece) - 1,
     last_piece_length    |-> last_element_size(total, piece)]

total_chunks(L) == ceil_div(L.total_length, L.chunk_length)
chunk_bitfield_bytes(L) == ceil_div(total_chunks(L), 8)

PieceIds(L) == 0..L.last_piece_id

piece_length(L, p) ==
    IF p = L.last_piece_id THEN L.last_piece_length ELSE L.piece_length

piece_offset(L, p) == p * L.piece_length

chunks_per_piece(L, p) ==
    IF p = L.last_piece_id THEN ceil_div(L.last_piece_length, L.chunk_length)
    ELSE L.max_chunks_per_piece

\* The bits of chunk_status that belong to piece p.
chunk_range(L, p) ==
    LET start == p * L.max_chunks_per_piece
    IN  start..(start + chunks_per_piece(L, p) - 1)

chunk_offset_in_piece(L, p, c) ==
    IF c >= chunks_per_piece(L, p) THEN {} ELSE {c * L.chunk_length}

\* Mutant: the last chunk of a piece is as long as the others.
chunk_size_full(L, p, c) ==
    IF c >= chunks_per_piece(L, p) THEN {} ELSE {L.chunk_length}

chunk_size(L, p, c) ==
    IF c >= chunks_per_piece(L, p) THEN {}
    ELSE {Least(L.chunk_length, piece_length(L, p) - c * L.chunk_length)}

\* iter_chunk_infos is a scan: remaining[k] bytes are left before chunk k.
\* Its items are the k with remaining[k] > 0.
ChunkInfos(L, p) ==
    LET remaining[k \in 0..chunks_per_piece(L, p)] ==
            IF k = 0 THEN piece_length(L, p)
            ELSE remaining[k - 1] - Least(remaining[k - 1], L.chunk_length)
    IN  {[piece_index    |-> p,
          chunk_index    |-> k,
          absolute_index |-> p * L.max_chunks_per_piece + k,
          size           |-> Least(remaining[k], L.chunk_length),
          offset         |-> piece_length(L, p) - remaining[k]] :
             k \in {k \in 0..chunks_per_piece(L, p) : remaining[k] > 0}}

\* The chunk that a Piece message with this offset and length is, if any.
chunk_info_from_received_data(L, p, begin, size) ==
    LET c == begin \div L.chunk_length
    IN  {[piece_index    |-> p,
          chunk_index    |-> c,
          absolute_index |-> L.max_chunks_per_piece * p + c,
          size           |-> chunk,
          offset         |-> offset] :
             chunk \in chunk_size(L, p, c) \cap {size},
             offset \in chunk_offset_in_piece(L, p, c) \cap {begin}}

chunk_absolute_offset(L, info) == piece_offset(L, info.piece_index) + info.offset
=============================================================================
