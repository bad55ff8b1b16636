---------------------------- MODULE ChunkTracker ----------------------------
(***************************************************************************)
(* The chunk tracker of a torrent (crates/librqbit/src/chunk_tracker.rs):  *)
(* which pieces are needed, which chunks were received, which pieces we    *)
(* have.  A tracker is a record; every method of the code is an operator   *)
(* from the tracker before the call to the tracker after it.               *)
(*                                                                         *)
(* A bit field is the set of the indices whose bit is 1.  A piece is a     *)
(* number, because the order of indices is the download order; a chunk is  *)
(* the pair <<piece, index in the piece>>.                                 *)
(***************************************************************************)
EXTENDS Naturals

CONSTANTS
    NumPieces,      \* Lengths::total_pieces()
    NChunks,        \* NChunks[p]: Lengths::chunks_per_piece(p)
    PieceLen        \* PieceLen[p]: Lengths::piece_length(p), in bytes

Pieces == 0..(NumPieces - 1)

ASSUME LengthsAssumption ==
    /\ NumPieces \in Nat \ {0}
    /\ NChunks \in [Pieces -> Nat \ {0}]
    /\ PieceLen \in [Pieces -> Nat \ {0}]

\* Lengths::chunk_range(p): the bits of chunk_status that belong to piece p.
chunk_range(p) == {<<p, c>> : c \in 0..(NChunks[p] - 1)}

\* Lengths::iter_chunk_infos(p), from chunk number first on.
iter_chunk_infos(p, first) == first..(NChunks[p] - 1)

Chunks == UNION {chunk_range(p) : p \in Pieces}

Trackers == [needed_pieces      : SUBSET Pieces,
             chunk_status       : SUBSET Chunks,
             have               : SUBSET Pieces,
             priority_piece_ids : SUBSET Pieces]

\* The lengths of the pieces in S, added up in the order of their indices.
BytesOf(S) ==
    LET sum[n \in 0..NumPieces] ==
            IF n = 0 THEN 0 ELSE sum[n - 1] + (IF n - 1 \in S THEN PieceLen[n - 1] ELSE 0)
    IN  sum[NumPieces]

-----------------------------------------------------------------------------
(* Construction *)

\* Every piece that is not needed starts with all its chunks set.
compute_chunk_status(needed) == UNION {chunk_range(p) : p \in Pieces \ needed}

\* ChunkTracker::new: the last needed piece is downloaded first.
NewTracker(needed, have) ==
    [needed_pieces      |-> needed,
     chunk_status       |-> compute_chunk_status(needed),
     have               |-> have,
     priority_piece_ids |-> {p \in needed : \A q \in needed : q <= p}]

-----------------------------------------------------------------------------
(* Queries *)

AllChunksSet(t, p) == chunk_range(p) \subseteq t.chunk_status

calc_have_bytes(t) == BytesOf(t.have)
calc_needed_bytes(t) == BytesOf(t.needed_pieces)

\* The first element of iter_needed_pieces() that the bit field bf contains:
\* the priority piece if it qualifies, else the lowest index.
IsFirstNeeded(t, bf, p) ==
    LET found == t.needed_pieces \cap bf IN
    /\ p \in found
    /\ \/ p \in t.priority_piece_ids
       \/ /\ t.priority_piece_ids \cap found = {}
          /\ \A q \in found : p <= q

\* Mutant: the check for PreviouslyCompleted is missing.
ChunkMarkingResult_no_defence(t, c) ==
    IF chunk_range(c[1]) \subseteq t.chunk_status \cup {c} THEN "Completed"
    ELSE "NotCompleted"

\* ChunkMarkingResult of mark_chunk_downloaded(c).
ChunkMarkingResult(t, c) ==
    IF AllChunksSet(t, c[1]) THEN "PreviouslyCompleted"
    ELSE IF chunk_range(c[1]) \subseteq t.chunk_status \cup {c} THEN "Completed"
    ELSE "NotCompleted"

-----------------------------------------------------------------------------
(* Updates *)

reserve_needed_piece(t, p) == [t EXCEPT !.needed_pieces = @ \ {p}]

mark_chunk_downloaded(t, c) == [t EXCEPT !.chunk_status = @ \cup {c}]

mark_piece_downloaded(t, p) == [t EXCEPT !.have = @ \cup {p}]

\* Mutant: a dead peer's requests are only dropped.
mark_chunk_requests_forgotten(t, reqs) == t

\* mark_chunk_request_cancelled for every request in reqs: a piece becomes
\* needed again unless we have it or all its chunks are set (it is being
\* checked).
mark_chunk_requests_cancelled(t, reqs) ==
    [t EXCEPT !.needed_pieces =
        @ \cup {p \in Pieces : /\ \E c \in reqs : c[1] = p
                               /\ p \notin t.have
                               /\ ~AllChunksSet(t, p)}]

\* Mutants: without the check for the pieces we have, and with a reset of them.
mark_pieces_broken(t, S) ==
    [t EXCEPT !.needed_pieces = @ \cup S,
              !.chunk_status  = {c \in @ : c[1] \notin S}]
mark_pieces_broken_and_lost(t, S) ==
    [mark_pieces_broken(t, S) EXCEPT !.have = @ \ S]

\* mark_piece_broken_if_not_have for every piece in S.
mark_pieces_broken_if_not_have(t, S) ==
    LET broken == S \ t.have IN
    [t EXCEPT !.needed_pieces = @ \cup broken,
              !.chunk_status  = {c \in @ : c[1] \notin broken}]
=============================================================================
