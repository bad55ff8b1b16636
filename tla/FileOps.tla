------------------------------ MODULE FileOps ------------------------------
(***************************************************************************)
(* Pieces and chunks in the files of a torrent                             *)
(* (crates/librqbit/src/file_ops.rs, torrent_state/initializing.rs).       *)
(*                                                                         *)
(* The torrent is one string of bytes that the files cut into parts, which *)
(* have nothing to do with its pieces: initial_check walks the pieces and  *)
(* the files at the same time, write_chunk, read_chunk and check_piece     *)
(* find the files of an absolute offset.  A byte is the position in the    *)
(* torrent it belongs to, so a byte in the wrong place is seen; a hash     *)
(* matches if every byte of the piece was read and is the right one.       *)
(***************************************************************************)
EXTENDS Lengths, Integers, FiniteSets, Sequences

CONSTANTS
    MaxFiles,       \* bound: files of the torrent
    FileLens,       \* lengths of files
    PieceLens,      \* lengths of pieces
    ChunkLen,       \* CHUNK_SIZE
    Found,          \* what the files may hold before the torrent is added
    MaxChecks       \* bound: initial checks, one per start of the client

Junk == -1

ASSUME FileOpsAssumption ==
    /\ MaxFiles \in Nat \ {0}
    /\ FileLens \subseteq Nat
    /\ PieceLens \subseteq Nat \ {0}
    /\ ChunkLen \in Nat \ {0}
    /\ Found \subseteq {"empty", "good", "junk"}
    /\ MaxChecks \in Nat \ {0}

VARIABLES
    lens,           \* the lengths of the files
    lengths,        \* the Lengths of the torrent
    only_files,     \* the files to download
    disk,           \* per file, its bytes
    cursor,         \* where initial_check is
    results,        \* InitialCheckResults
    written,        \* chunks written since the check
    completed,      \* pieces whose chunks were all written
    checks          \* initial checks so far; 0 < checks while one is running

vars == <<lens, lengths, only_files, disk, cursor, results, written, completed, checks>>
torrentVars == <<lens, lengths, only_files>>

Files == DOMAIN lens

\* The files lie one behind the other: the first byte of file f.
FileStart(ls, f) ==
    LET start[k \in 1..Len(ls)] == IF k = 1 THEN 0 ELSE start[k - 1] + ls[k - 1]
    IN  start[f]

TotalLength(ls) == FileStart(ls, Len(ls)) + ls[Len(ls)]

BytesOfPiece(p) ==
    piece_offset(lengths, p)..(piece_offset(lengths, p) + piece_length(lengths, p) - 1)

BytesOfChunk(i) ==
    chunk_absolute_offset(lengths, i)..(chunk_absolute_offset(lengths, i) + i.size - 1)

\* Byte x of the torrent is in its place on the disk.
InPlace(x) ==
    \E f \in Files :
        LET o == x - FileStart(lens, f) IN
        /\ o \in 0..(Len(disk[f]) - 1)
        /\ disk[f][o + 1] = x

-----------------------------------------------------------------------------
(* initial_check *)

StartCursor(ls, L, sel) ==
    [piece     |-> 0,                   \* iter_piece_infos
     remaining |-> piece_length(L, 0),  \* piece_remaining
     hash_ok   |-> TRUE,                \* computed_hash, of what was read
     broken    |-> FALSE,               \* some_files_broken
     required  |-> 1 \in sel,           \* at_least_one_file_required
     file      |-> 1,                   \* current_file and its fields
     processed |-> 0,
     is_broken |-> FALSE]

NoResults == [needed_pieces |-> {}, have_pieces |-> {}, have_bytes |-> 0,
              needed_bytes |-> 0, total_selected_bytes |-> 0]

\* The contents of a file that was there before.
OldFile(ls, f, how) ==
    IF how = "empty" THEN <<>>
    ELSE [o \in 1..ls[f] |-> IF how = "good" THEN FileStart(ls, f) + o - 1 ELSE Junk]

Init ==
    \E n \in 1..MaxFiles : \E ls \in [1..n -> FileLens], pl \in PieceLens,
                              sel \in SUBSET (1..n), how \in [1..n -> Found] :
        /\ IsValid(TotalLength(ls), pl, ChunkLen)
        /\ lens = ls
        /\ lengths = NewLengths(TotalLength(ls), pl, ChunkLen)
        /\ only_files = sel
        /\ disk = [f \in 1..n |-> OldFile(ls, f, how[f])]
        /\ cursor = StartCursor(ls, NewLengths(TotalLength(ls), pl, ChunkLen), sel)
        /\ results = NoResults
        /\ written = {} /\ completed = {}
        /\ checks = 1

Checking == cursor.piece <= lengths.last_piece_id

to_read_in_file == Least(lens[cursor.file] - cursor.processed, cursor.remaining)

\* "Keep changing the current file to next until we find a file that has greater
\* than 0 length."
next_file ==
    /\ Checking
    /\ cursor.remaining > 0
    /\ to_read_in_file = 0
    /\ cursor' = [cursor EXCEPT !.file = @ + 1, !.processed = 0, !.is_broken = FALSE,
                                !.required = @ \/ cursor.file + 1 \in only_files]
    /\ UNCHANGED <<torrentVars, disk, results, written, completed, checks>>

\* Read the part of the piece that is in the current file, unless the file was
\* too short before.
read_in_file ==
    /\ Checking
    /\ to_read_in_file > 0
    /\ LET f == cursor.file
           upto == cursor.processed + to_read_in_file
           short == Len(disk[f]) < upto
           right == \A o \in cursor.processed..(upto - 1) :
                        disk[f][o + 1] = FileStart(lens, f) + o
       IN cursor' = [cursor EXCEPT
              !.remaining = @ - to_read_in_file,
              !.processed = upto,
              !.hash_ok   = @ /\ ~cursor.is_broken /\ ~short /\ right,
              !.broken    = @ \/ (~cursor.is_broken /\ short),
              !.is_broken = @ \/ short]
    /\ UNCHANGED <<torrentVars, disk, results, written, completed, checks>>

\* The verdict on a piece that was read.
Verdict(c) ==
    IF c.required /\ c.broken THEN "needed"
    ELSE IF c.hash_ok THEN "have"
    ELSE IF c.required THEN "needed"
    ELSE "ignored"

\* Mutant: the hash of the next piece goes on from this one.
NextPiece_same_hash(c) ==
    [c EXCEPT !.piece = @ + 1,
              !.remaining = piece_length(lengths, c.piece + 1),
              !.broken = FALSE,
              !.required = c.file \in only_files]

\* The locals of the loop for the next piece: it starts in the file in which this
\* one ended.
NextPiece(c) ==
    [c EXCEPT !.piece = @ + 1,
              !.remaining = piece_length(lengths, c.piece + 1),
              !.hash_ok = TRUE,
              !.broken = FALSE,
              !.required = c.file \in only_files]

piece_checked ==
    /\ Checking
    /\ cursor.remaining = 0
    /\ LET p == cursor.piece
           len == piece_length(lengths, p)
           add(cond) == IF cond THEN len ELSE 0
           verdict == Verdict(cursor)
       IN results' =
             [needed_pieces |-> results.needed_pieces
                                    \cup (IF verdict = "needed" THEN {p} ELSE {}),
              have_pieces   |-> results.have_pieces
                                    \cup (IF verdict = "have" THEN {p} ELSE {}),
              have_bytes    |-> results.have_bytes + add(verdict = "have"),
              needed_bytes  |-> results.needed_bytes + add(verdict = "needed"),
              total_selected_bytes |-> results.total_selected_bytes
                                           + add(cursor.required)]
    /\ cursor' = NextPiece(cursor)
    \* After the last piece the selected files get their full length.
    /\ disk' = IF cursor.piece # lengths.last_piece_id THEN disk
               ELSE [f \in Files |->
                        IF f \notin only_files THEN disk[f]
                        ELSE [o \in 1..lens[f] |->
                                IF o <= Len(disk[f]) THEN disk[f][o] ELSE Junk]]
    /\ UNCHANGED <<torrentVars, written, completed, checks>>

-----------------------------------------------------------------------------
(* Finding the files of an absolute offset *)

\* Mutant: the offset is not reset for the files after the first.
Walk_no_reset(offset, n) ==
    LET at[f \in 1..(Len(lens) + 1)] ==
            IF f = 1 THEN [offset |-> offset, left |-> n]
            ELSE LET b == at[f - 1] IN
                 IF b.offset > lens[f - 1]
                   THEN [b EXCEPT !.offset = @ - lens[f - 1]]
                   ELSE [b EXCEPT !.left = @ - Least(lens[f - 1] - b.offset, b.left)]
    IN  at

\* The loop of write_chunk, read_chunk and check_piece: absolute_offset and the
\* bytes that are left before each file.
Walk(offset, n) ==
    LET at[f \in 1..(Len(lens) + 1)] ==
            IF f = 1 THEN [offset |-> offset, left |-> n]
            ELSE LET b == at[f - 1] IN
                 IF b.offset > lens[f - 1]
                   THEN [b EXCEPT !.offset = @ - lens[f - 1]]
                   ELSE [offset |-> 0,
                         left |-> b.left - Least(lens[f - 1] - b.offset, b.left)]
    IN  at

\* File f after writing n bytes of the torrent, which are the right ones, from
\* offset on; a write behind the end of a file fills the gap.
WrittenFile(f, offset, n) ==
    LET b == Walk(offset, n)[f]
        len == IF b.offset > lens[f] THEN 0 ELSE Least(lens[f] - b.offset, b.left)
        first == offset + n - b.left
        upto == b.offset + len
    IN  IF len = 0 THEN disk[f]
        ELSE [o \in 1..(IF upto > Len(disk[f]) THEN upto ELSE Len(disk[f])) |->
                IF o - 1 \in b.offset..(upto - 1) THEN first + (o - 1 - b.offset)
                ELSE IF o <= Len(disk[f]) THEN disk[f][o] ELSE Junk]

\* A chunk of a needed piece arrives.
write_chunk(info) ==
    /\ ~Checking
    /\ info.piece_index \in results.needed_pieces
    /\ info \notin written
    /\ disk' = [f \in Files |->
                    WrittenFile(f, chunk_absolute_offset(lengths, info), info.size)]
    /\ written' = written \cup {info}
    /\ completed' = completed \cup
          (IF ChunkInfos(lengths, info.piece_index) \subseteq written'
             THEN {info.piece_index} ELSE {})
    /\ UNCHANGED <<torrentVars, cursor, results, checks>>

\* The client is started again on the same files.
start_again ==
    /\ ~Checking
    /\ checks < MaxChecks
    /\ checks' = checks + 1
    /\ cursor' = StartCursor(lens, lengths, only_files)
    /\ results' = NoResults
    /\ written' = {}
    /\ UNCHANGED <<torrentVars, disk, completed>>

-----------------------------------------------------------------------------

Next ==
    \/ next_file \/ read_in_file \/ piece_checked
    \/ \E p \in PieceIds(lengths) : \E info \in ChunkInfos(lengths, p) : write_chunk(info)
    \/ start_again

Spec == Init /\ [][Next]_vars

-----------------------------------------------------------------------------
(* Properties *)

\* The loop of initial_check never runs out of files and never subtracts below
\* zero, and the results name pieces of the torrent.
TypeOK ==
    /\ cursor.piece \in 0..(lengths.last_piece_id + 1)
    /\ cursor.remaining \in 0..lengths.piece_length
    /\ cursor.file \in Files
    /\ cursor.processed \in 0..lens[cursor.file]
    /\ {cursor.hash_ok, cursor.broken, cursor.required, cursor.is_broken} \subseteq BOOLEAN
    /\ results.needed_pieces \cup results.have_pieces \cup completed
          \subseteq PieceIds(lengths)
    /\ \A f \in Files : \A o \in DOMAIN disk[f] : disk[f][o] \in Nat \cup {Junk}

\* However pieces, chunks and files are cut, the chunks that we request are those
\* that we recognize when they arrive, they tile their piece, and their bits are
\* those of chunk_range, which no two pieces share.
ChunksTileTorrent ==
    \A p \in PieceIds(lengths) :
        LET infos == ChunkInfos(lengths, p) IN
        /\ \A i \in infos : chunk_info_from_received_data(lengths, p, i.offset, i.size) = {i}
        /\ {i.absolute_index : i \in infos} = chunk_range(lengths, p)
        /\ UNION {BytesOfChunk(i) : i \in infos} = BytesOfPiece(p)
        /\ \A i, j \in infos : i # j => BytesOfChunk(i) \cap BytesOfChunk(j) = {}
        /\ \A q \in PieceIds(lengths) \ {p} :
              chunk_range(lengths, p) \cap chunk_range(lengths, q) = {}

\* Whatever the files held and wherever they are cut, the check finds exactly the
\* pieces whose bytes are all right, and counts their bytes.
CheckIsExact ==
    ~Checking /\ written = {} =>
        /\ results.have_pieces =
              {p \in PieceIds(lengths) : \A x \in BytesOfPiece(p) : InPlace(x)}
        /\ results.have_bytes =
              Cardinality(UNION {BytesOfPiece(p) : p \in results.have_pieces})

Touches(p, f) ==
    \E x \in BytesOfPiece(p) : x \in FileStart(lens, f)..(FileStart(lens, f) + lens[f] - 1)

\* Every piece of a selected file is there or will be downloaded, no piece is both,
\* and "If all selected, this must be equal to total torrent length."
SelectedIsCovered ==
    ~Checking =>
        /\ \A p \in PieceIds(lengths), f \in only_files :
              Touches(p, f) => p \in results.have_pieces \cup results.needed_pieces
        /\ results.have_pieces \cap results.needed_pieces = {}
        /\ only_files = Files => results.total_selected_bytes = TotalLength(lens)

\* Nothing is needed for a file that was not selected, except for a piece that
\* starts where a selected file ends, or that has a selected empty file in it:
\* at_least_one_file_required asks the current file even if none of it is left.
OnlySelectedNeeded ==
    \A p \in results.needed_pieces : \E f \in only_files :
        /\ piece_offset(lengths, p) <= FileStart(lens, f) + lens[f]
        /\ FileStart(lens, f) <= piece_offset(lengths, p) + piece_length(lengths, p) - 1

\* No write puts a byte into the wrong file or at the wrong place of its file.
BytesInPlace ==
    \A f \in Files : \A o \in DOMAIN disk[f] :
        disk[f][o] \in {Junk, FileStart(lens, f) + o - 1}

\* What write_chunk wrote, the check of the next start finds.
WrittenIsFound ==
    ~Checking /\ checks > 1 /\ written = {} => completed \subseteq results.have_pieces

\* ChunkTracker::new slices chunk_range of every piece out of a bit field of
\* total_chunks bits, rounded up to bytes: they are inside, and use all of it, when
\* a piece is a whole number of chunks.  lengths.rs no longer checks that ("I guess
\* this is not needed? Don't recall why I put this check here."); for other piece
\* lengths the ranges of a long torrent leave the bit field.
ChunkRangesInBitfield ==
    lengths.piece_length % lengths.chunk_length = 0 =>
        UNION {chunk_range(lengths, p) : p \in PieceIds(lengths)} = 0..(total_chunks(lengths) - 1)

\* The results of initial_check are right: what is there is found, what is selected
\* is there or needed, and hardly more than that is needed.
ResultsRight == TypeOK /\ CheckIsExact /\ SelectedIsCovered /\ OnlySelectedNeeded

\* The chunks of all pieces tile the torrent, and their bits the bit field.
ChunksTile == ChunksTileTorrent /\ ChunkRangesInBitfield

\* A write puts its bytes where they belong, and they are found there again.
WritesLand == BytesInPlace /\ WrittenIsFound
=============================================================================
