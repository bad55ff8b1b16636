--------------------------- MODULE MetainfoReader ---------------------------
(***************************************************************************)
(* Resolving a magnet link (dht_utils.rs, peer_info_reader/mod.rs, the     *)
(* magnet branch of Session::add_torrent): addresses come in from a        *)
(* stream, up to Permits peers are asked at a time for the info            *)
(* dictionary, and the first that delivers one with the right hash wins.   *)
(* A reader is one future of read_metainfo_from_peer_receiver with its     *)
(* connection and Handler; what its peer sends depends on the peer.        *)
(*                                                                         *)
(* The content of a metadata piece is TRUE when it is that of the torrent; *)
(* the hash of the buffer matches when the size and every piece are right. *)
(***************************************************************************)
EXTENDS Naturals, SequencesExt

CONSTANTS
    Addrs,          \* addresses of peers
    InitialAddrs,   \* initial_peers of the options, a sequence
    Kinds,          \* what peers may be: subset of {"honest", "repeats", "any", "plain"}
    ChunkSize,      \* CHUNK_SIZE
    MaxSize,        \* largest metadata_size that is accepted (1 MiB in the code)
    TrueSize,       \* size of the torrent's info
    Decodes,        \* the bytes with the link's hash are a TorrentMetaV1Info
    Sizes,          \* sizes a peer may name
    Permits,        \* permits of the semaphore (128 in the code)
    MaxStream,      \* bound: addresses the stream yields
    MaxAny          \* bound: messages of a peer that sends anything

ASSUME MetainfoAssumption ==
    /\ ChunkSize \in Nat \ {0} /\ Permits \in Nat \ {0}
    /\ MaxSize \in Nat /\ TrueSize \in Sizes /\ TrueSize <= MaxSize /\ TrueSize # 0
    /\ Sizes \subseteq Nat /\ MaxStream \in Nat /\ Decodes \in BOOLEAN
    /\ InitialAddrs \in Seq(Addrs)

VARIABLES
    kind,       \* address -> what the peer there is
    stream,     \* addrs: how many addresses it yielded, and whether it ended
    seen,       \* addresses asked, or about to be
    readers,    \* the futures, in the order they were pushed
    sem,        \* free permits
    outcome     \* "searching", or how add_torrent goes on

vars == <<kind, stream, seen, readers, sem, outcome>>

\* No HandlerLocked, no info: a size that none can have.
None == [size |-> MaxSize + 1, received |-> [i \in {} |-> TRUE]]

-----------------------------------------------------------------------------
(* HandlerLocked *)

ceil_div(a, b) == (a + b - 1) \div b
TotalPieces(size) == ceil_div(size, ChunkSize)

\* HandlerLocked::new; the sizes beyond the limit are refused by the caller.
NewLocked(size) == [size |-> size, received |-> [i \in {} |-> TRUE]]

piece_size(size, i) ==
    IF i = TotalPieces(size) - 1 /\ size % ChunkSize # 0 THEN size % ChunkSize ELSE ChunkSize

Complete(l) == DOMAIN l.received = 0..(TotalPieces(l.size) - 1)
ChecksumOk(l) == l.size = TrueSize /\ \A i \in DOMAIN l.received : l.received[i]

\* The data of a piece in its place in the buffer.
WithPiece(l, d) ==
    [l EXCEPT !.received = [i \in DOMAIN l.received \cup {d.index} |->
                               IF i = d.index THEN d.content ELSE l.received[i]]]

\* Mutant: the checksum is not looked at.
record_piece_unchecked(l, d) ==
    LET new == WithPiece(l, d)
    IN  IF d.index >= TotalPieces(l.size) \/ d.len # piece_size(l.size, d.index)
           \/ d.index \in DOMAIN l.received
          THEN [res |-> "error"]
        ELSE [res |-> IF Complete(new) THEN "ready" ELSE "more", locked |-> new]

\* record_piece: an error, or the new state and whether it is complete.
record_piece(l, d) ==
    LET new == WithPiece(l, d)
    IN  IF d.index >= TotalPieces(l.size) \/ d.len # piece_size(l.size, d.index)
           \/ d.index \in DOMAIN l.received
          THEN [res |-> "error"]
        ELSE IF ~Complete(new) THEN [res |-> "more", locked |-> new]
        ELSE IF ChecksumOk(new) THEN [res |-> "ready", locked |-> new]
        ELSE [res |-> "error"]

-----------------------------------------------------------------------------
(* A reader *)

\* A future of read_info_guarded before it got its permit.
NewReader(a) ==
    [addr |-> a, st |-> "waiting", locked |-> None, reqs |-> <<>>, handshakes |-> 0,
     sent |-> 0, result |-> None, odd |-> FALSE]

Running(r) == readers[r].st \in {"connecting", "reading"}
Kind(r) == kind[readers[r].addr]

\* The future of a reader ends; its permit is dropped.
EndReader(r, st) ==
    /\ readers' = [readers EXCEPT ![r] = [NewReader(readers[r].addr) EXCEPT
                        !.st = st, !.result = readers[r].result, !.odd = readers[r].odd]]
    /\ sem' = sem + 1

acquire(r) ==
    /\ outcome = "searching"
    /\ readers[r].st = "waiting" /\ sem > 0
    /\ sem' = sem - 1
    /\ readers' = [readers EXCEPT ![r].st = "connecting"]
    /\ UNCHANGED <<kind, stream, seen, outcome>>

\* Handler::on_handshake: a peer without extended messages is of no use.
on_handshake(r) ==
    /\ outcome = "searching"
    /\ readers[r].st = "connecting"
    /\ IF Kind(r) = "plain" THEN EndReader(r, "failed")
       ELSE readers' = [readers EXCEPT ![r].st = "reading"] /\ UNCHANGED sem
    /\ UNCHANGED <<kind, stream, seen, outcome>>

\* The connection ends by itself: refused, closed, or silent for too long.  An
\* info that is in the oneshot already may be lost with it.
connection_ends(r) ==
    /\ outcome = "searching"
    /\ Running(r) /\ Kind(r) \in {"any", "plain"}
    /\ EndReader(r, "failed")
    /\ UNCHANGED <<kind, stream, seen, outcome>>

\* Mutant: the last piece is not requested.
on_extended_handshake_short(r) ==
    /\ outcome = "searching"
    /\ readers[r].st = "reading"
    /\ readers[r].handshakes < (IF Kind(r) = "honest" THEN 1 ELSE 2)
    /\ \E size \in IF Kind(r) = "any" THEN Sizes ELSE {TrueSize} :
         IF size > MaxSize
           THEN EndReader(r, "failed")
           ELSE /\ readers' = [readers EXCEPT
                    ![r].locked = NewLocked(size),
                    ![r].handshakes = @ + 1,
                    ![r].reqs = @ \o [i \in 1..(TotalPieces(size) - 1) |-> i - 1]]
                /\ UNCHANGED sem
    /\ UNCHANGED <<kind, stream, seen, outcome>>

\* Handler::on_extended_handshake with a metadata_size:
\* the pieces received so far are dropped and all are requested.
on_extended_handshake(r) ==
    /\ outcome = "searching"
    /\ readers[r].st = "reading"
    /\ readers[r].handshakes < (IF Kind(r) = "honest" THEN 1 ELSE 2)
    /\ \E size \in IF Kind(r) = "any" THEN Sizes ELSE {TrueSize} :
         IF size > MaxSize
           THEN EndReader(r, "failed")
           ELSE /\ readers' = [readers EXCEPT
                    ![r].locked = NewLocked(size),
                    ![r].handshakes = @ + 1,
                    ![r].reqs = @ \o [i \in 1..TotalPieces(size) |-> i - 1]]
                /\ UNCHANGED sem
    /\ UNCHANGED <<kind, stream, seen, outcome>>

\* What the peer may send as data: the answer to its oldest request, or anything.
DataOf(r) ==
    IF Kind(r) = "any"
      THEN IF readers[r].sent >= MaxAny THEN {}
           ELSE [index : 0..TotalPieces(MaxSize), len : 1..ChunkSize, content : BOOLEAN]
      ELSE IF readers[r].reqs = <<>> THEN {}
           ELSE LET i == Head(readers[r].reqs)
                IN  {[index |-> i, len |-> piece_size(TrueSize, i), content |-> TRUE]}

Answered(r, d) ==
    [readers[r] EXCEPT !.sent = IF Kind(r) = "any" THEN @ + 1 ELSE @,
                       !.odd = @ \/ ~Contains(readers[r].reqs, d.index),
                       !.reqs = RemoveFirst(@, d.index)]

\* Mutant: the state is taken out after every piece.
on_data_takes(r) ==
    /\ outcome = "searching"
    /\ readers[r].st = "reading"
    /\ \E d \in DataOf(r) :
         LET now == Answered(r, d)
             l == now.locked
             rec == record_piece(l, d)
         IN  IF l = None
               THEN /\ outcome' = "panicked"
                    /\ readers' = [readers EXCEPT ![r] = [now EXCEPT !.st = "panicked"]]
                    /\ UNCHANGED sem
             ELSE /\ UNCHANGED outcome
                  /\ IF rec.res = "error" THEN EndReader(r, "failed")
                     ELSE /\ readers' = [readers EXCEPT ![r] = [now EXCEPT !.locked = None]]
                          /\ UNCHANGED sem
    /\ UNCHANGED <<kind, stream, seen>>

\* Handler::on_received_message with the data of a piece: without a state to record
\* it in, unwrap panics and takes the whole add_torrent with it.
on_data(r) ==
    /\ outcome = "searching"
    /\ readers[r].st = "reading"
    /\ \E d \in DataOf(r) :
         LET now == Answered(r, d)
             l == now.locked
             rec == record_piece(l, d)
         IN  IF l = None
               THEN /\ outcome' = "panicked"
                    /\ readers' = [readers EXCEPT ![r] = [now EXCEPT !.st = "panicked"]]
                    /\ UNCHANGED sem
               ELSE /\ UNCHANGED outcome
                    /\ \/ /\ rec.res = "error" \/ (rec.res = "ready" /\ now.result # None)
                          /\ EndReader(r, "failed")
                       \/ /\ rec.res = "more"
                          /\ readers' = [readers EXCEPT ![r] = [now EXCEPT !.locked = rec.locked]]
                          /\ UNCHANGED sem
                       \/ /\ rec.res = "ready" /\ now.result = None
                          /\ readers' = [readers EXCEPT ![r] =
                                 [now EXCEPT !.locked = None, !.result = rec.locked]]
                          /\ UNCHANGED sem
    /\ UNCHANGED <<kind, stream, seen>>

\* result_reader of the select: the info is taken out of the oneshot, or the error
\* of from_bytes, which every reader with the right bytes meets.
result_reader(r) ==
    /\ outcome = "searching"
    /\ readers[r].st = "reading" /\ readers[r].result # None
    /\ EndReader(r, IF Decodes THEN "found" ELSE "failed")
    /\ UNCHANGED <<kind, stream, seen, outcome>>

-----------------------------------------------------------------------------
(* read_metainfo_from_peer_receiver *)

next_addr ==
    /\ outcome = "searching" /\ ~stream.ended
    /\ stream.yielded < MaxStream
    /\ \E a \in Addrs :
        /\ stream' = [stream EXCEPT !.yielded = @ + 1]
        /\ seen' = seen \cup {a}
        /\ readers' = IF a \in seen THEN readers ELSE Append(readers, NewReader(a))
    /\ UNCHANGED <<kind, sem, outcome>>

\* The sender side of the stream is gone (no DHT, and every tracker gave up).
stream_ends ==
    /\ outcome = "searching" /\ ~stream.ended
    /\ stream' = [stream EXCEPT !.ended = TRUE]
    /\ UNCHANGED <<kind, seen, readers, sem, outcome>>

\* ChannelClosed: at once, whatever the readers are doing.
channel_closed ==
    /\ outcome = "searching" /\ stream.ended
    /\ outcome' = "channel_closed"
    /\ UNCHANGED <<kind, stream, seen, readers, sem>>

\* unordered.next(): a failed reader is forgotten, the first info is returned.
reader_done(r) ==
    /\ outcome = "searching"
    /\ readers[r].st \in {"failed", "found"}
    /\ IF readers[r].st = "found"
         THEN outcome' = "found" /\ UNCHANGED readers
         ELSE /\ readers' = [readers EXCEPT ![r].st = "gone"]
              /\ UNCHANGED outcome
    /\ UNCHANGED <<kind, stream, seen, sem>>

-----------------------------------------------------------------------------

Init ==
    /\ kind \in [Addrs -> Kinds]
    /\ stream = [yielded |-> 0, ended |-> FALSE]
    /\ seen = ToSet(InitialAddrs)
    /\ readers = [i \in 1..Len(InitialAddrs) |-> NewReader(InitialAddrs[i])]
    /\ sem = Permits
    /\ outcome = "searching"

ReaderStep(r) ==
    \/ acquire(r) \/ on_handshake(r) \/ on_extended_handshake(r) \/ on_data(r)
    \/ result_reader(r) \/ reader_done(r) \/ connection_ends(r)

Next ==
    \/ next_addr \/ stream_ends \/ channel_closed
    \/ \E r \in 1..Len(readers) : ReaderStep(r)

Spec == Init /\ [][Next]_vars

\* The futures are polled by one task until one has a result; a peer either goes on
\* with the protocol or its connection times out.
MaxReaders == Len(InitialAddrs) + MaxStream
FairSpec ==
    /\ Spec
    /\ WF_vars(channel_closed)
    /\ \A r \in 1..MaxReaders :
        WF_vars(r \in 1..Len(readers) /\ ReaderStep(r))

-----------------------------------------------------------------------------
(* Properties *)

\* The readers that hold a permit.
Holders == {r \in 1..Len(readers) : Running(r) \/ readers[r].st = "panicked"}

\* Every piece of state has its type; a permit is free or with a running reader.
TypeOK ==
    /\ kind \in [Addrs -> Kinds]
    /\ stream.yielded \in 0..MaxStream /\ stream.ended \in BOOLEAN
    /\ seen \subseteq Addrs
    /\ \A r \in 1..Len(readers) :
        /\ readers[r].addr \in seen
        /\ readers[r].st \in {"waiting", "connecting", "reading", "failed", "found", "gone", "panicked"}
        /\ readers[r].locked # None =>
             /\ readers[r].locked.size <= MaxSize
             /\ DOMAIN readers[r].locked.received
                  \subseteq 0..(TotalPieces(readers[r].locked.size) - 1)
    /\ outcome \in {"searching", "found", "channel_closed", "panicked"}
    /\ sem + Cardinality(Holders) = Permits

\* The info that add_torrent goes on with has the hash of the magnet link, whatever
\* sizes and pieces the peers sent, and however often they started over; so has
\* every info that waits in a oneshot (record_piece, Handler::on_received_message).
InfoIsRight ==
    /\ \A r \in 1..Len(readers) :
          /\ readers[r].result # None =>
                ChecksumOk(readers[r].result) /\ Complete(readers[r].result)
          /\ readers[r].st = "found" => readers[r].result # None
    /\ outcome = "found" => \E r \in 1..Len(readers) :
          readers[r].st = "found" /\ ChecksumOk(readers[r].result) /\ Complete(readers[r].result)

\* What is still to come from a peer that has sent one extended handshake and only
\* what was requested: pieces that are missing, each once, and none when all are here.
RequestsKnown ==
    \A r \in 1..Len(readers) :
        LET x == readers[r] IN
        x.st # "panicked" =>
            /\ x.handshakes = 0 => x.reqs = <<>> /\ x.locked = None
            /\ x.handshakes = 1 /\ ~x.odd =>
                  /\ \A i, j \in 1..Len(x.reqs) : x.reqs[i] = x.reqs[j] => i = j
                  /\ x.locked = None => x.reqs = <<>>
                  /\ x.locked # None => \A i \in 1..Len(x.reqs) :
                        x.reqs[i] \in 0..(TotalPieces(x.locked.size) - 1) \ DOMAIN x.locked.received

\* The unwrap of on_received_message is reached only when a peer sends data that
\* was not requested, or repeats its extended handshake (which requests all pieces
\* again, while the first complete set takes the state away).
PanicNeedsRepeat ==
    \A r \in 1..Len(readers) : readers[r].st = "panicked" =>
        readers[r].odd \/ readers[r].handshakes > 1

\* However often the stream yields an address, one connection to it is made; only
\* initial_peers that name an address twice have it asked twice.
AskedOnce ==
    \A r, s \in 1..Len(readers) :
        r # s /\ readers[r].addr = readers[s].addr => r <= Len(InitialAddrs) /\ s <= Len(InitialAddrs)

\* The magnet link of a torrent whose info can be decoded is resolved if one of the
\* peers asked has the info and keeps its connection, unless the search ends for another reason: the stream of addresses
\* ended first (the readers are then dropped, even one that was about to return),
\* or another peer made it panic.
Resolved ==
    (Decodes /\ \E r \in 1..Len(readers) : Kind(r) = "honest") ~> outcome # "searching"

\* One reader per address, each with a permit of its own, and none panics unless its
\* peer breaks the protocol.
ReadersSound == TypeOK /\ AskedOnce /\ RequestsKnown /\ PanicNeedsRepeat
=============================================================================
