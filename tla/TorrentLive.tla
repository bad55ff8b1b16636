----------------------------- MODULE TorrentLive -----------------------------
(***************************************************************************)
(* Downloading a torrent from several peers at once                        *)
(* (crates/librqbit/src/torrent_state/live/mod.rs).                        *)
(*                                                                         *)
(* Every peer has one task that is two futures: a requester, which         *)
(* reserves or steals pieces and asks for their chunks, and a message      *)
(* handler, which runs on_received_piece.  A task never runs both at once, *)
(* but the tasks of different peers run in parallel on the threads of the  *)
(* runtime.  The handler of a chunk takes several steps and holds no lock  *)
(* between them:                                                           *)
(*                                                                         *)
(*   "write" -> "check" -> "mark" -> "count" -> "finish" -> "idle"         *)
(*                                                                         *)
(* The connection life cycle is in PeerStates: here a peer is live or not. *)
(* Timing (elapsed time against the average piece time) is abstracted: a   *)
(* peer that has an average may steal any piece of another peer.           *)
(***************************************************************************)
EXTENDS ChunkTracker, FiniteSets

CONSTANTS
    Peers,          \* addresses
    NoPeer,         \* a piece nobody is downloading
    RemotePieces,   \* RemotePieces[a]: the pieces peer a has
    Selected,       \* the pieces of the files to download (only_files)
    Unsized,        \* the chunks with bytes in files that set_len did not size
    Contents,       \* what a chunk sent by a peer may contain
    UnchokePermits, \* permits added by an Unchoke (16 in the code)
    OnlyAnswers,    \* TRUE: peers send no chunk before its request is sent
    DiskFaults,     \* TRUE: writing to and reading from the files may fail
    MaxPermits,     \* bound: permits one connection may have in circulation
    MaxDeaths,      \* bound: connections that end with an error
    MaxSteals,      \* bound: stolen pieces
    MaxStops        \* bound: pauses and restarts

ASSUME LiveAssumption ==
    /\ NoPeer \notin Peers
    /\ RemotePieces \in [Peers -> SUBSET Pieces]
    /\ Selected \subseteq Pieces
    /\ Unsized \subseteq Chunks
    /\ Contents \subseteq {"good", "bad"}
    /\ UnchokePermits \in Nat \ {0}
    /\ OnlyAnswers \in BOOLEAN
    /\ DiskFaults \in BOOLEAN
    /\ {MaxPermits, MaxDeaths, MaxSteals, MaxStops} \subseteq Nat

VARIABLES
    mode,               \* ManagedTorrentState: "live", "paused" or "error"
    chunks,             \* the ChunkTracker, in the live or in the paused state
    inflight_pieces,    \* which peer we expect a piece from
    wanted,             \* the pieces behind initially_needed_bytes
    downloaded_bytes,   \* stats.downloaded_and_checked_bytes
    fatal               \* fatal_errors_tx was used

VARIABLES
    live,               \* PeerState is Live
    bitfield,           \* LivePeerState.bitfield
    inflight_requests,  \* LivePeerState.inflight_requests
    i_am_choked,        \* PeerHandlerLocked.i_am_choked
    requests_sem,       \* free permits of PeerHandler.requests_sem
    requester,          \* where task_peer_chunk_requester is
    handler,            \* where on_received_piece is
    has_average         \* average_piece_download_time() is Some

VARIABLES
    disk,               \* the contents of every chunk in the files
    read_only,          \* the files were reopened read-only
    lost                \* history: the pieces that could not be read back

VARIABLES deaths, steals, stops

torrentVars == <<mode, chunks, inflight_pieces, wanted, downloaded_bytes, fatal>>
peerVars == <<live, bitfield, inflight_requests, i_am_choked, requests_sem,
              requester, handler, has_average>>
diskVars == <<disk, read_only, lost>>
boundVars == <<deaths, steals, stops>>
vars == <<torrentVars, peerVars, diskVars, boundVars>>

RequesterStates == {"bitfield", "start", "loop", "ready", "permit", "forever"}
HandlerStates == {"idle", "write", "check", "mark", "count", "finish", "failed"}

\* A requester waits for a permit for chunk .chunk of piece .piece.
Requesters == [st : RequesterStates, piece : Pieces, chunk : Nat]
\* A handler works on a chunk; .completed says it was the last of its piece.
Handlers == [st : HandlerStates, piece : Pieces, chunk : Nat,
             completed : BOOLEAN, data : {"good", "bad"}]

AtRest(st) == [st |-> st, piece |-> 0, chunk |-> 0]
Idle == [st |-> "idle", piece |-> 0, chunk |-> 0, completed |-> FALSE,
         data |-> "good"]

-----------------------------------------------------------------------------
(* Queries *)

initially_needed_bytes == BytesOf(wanted)
is_finished == initially_needed_bytes = downloaded_bytes

has_full_torrent(a) == Pieces \subseteq bitfield[a]

\* Peer a's task is past its last await and will mark, count or fail.
Verifying(a, p) ==
    /\ handler[a].piece = p
    /\ handler[a].completed
    /\ handler[a].st \in {"write", "check", "mark"}

\* The piece check after the last chunk: check_piece returns true as soon as
\* it has read the piece from the files, and never compares the hash.
check_piece(p) == TRUE

\* The hash comparison that initial_check makes.
HashMatches(p) == \A c \in chunk_range(p) : disk[c] = "good"

\* Bytes of piece p that nobody has written yet may lie beyond the end of a file:
\* only the selected files are given their length before the download.  (A later
\* chunk may have lengthened the file, so reading them need not fail.)
Unreadable(p) == \E c \in chunk_range(p) \cap Unsized : disk[c] = "none"

\* The task of peer a is at an await, so it may receive, be choked or end.
AtAwait(a) == mode = "live" /\ live[a] /\ handler[a].st = "idle"

-----------------------------------------------------------------------------
(* Starting and stopping *)

\* A TorrentStateLive without peers, as TorrentStateLive::new leaves it.
NoPeersInit ==
    /\ live = [a \in Peers |-> FALSE]
    /\ bitfield = [a \in Peers |-> {}]
    /\ inflight_requests = [a \in Peers |-> {}]
    /\ i_am_choked = [a \in Peers |-> TRUE]
    /\ requests_sem = [a \in Peers |-> 0]
    /\ requester = [a \in Peers |-> AtRest("bitfield")]
    /\ handler = [a \in Peers |-> Idle]
    /\ has_average = [a \in Peers |-> FALSE]

\* The torrent was added, initial_check found the pieces of some earlier run.
Init ==
    /\ mode = "live"
    /\ \E old \in SUBSET Pieces :
          /\ disk = [c \in Chunks |-> IF c[1] \in old THEN "good" ELSE "none"]
          /\ chunks = NewTracker(Selected \ old, old)
          /\ wanted = Selected \ old
    /\ inflight_pieces = [p \in Pieces |-> NoPeer]
    /\ downloaded_bytes = 0
    /\ fatal = FALSE
    /\ read_only = FALSE /\ lost = {}
    /\ NoPeersInit
    /\ deaths = 0 /\ steals = 0 /\ stops = 0

\* Mutant: the next live state starts with the old counter.
DropLiveState_keeps_counter ==
    /\ inflight_pieces' = [p \in Pieces |-> NoPeer]
    /\ downloaded_bytes' = downloaded_bytes
    /\ fatal' = FALSE
    /\ live' = [a \in Peers |-> FALSE]
    /\ bitfield' = [a \in Peers |-> {}]
    /\ inflight_requests' = [a \in Peers |-> {}]
    /\ i_am_choked' = [a \in Peers |-> TRUE]
    /\ requests_sem' = [a \in Peers |-> 0]
    /\ requester' = [a \in Peers |-> AtRest("bitfield")]
    /\ handler' = [a \in Peers |-> Idle]
    /\ has_average' = [a \in Peers |-> FALSE]

\* Every task of the live state stops; what a handler still does fails on the
\* dummy files or on the missing chunk tracker.
DropLiveState ==
    /\ inflight_pieces' = [p \in Pieces |-> NoPeer]
    /\ downloaded_bytes' = 0
    /\ fatal' = FALSE
    /\ live' = [a \in Peers |-> FALSE]
    /\ bitfield' = [a \in Peers |-> {}]
    /\ inflight_requests' = [a \in Peers |-> {}]
    /\ i_am_choked' = [a \in Peers |-> TRUE]
    /\ requests_sem' = [a \in Peers |-> 0]
    /\ requester' = [a \in Peers |-> AtRest("bitfield")]
    /\ handler' = [a \in Peers |-> Idle]
    /\ has_average' = [a \in Peers |-> FALSE]

\* Mutant: the pieces in flight are forgotten.
PausedTracker_forgets == chunks

\* TorrentStateLive::pause: only the pieces in flight are marked as needed.
PausedTracker ==
    mark_pieces_broken_if_not_have(
        chunks, {p \in Pieces : inflight_pieces[p] # NoPeer})

pause ==
    /\ mode = "live"
    /\ stops < MaxStops
    /\ stops' = stops + 1
    /\ mode' = "paused"
    /\ chunks' = PausedTracker
    /\ wanted' = chunks'.needed_pieces
    /\ DropLiveState
    /\ UNCHANGED <<diskVars, deaths, steals>>

\* ManagedTorrent::start of a paused torrent: needed_bytes of the paused state
\* becomes initially_needed_bytes.
unpause ==
    /\ mode = "paused"
    /\ mode' = "live"
    /\ UNCHANGED <<chunks, inflight_pieces, wanted, downloaded_bytes, fatal,
                   peerVars, diskVars, boundVars>>

\* The fatal error receiver pauses the live state and drops the result.
stop_with_error ==
    /\ mode = "live"
    /\ fatal
    /\ mode' = "error"
    /\ chunks' = PausedTracker
    /\ DropLiveState
    /\ UNCHANGED <<wanted, diskVars, boundVars>>

\* ManagedTorrent::start after an error: the files are opened for writing and
\* checked again.
restart ==
    /\ mode = "error"
    /\ stops < MaxStops
    /\ stops' = stops + 1
    /\ mode' = "live"
    /\ LET found == {p \in Pieces : HashMatches(p)} IN
          /\ chunks' = NewTracker(Selected \ found, found)
          /\ wanted' = Selected \ found
    /\ read_only' = FALSE /\ lost' = {}
    /\ UNCHANGED <<inflight_pieces, downloaded_bytes, fatal, peerVars, disk,
                   deaths, steals>>

-----------------------------------------------------------------------------
(* Connections *)

\* A peer becomes live: set_peer_live or add_incoming_peer, with the handler's
\* fresh state.
set_peer_live(a) ==
    /\ mode = "live"
    /\ ~live[a]
    /\ handler[a].st = "idle"
    /\ live' = [live EXCEPT ![a] = TRUE]
    /\ bitfield' = [bitfield EXCEPT ![a] = {}]
    /\ inflight_requests' = [inflight_requests EXCEPT ![a] = {}]
    /\ i_am_choked' = [i_am_choked EXCEPT ![a] = TRUE]
    /\ requests_sem' = [requests_sem EXCEPT ![a] = 0]
    /\ requester' = [requester EXCEPT ![a] = AtRest("bitfield")]
    /\ UNCHANGED <<torrentVars, handler, has_average, diskVars, boundVars>>

\* The Live entries of the peers in S are dropped with their bit fields and
\* requests, and their requesters return.
DropLive(S) ==
    /\ live' = [a \in Peers |-> live[a] /\ a \notin S]
    /\ bitfield' = [a \in Peers |-> IF a \in S THEN {} ELSE bitfield[a]]
    /\ inflight_requests' =
          [a \in Peers |-> IF a \in S THEN {} ELSE inflight_requests[a]]
    /\ requester' =
          [a \in Peers |-> IF a \in S THEN AtRest("bitfield") ELSE requester[a]]

\* The task of peer a ends with an error: on_peer_died(Some(e)).  The pieces of
\* the requests that are still open become needed again; inflight_pieces keeps
\* naming the peer.
on_peer_died(a) ==
    /\ mode = "live"
    /\ live[a]
    /\ \/ handler[a].st = "failed" /\ UNCHANGED deaths
       \/ handler[a].st = "idle" /\ deaths < MaxDeaths /\ deaths' = deaths + 1
    /\ chunks' = mark_chunk_requests_cancelled(chunks, inflight_requests[a])
    /\ handler' = [handler EXCEPT ![a] = Idle]
    /\ DropLive({a})
    /\ UNCHANGED <<mode, inflight_pieces, wanted, downloaded_bytes, fatal,
                   i_am_choked, requests_sem, has_average, diskVars, steals,
                   stops>>

\* The same for a task whose entry is NotNeeded already: nothing to cancel.
on_not_needed_peer_died(a) ==
    /\ mode = "live"
    /\ ~live[a]
    /\ handler[a].st = "failed"
    /\ handler' = [handler EXCEPT ![a] = Idle]
    /\ UNCHANGED <<torrentVars, live, bitfield, inflight_requests, i_am_choked,
                   requests_sem, requester, has_average, diskVars, boundVars>>

-----------------------------------------------------------------------------
(* Messages other than Piece *)

\* A bit field or a have message wakes a requester that waits for one.
Notified(r) == IF r.st = "bitfield" THEN AtRest("start") ELSE r

LearnPieces(a, S) ==
    /\ AtAwait(a)
    /\ bitfield' = [bitfield EXCEPT ![a] = S]
    /\ requester' = [requester EXCEPT ![a] = Notified(@)]
    /\ UNCHANGED <<torrentVars, live, inflight_requests, i_am_choked,
                   requests_sem, handler, has_average, diskVars, boundVars>>

on_bitfield(a) == LearnPieces(a, RemotePieces[a])

on_have(a, p) == p \in RemotePieces[a] /\ LearnPieces(a, bitfield[a] \cup {p})

\* The recorded requests but the one that still waits for a permit.
SentRequests(a) ==
    {c \in inflight_requests[a] :
        requester[a].st = "permit" =>
            c # <<requester[a].piece, requester[a].chunk>>}

\* Bound: the permits of connection a, free or spent on open requests, leave
\* room for one more Unchoke.
RoomForUnchoke(a) ==
    requests_sem[a] + Cardinality(SentRequests(a)) + UnchokePermits
        <= MaxPermits

\* A requester that passed wait_for_unchoke is not called back; one that sleeps
\* between two rounds of its loop will find itself choked.
on_i_am_choked(a) ==
    /\ AtAwait(a)
    /\ RoomForUnchoke(a)
    /\ i_am_choked' = [i_am_choked EXCEPT ![a] = TRUE]
    /\ \/ UNCHANGED requester
       \/ /\ requester[a].st = "loop" /\ ~i_am_choked[a]
          /\ requester' = [requester EXCEPT ![a] = AtRest("ready")]
    /\ UNCHANGED <<torrentVars, live, bitfield, inflight_requests, requests_sem,
                   handler, has_average, diskVars, boundVars>>

on_i_am_unchoked(a) ==
    /\ AtAwait(a)
    /\ RoomForUnchoke(a)
    /\ i_am_choked' = [i_am_choked EXCEPT ![a] = FALSE]
    /\ requests_sem' = [requests_sem EXCEPT ![a] = @ + UnchokePermits]
    /\ UNCHANGED <<torrentVars, live, bitfield, inflight_requests, requester,
                   handler, has_average, diskVars, boundVars>>

-----------------------------------------------------------------------------
(* task_peer_chunk_requester *)

\* After the bit field arrived: disconnect if neither side needs the other.
requester_start(a) ==
    /\ AtAwait(a)
    /\ requester[a].st = "start"
    /\ IF is_finished /\ has_full_torrent(a)
         THEN DropLive({a})
         ELSE /\ requester' = [requester EXCEPT ![a] = AtRest("loop")]
              /\ UNCHANGED <<live, bitfield, inflight_requests>>
    /\ UNCHANGED <<torrentVars, i_am_choked, requests_sem, handler, has_average,
                   diskVars, boundVars>>

\* Request chunk from..end of piece p: chunks already requested from this peer
\* are skipped, the first other one is recorded and waits for a permit.
RequestChunks(a, p, from) ==
    LET new == {c \in iter_chunk_infos(p, from) : <<p, c>> \notin inflight_requests[a]}
    IN  IF new = {}
          THEN /\ requester' = [requester EXCEPT ![a] = AtRest("loop")]
               /\ UNCHANGED inflight_requests
          ELSE \E c \in new :
                 /\ \A d \in new : c <= d
                 /\ inflight_requests' =
                       [inflight_requests EXCEPT ![a] = @ \cup {<<p, c>>}]
                 /\ requester' = [requester EXCEPT ![a] =
                                    [st |-> "permit", piece |-> p, chunk |-> c]]

\* wait_for_unchoke returned, though the peer may have choked us since, or returns.
PastUnchoke(a) ==
    /\ AtAwait(a)
    /\ \/ requester[a].st = "ready"
       \/ requester[a].st = "loop" /\ ~i_am_choked[a]

WantsPiece(a) == PastUnchoke(a) /\ ~is_finished

reserve_next_needed_piece(a, p) ==
    /\ WantsPiece(a)
    /\ IsFirstNeeded(chunks, bitfield[a], p)
    /\ inflight_pieces' = [inflight_pieces EXCEPT ![p] = a]
    /\ chunks' = reserve_needed_piece(chunks, p)
    /\ RequestChunks(a, p, 0)
    /\ UNCHANGED <<mode, wanted, downloaded_bytes, fatal, live, bitfield,
                   i_am_choked, requests_sem, handler, has_average, diskVars,
                   boundVars>>

try_steal_old_slow_piece(a, p) ==
    /\ WantsPiece(a)
    /\ has_average[a]
    /\ inflight_pieces[p] \notin {NoPeer, a}
    /\ steals < MaxSteals
    /\ steals' = steals + 1
    /\ inflight_pieces' = [inflight_pieces EXCEPT ![p] = a]
    /\ RequestChunks(a, p, 0)
    /\ UNCHANGED <<mode, chunks, wanted, downloaded_bytes, fatal, live, bitfield,
                   i_am_choked, requests_sem, handler, has_average, diskVars,
                   deaths, stops>>

\* requests_sem.acquire(), then the request is sent.
acquire_permit(a) ==
    /\ AtAwait(a)
    /\ requester[a].st = "permit"
    /\ requests_sem[a] > 0
    /\ requests_sem' = [requests_sem EXCEPT ![a] = @ - 1]
    /\ RequestChunks(a, requester[a].piece, requester[a].chunk + 1)
    /\ UNCHANGED <<torrentVars, live, bitfield, i_am_choked, handler,
                   has_average, diskVars, boundVars>>

\* Neither queue nor peers have a piece for a requester past wait_for_unchoke: it
\* sleeps and starts the next round of its loop.
no_pieces_to_request(a) ==
    /\ WantsPiece(a)
    /\ requester[a].st = "ready"
    /\ chunks.needed_pieces \cap bitfield[a] = {}
    /\ requester' = [requester EXCEPT ![a] = AtRest("loop")]
    /\ UNCHANGED <<torrentVars, live, bitfield, inflight_requests, i_am_choked,
                   requests_sem, handler, has_average, diskVars, boundVars>>

nothing_left_to_download(a) ==
    /\ PastUnchoke(a)
    /\ is_finished
    /\ requester' = [requester EXCEPT ![a] = AtRest("forever")]
    /\ UNCHANGED <<torrentVars, live, bitfield, inflight_requests, i_am_choked,
                   requests_sem, handler, has_average, diskVars, boundVars>>

-----------------------------------------------------------------------------
(* on_received_piece *)

\* Chunk c arrives.  Removing the request and the bookkeeping under the write
\* lock are one step: the request set is private to the task.
on_received_piece(a, c, d) ==
    /\ AtAwait(a)
    /\ c \in inflight_requests[a]
    /\ OnlyAnswers => c \in SentRequests(a) /\ c[1] \in RemotePieces[a]
    /\ requests_sem[a] < MaxPermits
    /\ requests_sem' = [requests_sem EXCEPT ![a] = @ + 1]
    /\ inflight_requests' = [inflight_requests EXCEPT ![a] = @ \ {c}]
    /\ LET p == c[1]
           result == ChunkMarkingResult(chunks, c)
       IN IF inflight_pieces[p] # a \/ result = "PreviouslyCompleted"
            THEN UNCHANGED <<chunks, inflight_pieces, handler>>
            ELSE /\ chunks' = mark_chunk_downloaded(chunks, c)
                 /\ inflight_pieces' =
                       IF result = "Completed"
                         THEN [inflight_pieces EXCEPT ![p] = NoPeer]
                         ELSE inflight_pieces
                 /\ handler' = [handler EXCEPT ![a] =
                       [st |-> "write", piece |-> p, chunk |-> c[2],
                        completed |-> result = "Completed", data |-> d]]
    /\ UNCHANGED <<mode, wanted, downloaded_bytes, fatal, live, bitfield,
                   i_am_choked, requester, has_average, diskVars, boundVars>>

AtStep(a, st) == mode = "live" /\ handler[a].st = st

GoTo(a, st) == handler' = [handler EXCEPT ![a].st = st]

write_chunk(a) ==
    /\ AtStep(a, "write")
    /\ ~read_only
    /\ disk' = [disk EXCEPT ![<<handler[a].piece, handler[a].chunk>>] = handler[a].data]
    /\ handler' = IF handler[a].completed
                    THEN [handler EXCEPT ![a].st = "check"]
                    ELSE [handler EXCEPT ![a] = Idle]
    /\ UNCHANGED <<torrentVars, live, bitfield, inflight_requests, i_am_choked,
                   requests_sem, requester, has_average, read_only, lost, boundVars>>

\* The write fails: on_fatal_error.
on_fatal_error(a) ==
    /\ AtStep(a, "write")
    /\ read_only \/ DiskFaults
    /\ fatal' = TRUE
    /\ GoTo(a, "failed")
    /\ UNCHANGED <<mode, chunks, inflight_pieces, wanted, downloaded_bytes, live,
                   bitfield, inflight_requests, i_am_choked, requests_sem,
                   requester, has_average, diskVars, boundVars>>

check_received_piece(a) ==
    /\ AtStep(a, "check")
    /\ IF check_piece(handler[a].piece)
         THEN GoTo(a, "mark") /\ UNCHANGED chunks
         ELSE /\ chunks' = mark_pieces_broken_if_not_have(chunks, {handler[a].piece})
              /\ handler' = [handler EXCEPT ![a] = Idle]
    /\ UNCHANGED <<mode, inflight_pieces, wanted, downloaded_bytes, fatal, live,
                   bitfield, inflight_requests, i_am_choked, requests_sem,
                   requester, has_average, diskVars, boundVars>>

\* The piece cannot be read back, for a fault of the disk or because a peer it was
\* stolen from has marked a chunk and not written it: the handler returns the error
\* and the peer dies, with nothing done about the piece.
check_received_piece_fails(a) ==
    /\ AtStep(a, "check")
    /\ DiskFaults \/ Unreadable(handler[a].piece)
    /\ lost' = lost \cup {handler[a].piece}
    /\ GoTo(a, "failed")
    /\ UNCHANGED <<torrentVars, live, bitfield, inflight_requests, i_am_choked,
                   requests_sem, requester, has_average, disk, read_only,
                   boundVars>>

mark_downloaded(a) ==
    /\ AtStep(a, "mark")
    /\ chunks' = mark_piece_downloaded(chunks, handler[a].piece)
    /\ GoTo(a, "count")
    /\ UNCHANGED <<mode, inflight_pieces, wanted, downloaded_bytes, fatal, live,
                   bitfield, inflight_requests, i_am_choked, requests_sem,
                   requester, has_average, diskVars, boundVars>>

\* The counters, after the lock on the tracker was released.
count_piece(a) ==
    /\ AtStep(a, "count")
    /\ downloaded_bytes' = downloaded_bytes + PieceLen[handler[a].piece]
    /\ has_average' = [has_average EXCEPT ![a] = TRUE]
    /\ GoTo(a, "finish")
    /\ UNCHANGED <<mode, chunks, inflight_pieces, wanted, fatal, live, bitfield,
                   inflight_requests, i_am_choked, requests_sem, requester,
                   diskVars, boundVars>>

\* Mutant: every piece that completes its file reopens it, whatever is missing.
finish_piece_early(a) ==
    /\ AtStep(a, "finish")
    /\ read_only' = TRUE
    /\ handler' = [handler EXCEPT ![a] = Idle]
    /\ UNCHANGED <<torrentVars, live, bitfield, inflight_requests, requester, i_am_choked,
                   requests_sem, has_average, disk, lost, boundVars>>

\* If that was the last piece: disconnect the seeds, reopen the files.
finish_piece(a) ==
    /\ AtStep(a, "finish")
    /\ IF is_finished
         THEN /\ DropLive({b \in Peers : live[b] /\ has_full_torrent(b)})
              /\ read_only' = TRUE
         ELSE UNCHANGED <<live, bitfield, inflight_requests, requester, read_only>>
    /\ handler' = [handler EXCEPT ![a] = Idle]
    /\ UNCHANGED <<torrentVars, i_am_choked, requests_sem, has_average, disk, lost,
                   boundVars>>

-----------------------------------------------------------------------------

PeerStep(a) ==
    \/ requester_start(a)
    \/ \E p \in Pieces : reserve_next_needed_piece(a, p)
    \/ \E p \in Pieces : try_steal_old_slow_piece(a, p)
    \/ acquire_permit(a)
    \/ no_pieces_to_request(a)
    \/ nothing_left_to_download(a)

HandlerStep(a) ==
    \/ write_chunk(a)
    \/ on_fatal_error(a)
    \/ check_received_piece(a)
    \/ check_received_piece_fails(a)
    \/ mark_downloaded(a)
    \/ count_piece(a)
    \/ finish_piece(a)
    \/ on_not_needed_peer_died(a)

Receive(a) == \E c \in Chunks, d \in Contents : on_received_piece(a, c, d)

Remote(a) ==
    \/ set_peer_live(a)
    \/ on_bitfield(a)
    \/ \E p \in Pieces : on_have(a, p)
    \/ on_i_am_choked(a)
    \/ on_i_am_unchoked(a)
    \/ on_peer_died(a)

Next ==
    \/ pause \/ unpause \/ stop_with_error \/ restart
    \/ \E a \in Peers : PeerStep(a) \/ HandlerStep(a) \/ Receive(a) \/ Remote(a)

Spec == Init /\ [][Next]_vars

\* The runtime polls every task that can run; a peer is connected again after
\* its backoff, tells what it has, unchokes us and answers what we request.
\* Nothing is said of chokes, deaths, steals and pauses: they may happen.
Fairness ==
    \A a \in Peers :
        /\ WF_vars(HandlerStep(a))
        /\ WF_vars(PeerStep(a))
        /\ WF_vars(Receive(a))
        /\ WF_vars(set_peer_live(a))
        /\ WF_vars(on_bitfield(a))
        /\ WF_vars(on_i_am_unchoked(a))

FairSpec == Spec /\ Fairness

-----------------------------------------------------------------------------
(* Properties *)

\* Every variable has the type its declaration in the code gives it.
TypeOK ==
    /\ mode \in {"live", "paused", "error"}
    /\ chunks \in Trackers
    /\ inflight_pieces \in [Pieces -> Peers \cup {NoPeer}]
    /\ wanted \subseteq Pieces
    /\ downloaded_bytes \in Nat
    /\ fatal \in BOOLEAN
    /\ live \in [Peers -> BOOLEAN]
    /\ bitfield \in [Peers -> SUBSET Pieces]
    /\ inflight_requests \in [Peers -> SUBSET Chunks]
    /\ i_am_choked \in [Peers -> BOOLEAN]
    /\ requests_sem \in [Peers -> Nat]
    /\ requester \in [Peers -> Requesters]
    /\ handler \in [Peers -> Handlers]
    /\ has_average \in [Peers -> BOOLEAN]
    /\ disk \in [Chunks -> {"none", "good", "bad"}]
    /\ read_only \in BOOLEAN
    /\ lost \subseteq Pieces
    /\ deaths \in Nat /\ steals \in Nat /\ stops \in Nat

\* However pieces are stolen, cancelled and reserved again, at most one handler
\* verifies a piece, it is one that was needed, and we do not have it yet: so
\* mark_piece_downloaded and the byte counter see every piece once.
VerifiedOnce ==
    \A a \in Peers, p \in Pieces : Verifying(a, p) =>
        /\ p \in wanted \ chunks.have
        /\ \A b \in Peers \ {a} : ~Verifying(b, p)

\* get_left_to_download_bytes() subtracts unsigned numbers: what was counted
\* never exceeds what was needed.
NoUnderflow == downloaded_bytes <= initially_needed_bytes

\* is_finished() reads two counters without the lock; when it says true, the
\* tracker has every piece that was needed.
FinishedMeansHave == mode = "live" /\ is_finished => wanted \subseteq chunks.have

\* What was counted is the length of distinct pieces that were needed and that we
\* have; a handler between marking and counting has one more, of its own.
CountedOnce ==
    /\ \A a \in Peers : handler[a].st = "count" =>
          /\ handler[a].piece \in wanted \cap chunks.have
          /\ \A b \in Peers \ {a} : handler[b].st # "count" \/ handler[b].piece # handler[a].piece
    /\ \E counted \in SUBSET (wanted \cap chunks.have) :
          /\ downloaded_bytes = BytesOf(counted)
          /\ \A a \in Peers : handler[a].st = "count" => handler[a].piece \notin counted
    /\ mode # "live" => downloaded_bytes = 0

\* Both byte counters can be trusted although they are updated outside the lock on
\* the tracker and read without it.
CountersSound == NoUnderflow /\ FinishedMeansHave /\ CountedOnce

\* Nothing but a pause or a failed write comes between a piece and its arrival, and
\* peers send what they were asked for.
Undisturbed == mode = "live" /\ stops = 0 /\ ~fatal /\ OnlyAnswers

\* A chunk of piece p was requested from peer a, or a's requester will get to it.
Covered(a, p, k) ==
    \/ <<p, k>> \in inflight_requests[a]
    \/ requester[a].st = "permit" /\ requester[a].piece = p /\ requester[a].chunk < k

\* A missing piece that is complete is being verified, or could not be read back; one
\* that is neither queued nor complete belongs to a live peer from which all its
\* missing chunks are requested.
OwnerAsks ==
    /\ \A p \in wanted \ chunks.have :
          /\ AllChunksSet(chunks, p) => p \in lost \/ \E a \in Peers : Verifying(a, p)
          /\ ~AllChunksSet(chunks, p) /\ p \notin chunks.needed_pieces =>
                \E a \in Peers : /\ inflight_pieces[p] = a /\ live[a]
                                 /\ \A k \in 0..(NChunks[p] - 1) :
                                       <<p, k>> \in chunks.chunk_status \/ Covered(a, p, k)
    /\ \A a \in Peers : requester[a].st = "permit" =>
          <<requester[a].piece, requester[a].chunk>> \in inflight_requests[a]

\* Every chunk that is marked is in the files, or the handler that marked it is about
\* to write it.  So when a piece cannot be read back from a disk that works, another
\* peer's write of one of its chunks is still under way.
WrittenOrPending ==
    \A p \in wanted \ chunks.have : \A c \in chunk_range(p) \cap chunks.chunk_status :
        \/ disk[c] # "none"
        \/ \E b \in Peers : /\ handler[b].st = "write"
                            /\ <<handler[b].piece, handler[b].chunk>> = c

\* A piece that is still missing is in the queue, or is being verified, or its
\* owner is live and has asked for a chunk of it, so that its death would put
\* the piece back: no piece is forgotten when peers steal and die.  The exception is
\* a piece that could not be read back after its last chunk; on a disk that works it
\* reaches into a file that was not sized and met another peer's unfinished write.
\* (A pause may forget one too, see PauseKeepsNeeds.)
NoPieceForgotten ==
    Undisturbed =>
        /\ OwnerAsks
        /\ WrittenOrPending
        /\ ~DiskFaults => \A p \in lost : chunk_range(p) \cap Unsized # {}
        /\ \A p \in wanted \ (chunks.have \cup lost) :
              \/ p \in chunks.needed_pieces
              \/ \E a \in Peers : Verifying(a, p)
              \/ \E a \in Peers : /\ inflight_pieces[p] = a
                                  /\ live[a]
                                  /\ \E c \in inflight_requests[a] : c[1] = p

\* However peers choke, die and steal from each other (a bounded number of times),
\* every piece that was needed arrives, unless the torrent is paused or stopped
\* meanwhile or the piece could not be read back.
EveryPieceArrives ==
    []<>(wanted \subseteq chunks.have \cup lost \/ mode # "live" \/ stops > 0)

-----------------------------------------------------------------------------
(* Why at most one handler verifies a piece: the inductive invariant *)

\* Nothing is queued, reserved, requested or verified but what was needed.
OnlyWanted ==
    /\ chunks.needed_pieces \subseteq wanted
    /\ \A p \in Pieces : inflight_pieces[p] # NoPeer => p \in wanted
    /\ \A a \in Peers :
          /\ requester[a].st = "permit" => requester[a].piece \in wanted
          /\ \A c \in inflight_requests[a] : c[1] \in wanted
          /\ handler[a].st # "idle" => handler[a].piece \in wanted

\* All chunks of a piece that we have, or that is being verified, are set: the
\* defensive check "PreviouslyCompleted" turns every later chunk away.
CompletedStaysSet ==
    /\ \A p \in chunks.have : AllChunksSet(chunks, p)
    /\ \A a \in Peers, p \in Pieces : Verifying(a, p) =>
          AllChunksSet(chunks, p) /\ p \notin chunks.have

OneVerifier ==
    \A a, b \in Peers, p \in Pieces : Verifying(a, p) /\ Verifying(b, p) => a = b

\* Only the handler of the last chunk goes beyond the write.
CompletedHandlers ==
    \A a \in Peers :
        handler[a].st \in {"check", "mark", "count", "finish"} => handler[a].completed

\* No task survives the live state.
StoppedIsIdle ==
    mode # "live" =>
        /\ \A p \in Pieces : inflight_pieces[p] = NoPeer
        /\ \A a \in Peers : /\ requester[a].st = "bitfield"
                            /\ inflight_requests[a] = {}
                            /\ handler[a].st = "idle"

IndInv ==
    /\ TypeOK
    /\ OnlyWanted
    /\ CompletedStaysSet
    /\ OneVerifier
    /\ CompletedHandlers
    /\ StoppedIsIdle

-----------------------------------------------------------------------------
(* The download as an abstract store of pieces *)

Store == INSTANCE PieceStore WITH
    AllPieces <- Pieces, ToDownload <- Selected,
    state <- mode, pieces <- chunks.have, missing <- wanted

\* However the tasks of the peers interleave, the download implements the
\* store: pieces are gained one at a time, only wanted and new ones, and only
\* while live; pausing and failing change none.
ImplementsStore == Store!StoreSpec

\* chunk_tracker.rs on needed_pieces: "Initially this is the opposite of "have",
\* until we start making requests."  A pause keeps every missing piece needed for
\* the next live state (pieces in flight included), except those whose last chunk has
\* arrived and that are not yet marked: they have left inflight_pieces already, and
\* the next live state neither needs nor has them.  Nor does it those that could not
\* be read back.  (After a failed write the torrent is about to be stopped.)
PauseKeepsNeeds ==
    [][~fatal /\ mode = "live" /\ mode' = "paused" =>
          \A p \in wanted \ lost : \/ p \in chunks'.needed_pieces \cup chunks'.have
                                   \/ \E a \in Peers : Verifying(a, p)]_vars

\* reopen_read_only: "Lock exclusive just in case to ensure in-flight operations
\* finish.??"  They need not have: on a disk that works, a late write may fail on the
\* read-only file and stop the torrent, but only when every piece has arrived.
FatalOnlyWhenDone ==
    /\ read_only => wanted \subseteq chunks.have
    /\ ~DiskFaults /\ fatal => wanted \subseteq chunks.have

-----------------------------------------------------------------------------
(* What the comments and checks of the code say, and the code does not do *)

\* chunk_tracker.rs on have: "These are the pieces that we actually have, fully
\* checked and downloaded."
HaveIsValid == \A p \in chunks.have : HashMatches(p)
=============================================================================
