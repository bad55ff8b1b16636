-------------------------- MODULE TorrentLiveProofs --------------------------
(***************************************************************************)
(* TorrentLive, for every torrent, every set of peers and every bound:     *)
(* every piece is verified once, the byte counters are sums over the       *)
(* pieces, no wanted piece is forgotten while nothing disturbs the         *)
(* download, a pause forgets at most what is being verified, a good disk   *)
(* gives a fatal error only at the end, and the download implements the    *)
(* abstract store of pieces.                                               *)
(***************************************************************************)
EXTENDS TorrentLive, Integers, WellFoundedInduction, TLAPS

-----------------------------------------------------------------------------
(* The chunks of a piece *)

\* A chunk belongs to the bits of its own piece and of no other.
LEMMA ChunkFacts ==
    /\ \A p \in Pieces : chunk_range(p) \subseteq Chunks
    /\ \A c \in Chunks : c[1] \in Pieces /\ c \in chunk_range(c[1])
    /\ \A p \in Pieces : \A c \in chunk_range(p) : c[1] = p
    /\ \A p \in Pieces : \A k \in 0..(NChunks[p] - 1) : <<p, k>> \in Chunks
BY DEF Chunks, chunk_range

\* compute_chunk_status sets the bits of exactly the pieces that are not needed.
LEMMA ComputedStatus ==
    ASSUME NEW S
    PROVE  /\ compute_chunk_status(S) \subseteq Chunks
           /\ \A p \in Pieces \ S : chunk_range(p) \subseteq compute_chunk_status(S)
BY ChunkFacts DEF compute_chunk_status

-----------------------------------------------------------------------------
(* The updates of the tracker *)

\* ChunkTracker::new builds a tracker in which every piece we have is complete.
LEMMA NewTrackerFacts ==
    ASSUME NEW needed \in SUBSET Pieces, NEW have \in SUBSET Pieces,
           needed \cap have = {}
    PROVE  LET t == NewTracker(needed, have) IN
           /\ t \in Trackers
           /\ t.needed_pieces = needed
           /\ t.have = have
           /\ \A p \in have : AllChunksSet(t, p)
BY ComputedStatus DEF NewTracker, Trackers, AllChunksSet

\* Reserving a piece takes it from the queue and leaves the rest alone.
LEMMA ReserveFacts ==
    ASSUME NEW t \in Trackers, NEW p \in Pieces
    PROVE  LET u == reserve_needed_piece(t, p) IN
           /\ u \in Trackers
           /\ u.needed_pieces = t.needed_pieces \ {p}
           /\ u.have = t.have
           /\ u.chunk_status = t.chunk_status
BY DEF reserve_needed_piece, Trackers

\* A chunk only sets its own bit.
LEMMA MarkChunkFacts ==
    ASSUME NEW t \in Trackers, NEW c \in Chunks
    PROVE  LET u == mark_chunk_downloaded(t, c) IN
           /\ u \in Trackers
           /\ u.needed_pieces = t.needed_pieces
           /\ u.have = t.have
           /\ u.chunk_status = t.chunk_status \cup {c}
BY DEF mark_chunk_downloaded, Trackers

\* A verified piece is added to the pieces we have.
LEMMA MarkPieceFacts ==
    ASSUME NEW t \in Trackers, NEW p \in Pieces
    PROVE  LET u == mark_piece_downloaded(t, p) IN
           /\ u \in Trackers
           /\ u.needed_pieces = t.needed_pieces
           /\ u.have = t.have \cup {p}
           /\ u.chunk_status = t.chunk_status
BY DEF mark_piece_downloaded, Trackers

\* Cancelled requests bring back the pieces of these requests that are neither here
\* nor complete, and no other.
LEMMA CancelFacts ==
    ASSUME NEW t \in Trackers, NEW R \in SUBSET Chunks
    PROVE  LET u == mark_chunk_requests_cancelled(t, R) IN
           /\ u \in Trackers
           /\ \A p \in u.needed_pieces :
                 p \in t.needed_pieces \/ \E c \in R : c[1] = p
           /\ t.needed_pieces \subseteq u.needed_pieces
           /\ \A p \in Pieces :
                 (\E c \in R : c[1] = p) /\ p \notin t.have /\ ~AllChunksSet(t, p)
                     => p \in u.needed_pieces
           /\ u.have = t.have
           /\ u.chunk_status = t.chunk_status
BY DEF mark_chunk_requests_cancelled, Trackers

\* Marking pieces as broken never touches a piece that we have, nor the chunks
\* of any other piece.
LEMMA BrokenFacts ==
    ASSUME NEW t \in Trackers, NEW S \in SUBSET Pieces
    PROVE  LET u == mark_pieces_broken_if_not_have(t, S) IN
           /\ u \in Trackers
           /\ u.needed_pieces = t.needed_pieces \cup (S \ t.have)
           /\ u.have = t.have
           /\ \A p \in Pieces : p \notin S \/ p \in t.have =>
                 (AllChunksSet(t, p) => AllChunksSet(u, p))
<1> DEFINE u == mark_pieces_broken_if_not_have(t, S)
<1>1. /\ u.needed_pieces = t.needed_pieces \cup (S \ t.have)
      /\ u.chunk_status = {c \in t.chunk_status : c[1] \notin S \ t.have}
      /\ u.have = t.have
      /\ u.priority_piece_ids = t.priority_piece_ids
      /\ u \in Trackers
  BY DEF mark_pieces_broken_if_not_have, Trackers
<1>2. ASSUME NEW p \in Pieces, p \notin S \/ p \in t.have, AllChunksSet(t, p)
      PROVE  AllChunksSet(u, p)
  <2>1. \A c \in chunk_range(p) : c \in t.chunk_status /\ c[1] = p
    BY <1>2, ChunkFacts DEF AllChunksSet
  <2>2. \A c \in chunk_range(p) : c \in u.chunk_status
    BY <2>1, <1>1, <1>2
  <2> QED BY <2>2 DEF AllChunksSet
<1> QED BY <1>1, <1>2

-----------------------------------------------------------------------------
(* Type correctness *)

\* A task at rest has the type of its variable.
LEMMA RestingTypes ==
    /\ \A st \in RequesterStates : AtRest(st) \in Requesters
    /\ Idle \in Handlers
    /\ 0 \in Pieces
BY LengthsAssumption DEF AtRest, Requesters, Idle, Handlers, HandlerStates, Pieces

\* Parts of several actions: the next request, the end of connections, the end
\* of the live state, the pieces a peer says it has.
LEMMA RequestChunksType ==
    ASSUME TypeOK, NEW a \in Peers, NEW p \in Pieces, NEW from \in Nat,
           RequestChunks(a, p, from)
    PROVE  /\ inflight_requests' \in [Peers -> SUBSET Chunks]
           /\ requester' \in [Peers -> Requesters]
<1> DEFINE new == {c \in iter_chunk_infos(p, from) : <<p, c>> \notin inflight_requests[a]}
<1>1. CASE new = {}
  <2>1. AtRest("loop") \in Requesters
    BY RestingTypes DEF RequesterStates
  <2> QED BY <2>1, <1>1 DEF TypeOK, RequestChunks
<1>2. CASE new # {}
  <2>1. PICK c \in new :
          /\ inflight_requests' = [inflight_requests EXCEPT ![a] = @ \cup {<<p, c>>}]
          /\ requester' = [requester EXCEPT ![a] =
                              [st |-> "permit", piece |-> p, chunk |-> c]]
    BY <1>2 DEF RequestChunks
  <2>2. NChunks[p] \in Nat
    BY LengthsAssumption
  <2>3. c \in Nat /\ <<p, c>> \in Chunks
    BY <2>2, ChunkFacts DEF iter_chunk_infos
  <2> QED BY <2>1, <2>3 DEF TypeOK, Requesters, RequesterStates
<1> QED BY <1>1, <1>2

\* Dropping connections keeps the types of what it changes.
LEMMA DropLiveType ==
    ASSUME TypeOK, NEW S, DropLive(S)
    PROVE  /\ live' \in [Peers -> BOOLEAN]
           /\ bitfield' \in [Peers -> SUBSET Pieces]
           /\ inflight_requests' \in [Peers -> SUBSET Chunks]
           /\ requester' \in [Peers -> Requesters]
<1>1. AtRest("bitfield") \in Requesters
  BY RestingTypes DEF RequesterStates
<1>2. live' \in [Peers -> BOOLEAN]
  BY Zenon DEF DropLive, TypeOK
<1> QED BY <1>1, <1>2 DEF DropLive, TypeOK

\* The live state that is dropped leaves well typed, idle tasks.
LEMMA DropLiveStateType ==
    ASSUME DropLiveState
    PROVE  /\ inflight_pieces' \in [Pieces -> Peers \cup {NoPeer}]
           /\ downloaded_bytes' \in Nat
           /\ fatal' \in BOOLEAN
           /\ live' \in [Peers -> BOOLEAN]
           /\ bitfield' \in [Peers -> SUBSET Pieces]
           /\ inflight_requests' \in [Peers -> SUBSET Chunks]
           /\ i_am_choked' \in [Peers -> BOOLEAN]
           /\ requests_sem' \in [Peers -> Nat]
           /\ requester' \in [Peers -> Requesters]
           /\ handler' \in [Peers -> Handlers]
           /\ has_average' \in [Peers -> BOOLEAN]
<1>1. AtRest("bitfield") \in Requesters /\ Idle \in Handlers
  BY RestingTypes DEF RequesterStates
<1> QED BY <1>1 DEF DropLiveState

\* The tracker after a pause or a fatal error.
LEMMA PausedTrackerFacts ==
    ASSUME TypeOK
    PROVE  /\ PausedTracker \in Trackers
           /\ PausedTracker.have = chunks.have
           /\ PausedTracker.needed_pieces =
                 chunks.needed_pieces
                     \cup ({p \in Pieces : inflight_pieces[p] # NoPeer} \ chunks.have)
           /\ \A p \in chunks.have :
                 AllChunksSet(chunks, p) => AllChunksSet(PausedTracker, p)
<1>1. chunks \in Trackers /\ chunks.have \subseteq Pieces
  BY DEF TypeOK, Trackers
<1> QED BY <1>1, BrokenFacts DEF PausedTracker

\* A task that goes to another step stays well typed.
LEMMA GoToType ==
    ASSUME TypeOK, NEW a \in Peers, NEW st \in HandlerStates, GoTo(a, st)
    PROVE  handler' \in [Peers -> Handlers]
<1>1. handler[a] \in Handlers
  BY DEF TypeOK
<1>2. [handler[a] EXCEPT !.st = st] \in Handlers
  BY <1>1 DEF Handlers
<1>3. handler' = [handler EXCEPT ![a] = [handler[a] EXCEPT !.st = st]]
  BY DEF GoTo
<1> QED BY <1>2, <1>3 DEF TypeOK

\* A new live state is well typed, whichever pieces were found on disk.
LEMMA TypeInit ==
    ASSUME Init
    PROVE  TypeOK
<1>1. PICK old \in SUBSET Pieces :
        /\ disk = [c \in Chunks |-> IF c[1] \in old THEN "good" ELSE "none"]
        /\ chunks = NewTracker(Selected \ old, old)
        /\ wanted = Selected \ old
  BY DEF Init
<1>2. chunks \in Trackers
  <2>1. Selected \ old \in SUBSET Pieces /\ (Selected \ old) \cap old = {}
    BY LiveAssumption
  <2> QED BY <1>1, <2>1, NewTrackerFacts
<1>3. /\ disk \in [Chunks -> {"none", "good", "bad"}]
      /\ wanted \subseteq Pieces
  BY <1>1, LiveAssumption
<1>4. /\ AtRest("bitfield") \in Requesters /\ Idle \in Handlers
  BY RestingTypes DEF RequesterStates
<1> QED BY <1>2, <1>3, <1>4 DEF Init, NoPeersInit, TypeOK

\* Every action keeps every type: one step per action.
LEMMA TypeNext ==
    ASSUME TypeOK, [Next]_vars
    PROVE  TypeOK'
<1> USE DEF torrentVars, peerVars, diskVars, boundVars
<1>t. chunks \in Trackers /\ chunks.have \subseteq Pieces
      /\ chunks.needed_pieces \subseteq Pieces
  BY DEF TypeOK, Trackers
<1>r. /\ \A st \in {"bitfield", "start", "loop", "ready", "permit", "forever"} :
            AtRest(st) \in Requesters
      /\ Idle \in Handlers
  BY RestingTypes DEF RequesterStates
<1>h. \A a \in Peers : handler[a] \in Handlers /\ handler[a].piece \in Pieces
  BY DEF TypeOK, Handlers
<1>q. \A a \in Peers : /\ requester[a] \in Requesters
                       /\ requester[a].piece \in Pieces
                       /\ requester[a].chunk + 1 \in Nat
  BY DEF TypeOK, Requesters
<1>1. CASE pause
  <2>1. chunks' \in Trackers /\ wanted' \subseteq Pieces
    BY <1>1, PausedTrackerFacts DEF pause, Trackers
  <2> QED BY <1>1, <2>1, DropLiveStateType DEF pause, TypeOK
<1>2. CASE unpause
  BY <1>2 DEF unpause, TypeOK
<1>3. CASE stop_with_error
  <2>1. chunks' \in Trackers
    BY <1>3, PausedTrackerFacts DEF stop_with_error
  <2> QED BY <1>3, <2>1, DropLiveStateType DEF stop_with_error, TypeOK
<1>4. CASE restart
  <2> DEFINE found == {p \in Pieces : HashMatches(p)}
  <2>1. Selected \ found \in SUBSET Pieces /\ (Selected \ found) \cap found = {}
    BY LiveAssumption
  <2>2. chunks' \in Trackers /\ wanted' \subseteq Pieces
    BY <1>4, <2>1, NewTrackerFacts DEF restart
  <2>3. /\ mode' = "live" /\ read_only' = FALSE /\ lost' = {} /\ stops' = stops + 1
        /\ UNCHANGED <<inflight_pieces, downloaded_bytes, fatal, peerVars, disk,
                       deaths, steals>>
    BY <1>4 DEF restart
  <2> HIDE DEF found
  <2>4. stops' \in Nat
    BY <2>3 DEF TypeOK
  <2>5. mode' \in {"live", "paused", "error"} /\ read_only' \in BOOLEAN
    BY <2>3
  <2> QED BY <2>2, <2>3, <2>4, <2>5 DEF TypeOK
<1>5. ASSUME NEW a \in Peers, set_peer_live(a)
      PROVE  TypeOK'
  BY <1>5, <1>r DEF set_peer_live, TypeOK
<1>6. ASSUME NEW a \in Peers, on_peer_died(a)
      PROVE  TypeOK'
  <2>1. chunks' \in Trackers
    BY <1>6, <1>t, CancelFacts DEF on_peer_died, TypeOK
  <2>2. handler' \in [Peers -> Handlers] /\ deaths' \in Nat
    BY <1>6, <1>r DEF on_peer_died, TypeOK
  <2>3. DropLive({a})
    BY <1>6 DEF on_peer_died
  <2> QED BY <1>6, <2>1, <2>2, <2>3, DropLiveType DEF on_peer_died, TypeOK
<1>7. ASSUME NEW a \in Peers, on_not_needed_peer_died(a)
      PROVE  TypeOK'
  BY <1>7, <1>r DEF on_not_needed_peer_died, TypeOK
<1>8. ASSUME NEW a \in Peers, NEW S \in SUBSET Pieces, LearnPieces(a, S)
      PROVE  TypeOK'
  <2>1. Notified(requester[a]) \in Requesters
    BY <1>r, <1>q DEF Notified
  <2> QED BY <1>8, <2>1 DEF LearnPieces, TypeOK
<1>9. ASSUME NEW a \in Peers, on_i_am_choked(a)
      PROVE  TypeOK'
  BY <1>9, <1>r DEF on_i_am_choked, TypeOK
<1>10. ASSUME NEW a \in Peers, on_i_am_unchoked(a)
       PROVE  TypeOK'
  <2>1. requests_sem[a] + UnchokePermits \in Nat
    BY LiveAssumption DEF TypeOK
  <2> QED BY <1>10, <2>1 DEF on_i_am_unchoked, TypeOK
<1>11. ASSUME NEW a \in Peers, requester_start(a)
       PROVE  TypeOK'
  <2>1. CASE DropLive({a})
    BY <1>11, <2>1, DropLiveType DEF requester_start, TypeOK
  <2>2. CASE requester' = [requester EXCEPT ![a] = AtRest("loop")]
             /\ UNCHANGED <<live, bitfield, inflight_requests>>
    BY <1>11, <2>2, <1>r DEF requester_start, TypeOK
  <2> QED BY <1>11, <2>1, <2>2 DEF requester_start
<1>12. ASSUME NEW a \in Peers, NEW p \in Pieces, reserve_next_needed_piece(a, p)
       PROVE  TypeOK'
  <2>1. chunks' \in Trackers
    BY <1>12, <1>t, ReserveFacts DEF reserve_next_needed_piece
  <2>2. RequestChunks(a, p, 0)
    BY <1>12 DEF reserve_next_needed_piece
  <2> QED BY <1>12, <2>1, <2>2, RequestChunksType
          DEF reserve_next_needed_piece, TypeOK
<1>13. ASSUME NEW a \in Peers, NEW p \in Pieces, try_steal_old_slow_piece(a, p)
       PROVE  TypeOK'
  <2>1. RequestChunks(a, p, 0)
    BY <1>13 DEF try_steal_old_slow_piece
  <2> QED BY <1>13, <2>1, RequestChunksType DEF try_steal_old_slow_piece, TypeOK
<1>14. ASSUME NEW a \in Peers, acquire_permit(a)
       PROVE  TypeOK'
  <2>1. requests_sem[a] - 1 \in Nat
    BY <1>14 DEF acquire_permit, TypeOK
  <2>2. /\ inflight_requests' \in [Peers -> SUBSET Chunks]
        /\ requester' \in [Peers -> Requesters]
    BY <1>14, <1>q, RequestChunksType DEF acquire_permit
  <2> QED BY <1>14, <2>1, <2>2 DEF acquire_permit, TypeOK
<1>15. ASSUME NEW a \in Peers, no_pieces_to_request(a) \/ nothing_left_to_download(a)
       PROVE  TypeOK'
  BY <1>15, <1>r DEF no_pieces_to_request, nothing_left_to_download, TypeOK
<1>16. ASSUME NEW a \in Peers, NEW c \in Chunks, NEW d \in Contents,
              on_received_piece(a, c, d)
       PROVE  TypeOK'
  <2>1. /\ requests_sem' \in [Peers -> Nat]
        /\ inflight_requests' \in [Peers -> SUBSET Chunks]
    BY <1>16 DEF on_received_piece, TypeOK
  <2>2. CASE UNCHANGED <<chunks, inflight_pieces, handler>>
    BY <1>16, <2>1, <2>2 DEF on_received_piece, TypeOK
  <2>3. CASE ~UNCHANGED <<chunks, inflight_pieces, handler>>
    <3> DEFINE result == ChunkMarkingResult(chunks, c)
               h == [st |-> "write", piece |-> c[1], chunk |-> c[2],
                     completed |-> result = "Completed", data |-> d]
    <3>1. /\ chunks' = mark_chunk_downloaded(chunks, c)
          /\ handler' = [handler EXCEPT ![a] = h]
          /\ inflight_pieces' \in [Pieces -> Peers \cup {NoPeer}]
      BY <1>16, <2>3 DEF on_received_piece, TypeOK
    <3>2. chunks' \in Trackers
      BY <3>1, <1>t, MarkChunkFacts
    <3>3. c[1] \in Pieces /\ c[2] \in Nat
      BY DEF Chunks, chunk_range
    <3>4. (result = "Completed") \in BOOLEAN /\ d \in {"good", "bad"}
      BY LiveAssumption
    <3>5. h \in Handlers
      BY <3>3, <3>4 DEF Handlers, HandlerStates
    <3> HIDE DEF h
    <3> QED BY <1>16, <2>1, <3>1, <3>2, <3>5 DEF on_received_piece, TypeOK
  <2> QED BY <2>2, <2>3
<1>17. ASSUME NEW a \in Peers, write_chunk(a)
       PROVE  TypeOK'
  <2>1. handler[a].data \in {"none", "good", "bad"}
    BY <1>h DEF Handlers
  <2>2. disk' \in [Chunks -> {"none", "good", "bad"}]
    BY <1>17, <2>1 DEF write_chunk, TypeOK
  <2>3. [handler[a] EXCEPT !.st = "check"] \in Handlers
    BY <1>h DEF Handlers, HandlerStates
  <2>4. handler' \in [Peers -> Handlers]
    BY <1>17, <2>3, <1>r DEF write_chunk, TypeOK
  <2> QED BY <1>17, <2>2, <2>4 DEF write_chunk, TypeOK
<1>18. ASSUME NEW a \in Peers, on_fatal_error(a)
       PROVE  TypeOK'
  BY <1>18, GoToType DEF on_fatal_error, TypeOK, HandlerStates
<1>19. ASSUME NEW a \in Peers, check_received_piece(a)
       PROVE  TypeOK'
  <2>1. chunks' \in Trackers
    BY <1>19, <1>t, <1>h, BrokenFacts DEF check_received_piece
  <2>2. handler' \in [Peers -> Handlers]
    BY <1>19, <1>r, GoToType DEF check_received_piece, TypeOK, HandlerStates
  <2> QED BY <1>19, <2>1, <2>2 DEF check_received_piece, TypeOK
<1>20. ASSUME NEW a \in Peers, check_received_piece_fails(a)
       PROVE  TypeOK'
  BY <1>20, <1>h, GoToType DEF check_received_piece_fails, TypeOK, HandlerStates
<1>21. ASSUME NEW a \in Peers, mark_downloaded(a)
       PROVE  TypeOK'
  <2>1. chunks' \in Trackers
    BY <1>21, <1>t, <1>h, MarkPieceFacts DEF mark_downloaded
  <2> QED BY <1>21, <2>1, GoToType DEF mark_downloaded, TypeOK, HandlerStates
<1>22. ASSUME NEW a \in Peers, count_piece(a)
       PROVE  TypeOK'
  <2>1. downloaded_bytes' \in Nat
    BY <1>22, <1>h, LengthsAssumption DEF count_piece, TypeOK
  <2> QED BY <1>22, <2>1, GoToType DEF count_piece, TypeOK, HandlerStates
<1>23. ASSUME NEW a \in Peers, finish_piece(a)
       PROVE  TypeOK'
  <2>1. /\ live' \in [Peers -> BOOLEAN]
        /\ bitfield' \in [Peers -> SUBSET Pieces]
        /\ inflight_requests' \in [Peers -> SUBSET Chunks]
        /\ requester' \in [Peers -> Requesters]
        /\ read_only' \in BOOLEAN
    BY <1>23, DropLiveType DEF finish_piece, TypeOK
  <2> QED BY <1>23, <2>1, <1>r DEF finish_piece, TypeOK
<1>24. CASE UNCHANGED vars
  BY <1>24 DEF vars, TypeOK
<1>25. ASSUME NEW a \in Peers, on_bitfield(a) \/ \E p \in Pieces : on_have(a, p)
       PROVE  TypeOK'
  BY <1>25, <1>8, LiveAssumption DEF on_bitfield, on_have, TypeOK
<1> QED
  BY <1>1, <1>2, <1>3, <1>4, <1>5, <1>6, <1>7, <1>9, <1>10, <1>11, <1>12, <1>13,
     <1>14, <1>15, <1>16, <1>17, <1>18, <1>19, <1>20, <1>21, <1>22, <1>23, <1>24,
     <1>25
     DEF Next, PeerStep, HandlerStep, Receive, Remote

\* In every run of the client the download's state has its declared types.
THEOREM TypeCorrect == Spec => []TypeOK
<1>1. Init => TypeOK
  BY TypeInit
<1>2. TypeOK /\ [Next]_vars => TypeOK'
  BY TypeNext
<1> QED BY <1>1, <1>2, PTL DEF Spec

-----------------------------------------------------------------------------
(* Every piece is verified once *)

\* What OnlyWanted says of the two parts of a peer's task.
RequestsWanted(b) ==
    /\ requester[b].st = "permit" => requester[b].piece \in wanted
    /\ \A c \in inflight_requests[b] : c[1] \in wanted

HandlerWanted(b) == handler[b].st # "idle" => handler[b].piece \in wanted

\* Requesting the chunks of a wanted piece records wanted chunks only.
LEMMA RequestChunksWanted ==
    ASSUME TypeOK, OnlyWanted, NEW a \in Peers, NEW p \in Pieces, p \in wanted,
           NEW from \in Nat, RequestChunks(a, p, from), wanted' = wanted
    PROVE  \A b \in Peers : RequestsWanted(b)'
<1> DEFINE new == {c \in iter_chunk_infos(p, from) : <<p, c>> \notin inflight_requests[a]}
<1>0. \A b \in Peers : RequestsWanted(b)
  BY DEF OnlyWanted, RequestsWanted
<1>1. CASE new = {}
  <2>1. /\ requester' = [requester EXCEPT ![a] = AtRest("loop")]
        /\ UNCHANGED inflight_requests
    BY <1>1 DEF RequestChunks
  <2> QED BY <1>0, <2>1 DEF RequestsWanted, TypeOK, AtRest
<1>2. CASE new # {}
  <2>1. PICK c \in new :
          /\ inflight_requests' = [inflight_requests EXCEPT ![a] = @ \cup {<<p, c>>}]
          /\ requester' = [requester EXCEPT ![a] =
                              [st |-> "permit", piece |-> p, chunk |-> c]]
    BY <1>2 DEF RequestChunks
  <2> QED BY <1>0, <2>1 DEF RequestsWanted, TypeOK
<1> QED BY <1>1, <1>2

\* Dropping connections drops their requests.
LEMMA DropLiveWanted ==
    ASSUME TypeOK, OnlyWanted, NEW S, DropLive(S), wanted' = wanted
    PROVE  \A b \in Peers : RequestsWanted(b)'
<1>0. \A b \in Peers : RequestsWanted(b)
  BY DEF OnlyWanted, RequestsWanted
<1> QED BY <1>0 DEF RequestsWanted, DropLive, AtRest

\* A step that completes no chunk and starts no verification keeps the two
\* facts about verification.
LEMMA VerifyingFrame ==
    ASSUME CompletedStaysSet, OneVerifier,
           chunks'.have = chunks.have,
           chunks'.chunk_status = chunks.chunk_status,
           \A a \in Peers, p \in Pieces : Verifying(a, p)' => Verifying(a, p)
    PROVE  CompletedStaysSet' /\ OneVerifier'
BY DEF CompletedStaysSet, OneVerifier, AllChunksSet

\* A new live state has no task, so the inductive invariant holds.
LEMMA IndInit ==
    ASSUME Init
    PROVE  IndInv
<1>1. TypeOK
  BY TypeInit
<1>2. PICK old \in SUBSET Pieces :
        /\ chunks = NewTracker(Selected \ old, old)
        /\ wanted = Selected \ old
  BY DEF Init
<1>3. Selected \ old \in SUBSET Pieces /\ (Selected \ old) \cap old = {}
  BY LiveAssumption
<1>4. /\ chunks.needed_pieces = wanted
      /\ \A p \in chunks.have : AllChunksSet(chunks, p)
  BY <1>2, <1>3, NewTrackerFacts
<1>5. /\ \A a \in Peers : /\ handler[a].st = "idle"
                          /\ requester[a].st = "bitfield"
                          /\ inflight_requests[a] = {}
      /\ \A p \in Pieces : inflight_pieces[p] = NoPeer
  BY DEF Init, NoPeersInit, Idle, AtRest
<1>6. mode = "live"
  BY DEF Init
<1> QED BY <1>1, <1>4, <1>5, <1>6
        DEF IndInv, OnlyWanted, CompletedStaysSet, OneVerifier, CompletedHandlers,
            StoppedIsIdle, Verifying

\* The parts of IndInv from the parts a step has to show in the live state.
LEMMA LiveStep ==
    ASSUME TypeOK',
           mode' = "live",
           wanted' = wanted,
           chunks'.needed_pieces \subseteq wanted,
           \A p \in Pieces : inflight_pieces'[p] # NoPeer => p \in wanted,
           \A b \in Peers : RequestsWanted(b)' /\ HandlerWanted(b)',
           CompletedStaysSet', OneVerifier', CompletedHandlers'
    PROVE  IndInv'
BY DEF IndInv, OnlyWanted, StoppedIsIdle, RequestsWanted, HandlerWanted

\* Every action keeps the inductive invariant: one step per action.
LEMMA IndNext ==
    ASSUME IndInv, [Next]_vars
    PROVE  IndInv'
<1> USE DEF torrentVars, peerVars, diskVars, boundVars
<1>i. /\ TypeOK /\ OnlyWanted /\ CompletedStaysSet /\ OneVerifier
      /\ CompletedHandlers /\ StoppedIsIdle
  BY DEF IndInv
<1>t. TypeOK'
  BY <1>i, TypeNext
<1>k. /\ chunks \in Trackers /\ chunks.have \subseteq Pieces
      /\ chunks.needed_pieces \subseteq Pieces
      /\ chunks.chunk_status \subseteq Chunks
      /\ chunks.needed_pieces \subseteq wanted
      /\ wanted \subseteq Pieces
      /\ \A p \in Pieces : inflight_pieces[p] # NoPeer => p \in wanted
  BY <1>i DEF TypeOK, Trackers, OnlyWanted
<1>w. \A b \in Peers : RequestsWanted(b) /\ HandlerWanted(b)
  BY <1>i DEF OnlyWanted, RequestsWanted, HandlerWanted
<1>h. \A b \in Peers : handler[b] \in Handlers /\ handler[b].piece \in Pieces
  BY <1>i DEF TypeOK, Handlers
<1>1. CASE pause
  <2>1. /\ chunks'.have = chunks.have
        /\ \A p \in chunks.have : AllChunksSet(chunks', p)
        /\ wanted' = chunks'.needed_pieces
        /\ mode' = "paused"
    BY <1>1, <1>i, PausedTrackerFacts DEF pause, CompletedStaysSet
  <2>2. /\ \A p \in Pieces : inflight_pieces'[p] = NoPeer
        /\ \A b \in Peers : /\ handler'[b].st = "idle"
                            /\ requester'[b].st = "bitfield"
                            /\ inflight_requests'[b] = {}
    BY <1>1 DEF pause, DropLiveState, Idle, AtRest
  <2> QED BY <1>t, <2>1, <2>2
          DEF IndInv, OnlyWanted, CompletedStaysSet, OneVerifier,
              CompletedHandlers, StoppedIsIdle, Verifying, AllChunksSet
<1>2. CASE unpause
  <2>1. UNCHANGED <<chunks, inflight_pieces, wanted, requester, handler,
                    inflight_requests>>
    BY <1>2 DEF unpause
  <2>2. mode' = "live"
    BY <1>2 DEF unpause
  <2> QED BY <1>i, <1>t, <2>1, <2>2
          DEF IndInv, OnlyWanted, CompletedStaysSet, OneVerifier,
              CompletedHandlers, StoppedIsIdle, Verifying, AllChunksSet
<1>3. CASE stop_with_error
  <2>1. /\ chunks'.have = chunks.have
        /\ \A p \in chunks.have : AllChunksSet(chunks', p)
        /\ chunks'.needed_pieces \subseteq wanted
        /\ wanted' = wanted
        /\ mode' = "error"
    BY <1>3, <1>i, <1>k, PausedTrackerFacts DEF stop_with_error, CompletedStaysSet
  <2>2. /\ \A p \in Pieces : inflight_pieces'[p] = NoPeer
        /\ \A b \in Peers : /\ handler'[b].st = "idle"
                            /\ requester'[b].st = "bitfield"
                            /\ inflight_requests'[b] = {}
    BY <1>3 DEF stop_with_error, DropLiveState, Idle, AtRest
  <2> QED BY <1>t, <2>1, <2>2
          DEF IndInv, OnlyWanted, CompletedStaysSet, OneVerifier,
              CompletedHandlers, StoppedIsIdle, Verifying, AllChunksSet
<1>4. CASE restart
  <2> DEFINE found == {p \in Pieces : HashMatches(p)}
  <2>1. Selected \ found \in SUBSET Pieces /\ (Selected \ found) \cap found = {}
    BY LiveAssumption
  <2>2. /\ chunks' = NewTracker(Selected \ found, found)
        /\ wanted' = Selected \ found
        /\ mode' = "live"
        /\ UNCHANGED <<inflight_pieces, requester, handler, inflight_requests>>
    BY <1>4 DEF restart
  <2>3. /\ chunks'.needed_pieces = wanted'
        /\ \A p \in chunks'.have : AllChunksSet(chunks', p)
    BY <2>1, <2>2, NewTrackerFacts
  <2>4. /\ \A p \in Pieces : inflight_pieces[p] = NoPeer
        /\ \A b \in Peers : /\ handler[b].st = "idle"
                            /\ requester[b].st = "bitfield"
                            /\ inflight_requests[b] = {}
    BY <1>4, <1>i DEF restart, StoppedIsIdle
  <2> HIDE DEF found
  <2> QED BY <1>t, <2>2, <2>3, <2>4
          DEF IndInv, OnlyWanted, CompletedStaysSet, OneVerifier,
              CompletedHandlers, StoppedIsIdle, Verifying, AllChunksSet
\* The steps that leave the tracker, the reservations and the handlers alone.
<1>f. ASSUME UNCHANGED <<chunks, handler, wanted, mode, inflight_pieces>>,
             mode = "live",
             \A b \in Peers : RequestsWanted(b)'
      PROVE  IndInv'
  <2>1. \A b \in Peers : HandlerWanted(b)'
    BY <1>f, <1>w DEF HandlerWanted
  <2>2. CompletedStaysSet' /\ OneVerifier' /\ CompletedHandlers'
    BY <1>f, <1>i DEF CompletedStaysSet, OneVerifier, CompletedHandlers, Verifying,
       AllChunksSet
  <2> QED BY <1>f, <1>t, <1>k, <2>1, <2>2, LiveStep
<1>5. ASSUME NEW a \in Peers, set_peer_live(a)
      PROVE  IndInv'
  <2>1. \A b \in Peers : RequestsWanted(b)'
    BY <1>5, <1>w, <1>i DEF set_peer_live, RequestsWanted, TypeOK, AtRest
  <2> QED BY <1>5, <1>f, <2>1 DEF set_peer_live
<1>6. ASSUME NEW a \in Peers, NEW S, LearnPieces(a, S)
      PROVE  IndInv'
  <2>1. \A b \in Peers : RequestsWanted(b)'
    BY <1>6, <1>w, <1>i DEF LearnPieces, RequestsWanted, TypeOK, AtRest, Notified
  <2> QED BY <1>6, <1>f, <2>1 DEF LearnPieces, AtAwait
<1>7. ASSUME NEW a \in Peers, on_i_am_choked(a) \/ on_i_am_unchoked(a)
      PROVE  IndInv'
  <2>1. \A b \in Peers : RequestsWanted(b)'
    BY <1>7, <1>w, <1>i DEF on_i_am_choked, on_i_am_unchoked, RequestsWanted, TypeOK, AtRest
  <2> QED BY <1>7, <1>f, <2>1 DEF on_i_am_choked, on_i_am_unchoked, AtAwait
<1>8. ASSUME NEW a \in Peers, requester_start(a)
      PROVE  IndInv'
  <2>1. CASE DropLive({a})
    BY <1>8, <1>f, <1>i, <2>1, DropLiveWanted DEF requester_start, AtAwait
  <2>2. CASE requester' = [requester EXCEPT ![a] = AtRest("loop")]
             /\ UNCHANGED <<live, bitfield, inflight_requests>>
    <3>1. \A b \in Peers : RequestsWanted(b)'
      BY <1>8, <2>2, <1>w, <1>i DEF requester_start, RequestsWanted, TypeOK, AtRest
    <3> QED BY <1>8, <1>f, <3>1 DEF requester_start, AtAwait
  <2> QED BY <1>8, <2>1, <2>2 DEF requester_start
<1>9. ASSUME NEW a \in Peers, acquire_permit(a)
      PROVE  IndInv'
  <2>1. /\ requester[a].piece \in Pieces /\ requester[a].chunk + 1 \in Nat
        /\ requester[a].piece \in wanted
    BY <1>9, <1>i, <1>w DEF acquire_permit, TypeOK, Requesters, RequestsWanted
  <2>2. RequestChunks(a, requester[a].piece, requester[a].chunk + 1) /\ wanted' = wanted
    BY <1>9 DEF acquire_permit
  <2>3. \A b \in Peers : RequestsWanted(b)'
    BY <1>i, <2>1, <2>2, RequestChunksWanted
  <2> QED BY <1>9, <1>f, <2>3 DEF acquire_permit, AtAwait
<1>10. ASSUME NEW a \in Peers, no_pieces_to_request(a) \/ nothing_left_to_download(a)
       PROVE  IndInv'
  <2>1. \A b \in Peers : RequestsWanted(b)'
    BY <1>10, <1>w, <1>i
       DEF no_pieces_to_request, nothing_left_to_download, RequestsWanted, TypeOK, AtRest
  <2> QED
    BY <1>10, <1>f, <2>1
       DEF no_pieces_to_request, nothing_left_to_download, WantsPiece, PastUnchoke, AtAwait
\* The steps that reserve a piece.
<1>11. ASSUME NEW a \in Peers, NEW p \in Pieces, reserve_next_needed_piece(a, p)
       PROVE  IndInv'
  <2>1. p \in wanted /\ mode' = "live" /\ wanted' = wanted
    BY <1>11, <1>k DEF reserve_next_needed_piece, IsFirstNeeded, WantsPiece, PastUnchoke, AtAwait
  <2>2. /\ chunks'.needed_pieces \subseteq wanted
        /\ chunks'.have = chunks.have
        /\ chunks'.chunk_status = chunks.chunk_status
    BY <1>11, <1>k, ReserveFacts DEF reserve_next_needed_piece
  <2>3. \A b \in Peers : RequestsWanted(b)'
    BY <1>11, <1>i, <2>1, RequestChunksWanted DEF reserve_next_needed_piece
  <2>4. \A q \in Pieces : inflight_pieces'[q] # NoPeer => q \in wanted
    BY <1>11, <1>k, <1>i, <2>1 DEF reserve_next_needed_piece, TypeOK
  <2>5. UNCHANGED handler
    BY <1>11 DEF reserve_next_needed_piece
  <2>6. \A b \in Peers : HandlerWanted(b)'
    BY <1>w, <2>5, <2>1 DEF HandlerWanted
  <2>7. CompletedStaysSet' /\ OneVerifier'
    BY <1>i, <2>2, <2>5, VerifyingFrame DEF Verifying
  <2>8. CompletedHandlers'
    BY <1>i, <2>5 DEF CompletedHandlers
  <2> QED BY <1>t, <2>1, <2>2, <2>3, <2>4, <2>6, <2>7, <2>8, LiveStep
<1>12. ASSUME NEW a \in Peers, NEW p \in Pieces, try_steal_old_slow_piece(a, p)
       PROVE  IndInv'
  <2>1. p \in wanted /\ mode' = "live" /\ UNCHANGED <<wanted, chunks, handler>>
    BY <1>12, <1>k DEF try_steal_old_slow_piece, WantsPiece, PastUnchoke, AtAwait
  <2>2. \A b \in Peers : RequestsWanted(b)'
    BY <1>12, <1>i, <2>1, RequestChunksWanted DEF try_steal_old_slow_piece
  <2>3. \A q \in Pieces : inflight_pieces'[q] # NoPeer => q \in wanted
    BY <1>12, <1>k, <1>i, <2>1 DEF try_steal_old_slow_piece, TypeOK
  <2>4. \A b \in Peers : HandlerWanted(b)'
    BY <1>w, <2>1 DEF HandlerWanted
  <2>5. CompletedStaysSet' /\ OneVerifier'
    BY <1>i, <2>1, VerifyingFrame DEF Verifying
  <2>6. CompletedHandlers'
    BY <1>i, <2>1 DEF CompletedHandlers
  <2>7. chunks'.needed_pieces \subseteq wanted
    BY <1>k, <2>1
  <2> QED BY <1>t, <2>1, <2>2, <2>3, <2>4, <2>5, <2>6, <2>7, LiveStep
\* The steps of a handler that complete nothing.
<1>g. ASSUME NEW a \in Peers,
             UNCHANGED <<mode, wanted, inflight_pieces>>, mode = "live",
             chunks'.needed_pieces \subseteq wanted,
             chunks'.have = chunks.have,
             chunks'.chunk_status = chunks.chunk_status,
             \A b \in Peers : RequestsWanted(b)',
             \/ handler' = [handler EXCEPT ![a] = Idle]
             \/ \E st \in {"check", "mark", "finish", "failed"} :
                   /\ handler[a].st # "idle"
                   /\ st = "check" => handler[a].completed /\ handler[a].st = "write"
                   /\ st = "mark" => handler[a].st = "check"
                   /\ st = "finish" => handler[a].st = "count"
                   /\ GoTo(a, st)
      PROVE  IndInv'
  <2>1. \A b \in Peers : b # a => handler'[b] = handler[b]
    BY <1>g, <1>i DEF TypeOK, GoTo
  <2>2. CASE handler' = [handler EXCEPT ![a] = Idle]
    <3>1. handler'[a].st = "idle"
      BY <2>2, <1>i DEF TypeOK, Idle
    <3>2. \A b \in Peers : HandlerWanted(b)'
      BY <1>g, <1>w, <2>1, <3>1 DEF HandlerWanted
    <3>3. \A b \in Peers, p \in Pieces : Verifying(b, p)' => Verifying(b, p)
      BY <2>1, <3>1 DEF Verifying
    <3>4. CompletedHandlers'
      BY <1>i, <2>1, <3>1 DEF CompletedHandlers
    <3> QED BY <1>g, <1>t, <1>i, <1>k, <3>2, <3>3, <3>4, VerifyingFrame, LiveStep
  <2>3. ASSUME NEW st \in {"check", "mark", "finish", "failed"},
               handler[a].st # "idle",
               st = "check" => handler[a].completed /\ handler[a].st = "write",
               st = "mark" => handler[a].st = "check",
               st = "finish" => handler[a].st = "count",
               GoTo(a, st)
        PROVE  IndInv'
    <3>1. /\ handler'[a].st = st
          /\ handler'[a].piece = handler[a].piece
          /\ handler'[a].completed = handler[a].completed
      BY <2>3, <1>i, <1>h DEF TypeOK, GoTo, Handlers
    <3>2. \A b \in Peers : HandlerWanted(b)'
      BY <1>g, <1>w, <2>1, <2>3, <3>1 DEF HandlerWanted
    <3>3. \A b \in Peers, p \in Pieces : Verifying(b, p)' => Verifying(b, p)
      BY <2>1, <2>3, <3>1 DEF Verifying
    <3>4. CompletedHandlers'
      BY <1>i, <2>1, <2>3, <3>1 DEF CompletedHandlers
    <3> QED BY <1>g, <1>t, <1>i, <1>k, <3>2, <3>3, <3>4, VerifyingFrame, LiveStep
  <2> QED BY <1>g, <2>2, <2>3
<1>13. ASSUME NEW a \in Peers, on_peer_died(a)
       PROVE  IndInv'
  <2>1. /\ chunks' = mark_chunk_requests_cancelled(chunks, inflight_requests[a])
        /\ UNCHANGED <<mode, wanted, inflight_pieces>> /\ mode = "live"
        /\ handler' = [handler EXCEPT ![a] = Idle]
        /\ DropLive({a})
    BY <1>13 DEF on_peer_died
  <2>2. inflight_requests[a] \in SUBSET Chunks
    BY <1>i DEF TypeOK
  <2>3. /\ chunks'.have = chunks.have
        /\ chunks'.chunk_status = chunks.chunk_status
        /\ \A p \in chunks'.needed_pieces :
              p \in chunks.needed_pieces \/ \E c \in inflight_requests[a] : c[1] = p
    BY <2>1, <2>2, <1>k, CancelFacts
  <2>4. chunks'.needed_pieces \subseteq wanted
    BY <2>3, <1>k, <1>w DEF RequestsWanted
  <2>5. \A b \in Peers : RequestsWanted(b)'
    BY <2>1, <1>i, DropLiveWanted
  <2> QED BY <1>g, <2>1, <2>3, <2>4, <2>5
<1>14. ASSUME NEW a \in Peers, on_not_needed_peer_died(a)
       PROVE  IndInv'
  <2>1. \A b \in Peers : RequestsWanted(b)'
    BY <1>14, <1>w DEF on_not_needed_peer_died, RequestsWanted
  <2> QED BY <1>14, <1>g, <1>k, <2>1 DEF on_not_needed_peer_died
<1>15. ASSUME NEW a \in Peers, write_chunk(a)
       PROVE  IndInv'
  <2>1. \A b \in Peers : RequestsWanted(b)'
    BY <1>15, <1>w DEF write_chunk, RequestsWanted
  <2> QED BY <1>15, <1>g, <1>k, <2>1 DEF write_chunk, AtStep, GoTo
<1>16. ASSUME NEW a \in Peers, on_fatal_error(a) \/ check_received_piece_fails(a)
       PROVE  IndInv'
  <2>1. \A b \in Peers : RequestsWanted(b)'
    BY <1>16, <1>w DEF on_fatal_error, check_received_piece_fails, RequestsWanted
  <2> QED BY <1>16, <1>g, <1>k, <2>1
          DEF on_fatal_error, check_received_piece_fails, AtStep
<1>17. ASSUME NEW a \in Peers, count_piece(a)
       PROVE  IndInv'
  <2>1. \A b \in Peers : RequestsWanted(b)'
    BY <1>17, <1>w DEF count_piece, RequestsWanted
  <2> QED BY <1>17, <1>g, <1>k, <2>1 DEF count_piece, AtStep
<1>18. ASSUME NEW a \in Peers, finish_piece(a)
       PROVE  IndInv'
  <2>1. \A b \in Peers : RequestsWanted(b)'
    <3>1. CASE is_finished
      BY <1>18, <3>1, <1>i, DropLiveWanted DEF finish_piece
    <3>2. CASE ~is_finished
      BY <1>18, <3>2, <1>w DEF finish_piece, RequestsWanted
    <3> QED BY <3>1, <3>2
  <2> QED BY <1>18, <1>g, <1>k, <2>1 DEF finish_piece, AtStep
\* The steps that decide: the last chunk, the check and the mark.
<1>19. ASSUME NEW a \in Peers, NEW c \in Chunks, NEW d \in Contents,
              on_received_piece(a, c, d)
       PROVE  IndInv'
  <2> DEFINE p == c[1]
             result == ChunkMarkingResult(chunks, c)
  <2>1. /\ mode = "live" /\ UNCHANGED <<mode, wanted, requester>>
        /\ inflight_requests' = [inflight_requests EXCEPT ![a] = @ \ {c}]
    BY <1>19 DEF on_received_piece, AtAwait
  <2>2. \A b \in Peers : RequestsWanted(b)'
    BY <2>1, <1>w, <1>i DEF RequestsWanted, TypeOK
  <2>3. CASE inflight_pieces[p] # a \/ result = "PreviouslyCompleted"
    <3>1. UNCHANGED <<chunks, inflight_pieces, handler>>
      BY <1>19, <2>3 DEF on_received_piece
    <3> QED BY <1>f, <2>1, <2>2, <3>1
  <2>4. CASE inflight_pieces[p] = a /\ result # "PreviouslyCompleted"
    <3>1. /\ chunks' = mark_chunk_downloaded(chunks, c)
          /\ inflight_pieces' = IF result = "Completed"
                                  THEN [inflight_pieces EXCEPT ![p] = NoPeer]
                                  ELSE inflight_pieces
          /\ handler' = [handler EXCEPT ![a] =
                [st |-> "write", piece |-> p, chunk |-> c[2],
                 completed |-> result = "Completed", data |-> d]]
      BY <1>19, <2>4 DEF on_received_piece
    <3>2. p \in Pieces /\ p \in wanted
      BY <2>4, <1>k, LiveAssumption, ChunkFacts
    <3>3. /\ chunks'.have = chunks.have
          /\ chunks'.needed_pieces \subseteq wanted
          /\ chunks'.chunk_status = chunks.chunk_status \cup {c}
      BY <3>1, <1>k, MarkChunkFacts
    <3>4. /\ handler'[a].st = "write"
          /\ handler'[a].piece = p
          /\ handler'[a].completed = (result = "Completed")
          /\ \A b \in Peers : b # a => handler'[b] = handler[b]
      BY <3>1, <1>i DEF TypeOK
    <3>5. ~AllChunksSet(chunks, p)
      BY <2>4 DEF ChunkMarkingResult
    <3>6. result = "Completed" => AllChunksSet(chunks', p)
      BY <3>3, <3>5 DEF ChunkMarkingResult, AllChunksSet
    <3>7. p \notin chunks.have /\ \A b \in Peers : ~Verifying(b, p)
      BY <1>i, <3>2, <3>5 DEF CompletedStaysSet
    <3>8. \A q \in Pieces : AllChunksSet(chunks, q) => AllChunksSet(chunks', q)
      BY <3>3 DEF AllChunksSet
    <3>9. \A b \in Peers, q \in Pieces : Verifying(b, q)' =>
             \/ Verifying(b, q) /\ q # p /\ b # a
             \/ b = a /\ q = p /\ result = "Completed"
      BY <3>4, <3>7 DEF Verifying
    <3>10. CompletedStaysSet'
      <4>1. \A q \in chunks'.have : AllChunksSet(chunks', q)
        BY <1>i, <1>k, <3>3, <3>8 DEF CompletedStaysSet
      <4>2. ASSUME NEW b \in Peers, NEW q \in Pieces, Verifying(b, q)'
            PROVE  AllChunksSet(chunks', q) /\ q \notin chunks'.have
        <5>1. CASE Verifying(b, q)
          BY <5>1, <1>i, <3>3, <3>8 DEF CompletedStaysSet
        <5>2. CASE q = p /\ result = "Completed"
          BY <5>2, <3>3, <3>6, <3>7
        <5> QED BY <3>9, <4>2, <5>1, <5>2
      <4> QED BY <4>1, <4>2 DEF CompletedStaysSet, AllChunksSet
    <3>11. OneVerifier'
      BY <1>i, <3>9 DEF OneVerifier
    <3>12. CompletedHandlers'
      BY <1>i, <3>4 DEF CompletedHandlers
    <3>13. \A b \in Peers : HandlerWanted(b)'
      BY <1>w, <2>1, <3>2, <3>4 DEF HandlerWanted
    <3>14. \A q \in Pieces : inflight_pieces'[q] # NoPeer => q \in wanted
      BY <1>k, <1>i, <3>1 DEF TypeOK
    <3> HIDE DEF p, result
    <3> QED BY <1>t, <2>1, <2>2, <3>3, <3>10, <3>11, <3>12, <3>13, <3>14, LiveStep
  <2> QED BY <2>3, <2>4
<1>20. ASSUME NEW a \in Peers, check_received_piece(a)
       PROVE  IndInv'
  <2> DEFINE p == handler[a].piece
  <2>1. /\ mode = "live" /\ UNCHANGED <<mode, wanted, inflight_pieces>>
        /\ handler[a].st = "check"
    BY <1>20 DEF check_received_piece, AtStep
  <2>2. \A b \in Peers : RequestsWanted(b)'
    BY <1>20, <1>w DEF check_received_piece, RequestsWanted
  <2>3. CASE check_piece(p)
    <3>1. GoTo(a, "mark") /\ UNCHANGED chunks
      BY <1>20, <2>3 DEF check_received_piece
    <3> QED BY <1>g, <1>k, <2>1, <2>2, <3>1
  <2>4. CASE ~check_piece(p)
    <3>1. /\ chunks' = mark_pieces_broken_if_not_have(chunks, {p})
          /\ handler' = [handler EXCEPT ![a] = Idle]
      BY <1>20, <2>4 DEF check_received_piece
    <3>2. /\ Verifying(a, p) /\ p \in Pieces /\ p \in wanted
      BY <2>1, <1>i, <1>h, <1>w DEF CompletedHandlers, Verifying, HandlerWanted
    <3>3. /\ chunks'.needed_pieces \subseteq wanted
          /\ chunks'.have = chunks.have
          /\ \A q \in Pieces : q # p \/ q \in chunks.have =>
                (AllChunksSet(chunks, q) => AllChunksSet(chunks', q))
      <4>1. {p} \in SUBSET Pieces
        BY <3>2
      <4>2. LET u == mark_pieces_broken_if_not_have(chunks, {p}) IN
            /\ u.needed_pieces = chunks.needed_pieces \cup ({p} \ chunks.have)
            /\ u.have = chunks.have
            /\ \A q \in Pieces : q \notin {p} \/ q \in chunks.have =>
                  (AllChunksSet(chunks, q) => AllChunksSet(u, q))
        BY <4>1, <1>k, BrokenFacts
      <4> QED BY <4>2, <3>1, <3>2, <1>k
    <3>4. /\ handler'[a].st = "idle"
          /\ \A b \in Peers : b # a => handler'[b] = handler[b]
      BY <3>1, <1>i DEF TypeOK, Idle
    <3>5. \A b \in Peers, q \in Pieces : Verifying(b, q)' => Verifying(b, q) /\ b # a
      BY <3>4 DEF Verifying
    <3>6. \A b \in Peers, q \in Pieces : Verifying(b, q)' => Verifying(b, q) /\ q # p
      BY <3>2, <3>5, <1>i DEF OneVerifier
    <3>7. CompletedStaysSet'
      <4>1. \A q \in chunks'.have : AllChunksSet(chunks', q)
        BY <3>3, <1>i, <1>k DEF CompletedStaysSet
      <4>2. \A b \in Peers, q \in Pieces : Verifying(b, q)' =>
               AllChunksSet(chunks', q) /\ q \notin chunks'.have
        BY <3>3, <3>6, <1>i DEF CompletedStaysSet
      <4> QED BY <4>1, <4>2 DEF CompletedStaysSet, AllChunksSet
    <3>8. OneVerifier'
      BY <3>6, <1>i DEF OneVerifier
    <3>9. CompletedHandlers' /\ \A b \in Peers : HandlerWanted(b)'
      BY <1>i, <1>w, <2>1, <3>4 DEF CompletedHandlers, HandlerWanted
    <3> HIDE DEF p
    <3> QED BY <1>t, <1>k, <2>1, <2>2, <3>3, <3>7, <3>8, <3>9, LiveStep
  <2> QED BY <2>3, <2>4
<1>21. ASSUME NEW a \in Peers, mark_downloaded(a)
       PROVE  IndInv'
  <2> DEFINE p == handler[a].piece
  <2>1. /\ mode = "live" /\ UNCHANGED <<mode, wanted, inflight_pieces>>
        /\ handler[a].st = "mark"
        /\ chunks' = mark_piece_downloaded(chunks, p)
        /\ GoTo(a, "count")
    BY <1>21 DEF mark_downloaded, AtStep
  <2>2. \A b \in Peers : RequestsWanted(b)'
    BY <1>21, <1>w DEF mark_downloaded, RequestsWanted
  <2>3. Verifying(a, p) /\ p \in Pieces
    BY <2>1, <1>i, <1>h DEF CompletedHandlers, Verifying
  <2>4. /\ chunks'.have = chunks.have \cup {p}
        /\ chunks'.needed_pieces \subseteq wanted
        /\ chunks'.chunk_status = chunks.chunk_status
    BY <2>1, <2>3, <1>k, MarkPieceFacts
  <2>5. /\ handler'[a].st = "count"
        /\ handler'[a].piece = p
        /\ handler'[a].completed = handler[a].completed
        /\ \A b \in Peers : b # a => handler'[b] = handler[b]
    BY <2>1, <1>i, <1>h DEF TypeOK, GoTo, Handlers
  <2>6. \A b \in Peers, q \in Pieces : Verifying(b, q)' => Verifying(b, q) /\ b # a
    BY <2>5 DEF Verifying
  <2>7. \A b \in Peers, q \in Pieces : Verifying(b, q)' => Verifying(b, q) /\ q # p
    BY <2>3, <2>6, <1>i DEF OneVerifier
  <2>8. CompletedStaysSet'
    BY <2>3, <2>4, <2>7, <1>i DEF CompletedStaysSet, AllChunksSet
  <2>9. OneVerifier'
    BY <2>7, <1>i DEF OneVerifier
  <2>10. CompletedHandlers' /\ \A b \in Peers : HandlerWanted(b)'
    BY <1>i, <1>w, <2>1, <2>5 DEF CompletedHandlers, HandlerWanted
  <2> HIDE DEF p
  <2> QED BY <1>t, <1>k, <2>1, <2>2, <2>4, <2>8, <2>9, <2>10, LiveStep
<1>22. CASE UNCHANGED vars
  BY <1>22, <1>i, <1>t
     DEF vars, IndInv, OnlyWanted, CompletedStaysSet, OneVerifier,
         CompletedHandlers, StoppedIsIdle, Verifying, AllChunksSet
<1>23. ASSUME NEW a \in Peers, on_bitfield(a) \/ \E p \in Pieces : on_have(a, p)
       PROVE  IndInv'
  BY <1>23, <1>6 DEF on_bitfield, on_have
<1> QED
  BY <1>1, <1>2, <1>3, <1>4, <1>5, <1>7, <1>8, <1>9, <1>10, <1>11, <1>12, <1>13,
     <1>14, <1>15, <1>16, <1>17, <1>18, <1>19, <1>20, <1>21, <1>22, <1>23
     DEF Next, PeerStep, HandlerStep, Receive, Remote

\* The strengthening that makes VerifiedOnce provable is itself invariant.
THEOREM IndInvHolds == Spec => []IndInv
<1>1. Init => IndInv
  BY IndInit
<1>2. IndInv /\ [Next]_vars => IndInv'
  BY IndNext
<1> QED BY <1>1, <1>2, PTL DEF Spec

\* Whatever peers steal, cancel, fail and reconnect, no two handlers verify the
\* same piece and none verifies a piece that we have or do not want.
THEOREM PieceVerifiedOnce == Spec => []VerifiedOnce
<1>1. IndInv => VerifiedOnce
  BY DEF IndInv, OnlyWanted, CompletedStaysSet, OneVerifier, VerifiedOnce, Verifying
<1> QED BY <1>1, IndInvHolds, PTL

-----------------------------------------------------------------------------
(* The download implements the store of pieces *)

\* A new live state maps to an initial state of the store.
LEMMA StoreInitMapped ==
    ASSUME Init
    PROVE  Store!StoreInit
<1>1. PICK old \in SUBSET Pieces :
        /\ chunks = NewTracker(Selected \ old, old)
        /\ wanted = Selected \ old
  BY DEF Init
<1>2. chunks.have = old
  BY <1>1 DEF NewTracker
<1> QED BY <1>1, <1>2 DEF Init, Store!StoreInit

\* Every step of the download is a step of the store or changes nothing of it.
LEMMA StoreStepMapped ==
    ASSUME IndInv, [Next]_vars
    PROVE  [Store!StoreNext]_(Store!storeVars)
<1> USE DEF torrentVars, peerVars, diskVars, boundVars
<1>i. /\ TypeOK /\ OnlyWanted /\ CompletedStaysSet /\ CompletedHandlers
  BY DEF IndInv
<1>k. chunks \in Trackers /\ chunks.have \subseteq Pieces
  BY <1>i DEF TypeOK, Trackers
<1>h. \A b \in Peers : handler[b].piece \in Pieces
  BY <1>i DEF TypeOK, Handlers
<1>s. ASSUME UNCHANGED <<mode, wanted>>, chunks'.have = chunks.have
      PROVE  [Store!StoreNext]_(Store!storeVars)
  BY <1>s DEF Store!storeVars
<1>1. CASE pause
  <2>1. /\ mode = "live" /\ mode' = "paused"
        /\ chunks' = PausedTracker
        /\ wanted' = PausedTracker.needed_pieces
    BY <1>1 DEF pause
  <2>2. PausedTracker.have = chunks.have /\ wanted' \subseteq wanted
    BY <1>i, <2>1, PausedTrackerFacts DEF OnlyWanted
  <2> QED BY <2>1, <2>2 DEF Store!StoreNext, Store!Pause
<1>2. CASE unpause
  BY <1>2 DEF unpause, Store!StoreNext, Store!Resume
<1>3. CASE stop_with_error
  <2>1. chunks'.have = chunks.have
    BY <1>3, <1>i, PausedTrackerFacts DEF stop_with_error
  <2> QED BY <1>3, <2>1 DEF stop_with_error, Store!StoreNext, Store!Fail
<1>4. CASE restart
  <2> DEFINE found == {p \in Pieces : HashMatches(p)}
  <2>1. /\ mode = "error" /\ mode' = "live"
        /\ chunks' = NewTracker(Selected \ found, found)
        /\ wanted' = Selected \ found
    BY <1>4 DEF restart
  <2>2. chunks'.have = found /\ found \subseteq Pieces
    BY <2>1 DEF NewTracker
  <2> HIDE DEF found
  <2> QED BY <2>1, <2>2 DEF Store!StoreNext, Store!Recheck
<1>5. ASSUME NEW a \in Peers, mark_downloaded(a)
      PROVE  [Store!StoreNext]_(Store!storeVars)
  <2> DEFINE p == handler[a].piece
  <2>1. Verifying(a, p) /\ p \in Pieces /\ p \in wanted
    BY <1>5, <1>i, <1>h DEF mark_downloaded, AtStep, CompletedHandlers, Verifying,
       OnlyWanted
  <2>2. p \notin chunks.have
    BY <2>1, <1>i DEF CompletedStaysSet
  <2>3. chunks'.have = chunks.have \cup {p}
    BY <1>5, <2>1, <1>k, MarkPieceFacts DEF mark_downloaded
  <2>4. mode = "live" /\ UNCHANGED <<mode, wanted>>
    BY <1>5 DEF mark_downloaded, AtStep
  <2>5. Store!Complete(p)
    BY <2>1, <2>2, <2>3, <2>4 DEF Store!Complete
  <2> HIDE DEF p
  <2> QED BY <2>1, <2>5 DEF Store!StoreNext
<1>6. ASSUME NEW a \in Peers, on_peer_died(a)
      PROVE  [Store!StoreNext]_(Store!storeVars)
  BY <1>6, <1>s, <1>i, <1>k, CancelFacts DEF on_peer_died, TypeOK
<1>7. ASSUME NEW a \in Peers, NEW p \in Pieces, reserve_next_needed_piece(a, p)
      PROVE  [Store!StoreNext]_(Store!storeVars)
  BY <1>7, <1>s, <1>k, ReserveFacts DEF reserve_next_needed_piece
<1>8. ASSUME NEW a \in Peers, NEW c \in Chunks, NEW d \in Contents,
             on_received_piece(a, c, d)
      PROVE  [Store!StoreNext]_(Store!storeVars)
  <2>1. chunks' = chunks \/ chunks' = mark_chunk_downloaded(chunks, c)
    BY <1>8 DEF on_received_piece
  <2>2. chunks'.have = chunks.have
    BY <2>1, <1>k, MarkChunkFacts
  <2> QED BY <1>8, <1>s, <2>2 DEF on_received_piece
<1>9. ASSUME NEW a \in Peers, check_received_piece(a)
      PROVE  [Store!StoreNext]_(Store!storeVars)
  <2>1. \/ chunks' = chunks
        \/ chunks' = mark_pieces_broken_if_not_have(chunks, {handler[a].piece})
    BY <1>9 DEF check_received_piece
  <2>2. chunks'.have = chunks.have
    BY <2>1, <1>k, <1>h, BrokenFacts
  <2> QED BY <1>9, <1>s, <2>2 DEF check_received_piece
<1>10. ASSUME NEW a \in Peers,
              \/ requester_start(a) \/ acquire_permit(a)
              \/ no_pieces_to_request(a) \/ nothing_left_to_download(a)
              \/ set_peer_live(a)
              \/ \E p \in Pieces : try_steal_old_slow_piece(a, p)
              \/ on_bitfield(a) \/ \E p \in Pieces : on_have(a, p)
              \/ on_i_am_choked(a) \/ on_i_am_unchoked(a)
       PROVE  [Store!StoreNext]_(Store!storeVars)
  BY <1>10, <1>s
     DEF requester_start, acquire_permit, no_pieces_to_request,
           nothing_left_to_download, WantsPiece, PastUnchoke, set_peer_live,
         try_steal_old_slow_piece, on_bitfield, on_have, LearnPieces,
         on_i_am_choked, on_i_am_unchoked
<1>11. ASSUME NEW a \in Peers,
              \/ on_not_needed_peer_died(a) \/ write_chunk(a) \/ on_fatal_error(a)
              \/ check_received_piece_fails(a) \/ count_piece(a) \/ finish_piece(a)
       PROVE  [Store!StoreNext]_(Store!storeVars)
  BY <1>11, <1>s
     DEF on_not_needed_peer_died, write_chunk, on_fatal_error,
         check_received_piece_fails, count_piece, finish_piece
<1>12. CASE UNCHANGED vars
  BY <1>12, <1>s DEF vars
<1> QED
  BY <1>1, <1>2, <1>3, <1>4, <1>5, <1>6, <1>7, <1>8, <1>9, <1>10, <1>11, <1>12
     DEF Next, PeerStep, HandlerStep, Receive, Remote

\* The concurrent download implements the sequential store of pieces: pieces
\* are gained one at a time, each wanted and new, and pausing or failing loses
\* none.
THEOREM DownloadImplementsStore == Spec => ImplementsStore
<1>1. Init => Store!StoreInit
  BY StoreInitMapped
<1>2. IndInv /\ [Next]_vars => [Store!StoreNext]_(Store!storeVars)
  BY StoreStepMapped
<1> QED BY <1>1, <1>2, IndInvHolds, PTL DEF Spec, ImplementsStore, Store!StoreSpec

-----------------------------------------------------------------------------
(* Sums of piece lengths: induction over the pieces by a least counterexample *)

\* Every non-empty set of naturals has a least element.
LEMMA LeastNat ==
    ASSUME NEW T \in SUBSET Nat, T # {}
    PROVE  \E n \in T : \A m \in T : n <= m
<1> DEFINE R == OpToRel(<, Nat)
<1>1. \A m, n \in Nat : <<m, n>> \in R <=> m < n
  BY DEF OpToRel
<1>2. IsWellFoundedOn(R, Nat)
  BY NatLessThanWellFounded
<1> HIDE DEF R
<1>3. PICK x \in T : \A y \in T : ~(<<y, x>> \in R)
  BY <1>2, WFMin
<1>4. ASSUME NEW y \in T PROVE x <= y
  <2>1. x \in Nat /\ y \in Nat
    OBVIOUS
  <2>2. ~(y < x)
    BY <1>1, <1>3, <2>1
  <2> QED BY <2>1, <2>2
<1> QED BY <1>4

\* g[i] adds up the lengths of the pieces of S among the first i, for i up to n.
IsSum(S, g, n) ==
    /\ g \in [0..n -> Nat]
    /\ g[0] = 0
    /\ \A i \in 1..n : g[i] = g[i - 1] + (IF i - 1 \in S THEN PieceLen[i - 1] ELSE 0)

\* The partial sums exist for every number of pieces.
LEMMA SumExists ==
    ASSUME NEW S
    PROVE  \E g : IsSum(S, g, NumPieces)
<1> DEFINE T == {n \in 0..NumPieces : ~\E g : IsSum(S, g, n)}
<1> SUFFICES ASSUME T # {} PROVE FALSE
  BY LengthsAssumption
<1>1. T \in SUBSET Nat
  OBVIOUS
<1>2. PICK n \in T : \A m \in T : n <= m
  BY <1>1, LeastNat
<1>3. n # 0
  <2>1. IsSum(S, [i \in 0..0 |-> 0], 0)
    BY DEF IsSum
  <2> QED BY <2>1
<1>4. n - 1 \in 0..NumPieces /\ n - 1 \notin T /\ n \in Nat
  BY <1>2, <1>3, LengthsAssumption
<1>5. PICK g : IsSum(S, g, n - 1)
  BY <1>4
<1> DEFINE h == [i \in 0..n |-> IF i = n THEN g[n - 1] + (IF n - 1 \in S THEN PieceLen[n - 1] ELSE 0)
                                ELSE g[i]]
<1>6. PieceLen[n - 1] \in Nat /\ n - 1 \in 0..(n - 1) /\ n \in 1..NumPieces
  BY <1>2, <1>3, <1>4, LengthsAssumption DEF Pieces
<1>7. h \in [0..n -> Nat]
  BY <1>4, <1>5, <1>6 DEF IsSum
<1>8. h[0] = 0
  BY <1>3, <1>4, <1>5 DEF IsSum
<1>9. ASSUME NEW i \in 1..n
      PROVE  h[i] = h[i - 1] + (IF i - 1 \in S THEN PieceLen[i - 1] ELSE 0)
  <2>1. CASE i = n
    BY <1>4, <1>5, <2>1 DEF IsSum
  <2>2. CASE i # n
    <3>1. i \in 1..(n - 1) /\ i - 1 \in 0..n /\ i - 1 # n /\ i \in 0..n
      BY <1>4, <2>2
    <3> QED BY <1>5, <2>2, <3>1 DEF IsSum
  <2> QED BY <2>1, <2>2
<1>10. IsSum(S, h, n)
  BY <1>7, <1>8, <1>9 DEF IsSum
<1> QED BY <1>2, <1>10

\* BytesOf is the last of the partial sums.
LEMMA BytesIsSum ==
    ASSUME NEW S
    PROVE  \E g : IsSum(S, g, NumPieces) /\ BytesOf(S) = g[NumPieces]
<1> DEFINE D(f) == [n \in 0..NumPieces |->
                      IF n = 0 THEN 0
                      ELSE f[n - 1] + (IF n - 1 \in S THEN PieceLen[n - 1] ELSE 0)]
           s == CHOOSE f : f = D(f)
<1>1. BytesOf(S) = s[NumPieces]
  BY Zenon DEF BytesOf
<1>2. PICK g : IsSum(S, g, NumPieces)
  BY SumExists
<1>3. g = D(g)
  BY <1>2, LengthsAssumption DEF IsSum
<1>4. s = D(s)
  BY <1>3
<1> HIDE DEF s
<1>5. ASSUME NEW i \in 1..NumPieces
      PROVE  s[i] = s[i - 1] + (IF i - 1 \in S THEN PieceLen[i - 1] ELSE 0)
  BY <1>4, LengthsAssumption
<1>6. s[0] = 0
  BY <1>4, LengthsAssumption
<1>7. \A n \in 0..NumPieces : s[n] = g[n]
  <2> DEFINE T == {n \in 0..NumPieces : s[n] # g[n]}
  <2> SUFFICES ASSUME T # {} PROVE FALSE
    OBVIOUS
  <2>0. T \in SUBSET Nat
    OBVIOUS
  <2>1. PICK n \in T : \A m \in T : n <= m
    BY <2>0, LeastNat
  <2>2. n \in 1..NumPieces
    BY <2>1, <1>6, <1>2, LengthsAssumption DEF IsSum
  <2>3. n - 1 \in 0..NumPieces /\ n - 1 \notin T
    BY <2>1, <2>2, LengthsAssumption
  <2> QED BY <2>1, <2>2, <2>3, <1>5, <1>2 DEF IsSum
<1> QED BY <1>1, <1>2, <1>7, LengthsAssumption

\* Nothing has no length.
LEMMA BytesOfNothing == BytesOf({}) = 0
<1>1. PICK g : IsSum({}, g, NumPieces) /\ BytesOf({}) = g[NumPieces]
  BY BytesIsSum
<1>2. \A n \in 0..NumPieces : g[n] = 0
  <2> DEFINE T == {n \in 0..NumPieces : g[n] # 0}
  <2> SUFFICES ASSUME T # {} PROVE FALSE
    OBVIOUS
  <2>0. T \in SUBSET Nat
    OBVIOUS
  <2>1. PICK n \in T : \A m \in T : n <= m
    BY <2>0, LeastNat
  <2>2. n \in 1..NumPieces
    BY <2>1, <1>1, LengthsAssumption DEF IsSum
  <2>3. n - 1 \in 0..NumPieces /\ n - 1 \notin T
    BY <2>1, <2>2, LengthsAssumption
  <2> QED BY <2>1, <2>2, <2>3, <1>1 DEF IsSum
<1> QED BY <1>1, <1>2, LengthsAssumption

\* One more piece adds its own length.
LEMMA BytesOfOneMore ==
    ASSUME NEW S \in SUBSET Pieces, NEW p \in Pieces \ S
    PROVE  BytesOf(S \cup {p}) = BytesOf(S) + PieceLen[p]
<1> DEFINE R == S \cup {p}
<1>1. PICK g : IsSum(S, g, NumPieces) /\ BytesOf(S) = g[NumPieces]
  BY BytesIsSum
<1>2. PICK h : IsSum(R, h, NumPieces) /\ BytesOf(R) = h[NumPieces]
  BY BytesIsSum
<1> DEFINE Right(n) == h[n] = g[n] + (IF p < n THEN PieceLen[p] ELSE 0)
           T == {n \in 0..NumPieces : ~Right(n)}
<1>p. p \in Nat /\ p < NumPieces /\ PieceLen[p] \in Nat /\ NumPieces \in Nat
  BY LengthsAssumption DEF Pieces
<1>3. T = {}
  <2> SUFFICES ASSUME T # {} PROVE FALSE
    OBVIOUS
  <2>0. T \in SUBSET Nat
    OBVIOUS
  <2>1. PICK n \in T : \A m \in T : n <= m
    BY <2>0, LeastNat
  <2>2. n \in 1..NumPieces
    BY <2>1, <1>1, <1>2, <1>p DEF IsSum
  <2>3. n - 1 \in 0..NumPieces /\ n - 1 \notin T /\ n - 1 \in Pieces
    BY <2>1, <2>2, <1>p DEF Pieces
  <2>4. Right(n - 1)
    BY <2>3
  <2>5. /\ g[n] = g[n - 1] + (IF n - 1 \in S THEN PieceLen[n - 1] ELSE 0)
        /\ h[n] = h[n - 1] + (IF n - 1 \in R THEN PieceLen[n - 1] ELSE 0)
        /\ g[n - 1] \in Nat /\ h[n - 1] \in Nat /\ PieceLen[n - 1] \in Nat
    BY <1>1, <1>2, <2>2, <2>3, LengthsAssumption DEF IsSum
  <2>6. CASE n - 1 = p
    BY <2>1, <2>2, <2>4, <2>5, <2>6, <1>p
  <2>7. CASE n - 1 # p
    <3>1. (n - 1 \in R <=> n - 1 \in S) /\ (p < n <=> p < n - 1)
      BY <2>2, <2>7, <1>p
    <3> QED BY <2>1, <2>4, <2>5, <3>1, <1>p
  <2> QED BY <2>6, <2>7
<1>4. Right(NumPieces)
  BY <1>3, <1>p
<1> QED BY <1>1, <1>2, <1>4, <1>p

\* Fewer pieces are fewer bytes: no piece is empty.
LEMMA BytesOfFewer ==
    ASSUME NEW R \in SUBSET Pieces, NEW S \in SUBSET R
    PROVE  /\ BytesOf(S) \in Nat /\ BytesOf(R) \in Nat
           /\ BytesOf(S) <= BytesOf(R)
           /\ S # R => BytesOf(S) < BytesOf(R)
<1>1. PICK g : IsSum(S, g, NumPieces) /\ BytesOf(S) = g[NumPieces]
  BY BytesIsSum
<1>2. PICK h : IsSum(R, h, NumPieces) /\ BytesOf(R) = h[NumPieces]
  BY BytesIsSum
<1> DEFINE Right(n) == /\ g[n] <= h[n]
                       /\ (\E p \in R \ S : p < n) => g[n] < h[n]
           T == {n \in 0..NumPieces : ~Right(n)}
<1>p. NumPieces \in Nat /\ \A p \in Pieces : p \in Nat /\ p < NumPieces
  BY LengthsAssumption DEF Pieces
<1>3. T = {}
  <2> SUFFICES ASSUME T # {} PROVE FALSE
    OBVIOUS
  <2>0. T \in SUBSET Nat
    OBVIOUS
  <2>1. PICK n \in T : \A m \in T : n <= m
    BY <2>0, LeastNat
  <2>2. n \in 1..NumPieces
    <3>1. Right(0)
      BY <1>1, <1>2, <1>p DEF IsSum
    <3> QED BY <2>1, <3>1, <1>p
  <2>3. n - 1 \in 0..NumPieces /\ n - 1 \notin T /\ n - 1 \in Pieces
    BY <2>1, <2>2, <1>p DEF Pieces
  <2>4. Right(n - 1)
    BY <2>3
  <2>5. /\ g[n] = g[n - 1] + (IF n - 1 \in S THEN PieceLen[n - 1] ELSE 0)
        /\ h[n] = h[n - 1] + (IF n - 1 \in R THEN PieceLen[n - 1] ELSE 0)
        /\ g[n - 1] \in Nat /\ h[n - 1] \in Nat
        /\ PieceLen[n - 1] \in Nat /\ PieceLen[n - 1] > 0
    <3>1. /\ g \in [0..NumPieces -> Nat] /\ h \in [0..NumPieces -> Nat]
          /\ g[n] = g[n - 1] + (IF n - 1 \in S THEN PieceLen[n - 1] ELSE 0)
          /\ h[n] = h[n - 1] + (IF n - 1 \in R THEN PieceLen[n - 1] ELSE 0)
      BY <1>1, <1>2, <2>2 DEF IsSum
    <3>2. PieceLen[n - 1] \in Nat /\ PieceLen[n - 1] > 0
      BY <2>3, LengthsAssumption
    <3> QED BY <2>3, <3>1, <3>2
  <2>6. g[n] <= h[n]
    <3> HIDE DEF T
    <3>1. n - 1 \in S => n - 1 \in R
      OBVIOUS
    <3> QED BY <2>4, <2>5, <3>1
  <2>7. ASSUME NEW p \in R \ S, p < n PROVE g[n] < h[n]
    <3>1. CASE p = n - 1
      BY <2>4, <2>5, <3>1
    <3>2. CASE p # n - 1
      <4>1. p < n - 1
        BY <2>2, <2>7, <3>2, <1>p
      <4>2. g[n - 1] < h[n - 1]
        BY <2>4, <4>1
      <4>3. n - 1 \in S => n - 1 \in R
        OBVIOUS
      <4> QED BY <4>2, <4>3, <2>5
    <3> QED BY <3>1, <3>2
  <2> QED BY <2>1, <2>6, <2>7
<1>4. Right(NumPieces)
  BY <1>3, <1>p
<1>5. S # R => \E p \in R \ S : p < NumPieces
  BY <1>p
<1>6. BytesOf(S) \in Nat /\ BytesOf(R) \in Nat
  BY <1>1, <1>2, <1>p DEF IsSum
<1> QED BY <1>1, <1>2, <1>4, <1>5, <1>6

-----------------------------------------------------------------------------
(* The byte counters *)

\* A step that neither marks nor counts a piece leaves the account as it is.
LEMMA CountedFrame ==
    ASSUME CountedOnce,
           UNCHANGED <<wanted, downloaded_bytes>>, chunks'.have = chunks.have,
           mode # "live" \/ mode' = mode,
           \A a \in Peers : handler'[a].st = "count" => handler'[a] = handler[a]
    PROVE  CountedOnce'
<1>1. PICK counted \in SUBSET (wanted \cap chunks.have) :
        /\ downloaded_bytes = BytesOf(counted)
        /\ \A a \in Peers : handler[a].st = "count" => handler[a].piece \notin counted
  BY DEF CountedOnce
<1>2. \A a \in Peers : handler'[a].st = "count" =>
        /\ handler'[a].piece \in wanted' \cap chunks'.have
        /\ handler'[a].piece \notin counted
        /\ \A b \in Peers \ {a} : handler'[b].st # "count" \/ handler'[b].piece # handler'[a].piece
  BY <1>1 DEF CountedOnce
<1>3. mode' # "live" => downloaded_bytes' = 0
  BY DEF CountedOnce
<1>4. counted \in SUBSET (wanted' \cap chunks'.have) /\ downloaded_bytes' = BytesOf(counted)
  BY <1>1
<1> QED BY <1>2, <1>3, <1>4 DEF CountedOnce, BytesOf

\* A live state without tasks has counted nothing.
LEMMA NothingCounted ==
    ASSUME downloaded_bytes' = 0,
           \A a \in Peers : handler'[a].st # "count"
    PROVE  CountedOnce'
<1>1. {} \in SUBSET (wanted' \cap chunks'.have) /\ downloaded_bytes' = BytesOf({})
  BY BytesOfNothing
<1> QED BY <1>1 DEF CountedOnce, BytesOf

\* The first live state has counted nothing.
LEMMA CountedInit ==
    ASSUME Init
    PROVE  CountedOnce
<1>1. downloaded_bytes = 0 /\ \A a \in Peers : handler[a].st # "count"
  BY DEF Init, NoPeersInit, Idle
<1>2. {} \in SUBSET (wanted \cap chunks.have) /\ downloaded_bytes = BytesOf({})
  BY <1>1, BytesOfNothing
<1> QED BY <1>1, <1>2 DEF CountedOnce

\* Every action keeps the account: a handler marks a piece that nobody had, and
\* counts what it marked.
LEMMA CountedNext ==
    ASSUME IndInv, IndInv', CountedOnce, [Next]_vars
    PROVE  CountedOnce'
<1> USE DEF torrentVars, peerVars, diskVars, boundVars
<1>i. TypeOK /\ OnlyWanted /\ CompletedStaysSet /\ CompletedHandlers /\ StoppedIsIdle
  BY DEF IndInv
<1>k. chunks \in Trackers /\ chunks.have \subseteq Pieces /\ wanted \subseteq Pieces
  BY <1>i DEF TypeOK, Trackers
<1>h. \A b \in Peers : handler[b] \in Handlers /\ handler[b].piece \in Pieces
  BY <1>i DEF TypeOK, Handlers
<1>1. CASE pause \/ stop_with_error
  BY <1>1, NothingCounted DEF pause, stop_with_error, DropLiveState, Idle
<1>2. CASE unpause
  BY <1>2, CountedFrame DEF unpause
<1>3. CASE restart
  <2>1. UNCHANGED <<downloaded_bytes, handler>> /\ mode # "live"
    BY <1>3 DEF restart
  <2> QED BY <2>1, <1>i, NothingCounted DEF CountedOnce, StoppedIsIdle
<1>4. ASSUME NEW a \in Peers, mark_downloaded(a)
      PROVE  CountedOnce'
  <2> DEFINE p == handler[a].piece
  <2>1. /\ mode = "live" /\ UNCHANGED <<mode, wanted, downloaded_bytes>>
        /\ handler[a].st = "mark"
        /\ chunks' = mark_piece_downloaded(chunks, p)
        /\ GoTo(a, "count")
    BY <1>4 DEF mark_downloaded, AtStep
  <2>2. Verifying(a, p) /\ p \in wanted /\ p \in Pieces
    BY <2>1, <1>i, <1>h DEF CompletedHandlers, Verifying, OnlyWanted
  <2>3. p \notin chunks.have
    BY <2>2, <1>i DEF CompletedStaysSet
  <2>4. chunks'.have = chunks.have \cup {p}
    BY <2>1, <2>2, <1>k, MarkPieceFacts
  <2>5. /\ handler'[a].st = "count" /\ handler'[a].piece = p
        /\ \A b \in Peers : b # a => handler'[b] = handler[b]
    BY <2>1, <1>i, <1>h DEF TypeOK, GoTo, Handlers
  <2>6. PICK counted \in SUBSET (wanted \cap chunks.have) :
          /\ downloaded_bytes = BytesOf(counted)
          /\ \A b \in Peers : handler[b].st = "count" => handler[b].piece \notin counted
    BY DEF CountedOnce
  <2>7. \A b \in Peers : handler[b].st = "count" =>
           handler[b].piece \in wanted \cap chunks.have /\ handler[b].piece # p
    BY <2>3 DEF CountedOnce
  <2> HIDE DEF p
  <2>8. \A b \in Peers : handler'[b].st = "count" =>
          /\ handler'[b].piece \in wanted' \cap chunks'.have
          /\ handler'[b].piece \notin counted
          /\ \A c \in Peers \ {b} : handler'[c].st # "count" \/ handler'[c].piece # handler'[b].piece
    <3>1. ASSUME NEW b \in Peers, handler'[b].st = "count"
          PROVE  /\ handler'[b].piece \in wanted' \cap chunks'.have
                 /\ handler'[b].piece \notin counted
      BY <3>1, <2>1, <2>2, <2>3, <2>4, <2>5, <2>6, <2>7
    <3>2. ASSUME NEW b \in Peers, NEW c \in Peers \ {b},
                 handler'[b].st = "count", handler'[c].st = "count"
          PROVE  handler'[c].piece # handler'[b].piece
      BY <3>2, <2>5, <2>7 DEF CountedOnce
    <3> QED BY <3>1, <3>2
  <2>9. counted \in SUBSET (wanted' \cap chunks'.have) /\ downloaded_bytes' = BytesOf(counted)
    BY <2>1, <2>4, <2>6
  <2> QED BY <2>1, <2>8, <2>9 DEF CountedOnce, BytesOf
<1>5. ASSUME NEW a \in Peers, count_piece(a)
      PROVE  CountedOnce'
  <2> DEFINE p == handler[a].piece
  <2>1. /\ mode = "live" /\ UNCHANGED <<mode, wanted, chunks>>
        /\ handler[a].st = "count"
        /\ downloaded_bytes' = downloaded_bytes + PieceLen[p]
        /\ GoTo(a, "finish")
    BY <1>5 DEF count_piece, AtStep
  <2>2. /\ handler'[a].st = "finish"
        /\ \A b \in Peers : b # a => handler'[b] = handler[b]
    BY <2>1, <1>i, <1>h DEF TypeOK, GoTo, Handlers
  <2>3. PICK counted \in SUBSET (wanted \cap chunks.have) :
          /\ downloaded_bytes = BytesOf(counted)
          /\ \A b \in Peers : handler[b].st = "count" => handler[b].piece \notin counted
    BY DEF CountedOnce
  <2>4. p \in wanted \cap chunks.have /\ p \notin counted
    BY <2>1, <2>3 DEF CountedOnce
  <2> DEFINE more == counted \cup {p}
  <2>5. downloaded_bytes' = BytesOf(more)
    <3>1. counted \in SUBSET Pieces /\ p \in Pieces \ counted
      BY <2>3, <2>4, <1>k
    <3> QED BY <2>1, <2>3, <3>1, BytesOfOneMore
  <2>6. \A b \in Peers : handler[b].st = "count" /\ b # a => handler[b].piece # p
    BY <2>1 DEF CountedOnce
  <2>7. more \in SUBSET (wanted' \cap chunks'.have)
    BY <2>1, <2>3, <2>4
  <2>8. \A b \in Peers : handler'[b].st = "count" =>
          /\ handler'[b].piece \in wanted' \cap chunks'.have
          /\ handler'[b].piece \notin more
          /\ \A c \in Peers \ {b} : handler'[c].st # "count" \/ handler'[c].piece # handler'[b].piece
    BY <2>1, <2>2, <2>3, <2>6 DEF CountedOnce
  <2> HIDE DEF more, p
  <2> QED BY <2>1, <2>5, <2>7, <2>8 DEF CountedOnce, BytesOf
<1>6. ASSUME NEW a \in Peers, NEW c \in Chunks, NEW d \in Contents,
             on_received_piece(a, c, d)
      PROVE  CountedOnce'
  <2>1. chunks' = chunks \/ chunks' = mark_chunk_downloaded(chunks, c)
    BY <1>6 DEF on_received_piece
  <2>2. chunks'.have = chunks.have
    BY <2>1, <1>k, MarkChunkFacts
  <2>3. \A b \in Peers : handler'[b].st = "count" => handler'[b] = handler[b]
    BY <1>6, <1>i DEF on_received_piece, TypeOK
  <2>4. UNCHANGED <<mode, wanted, downloaded_bytes>>
    BY <1>6 DEF on_received_piece
  <2> QED BY <2>2, <2>3, <2>4, CountedFrame
<1>7. ASSUME NEW a \in Peers, check_received_piece(a)
      PROVE  CountedOnce'
  <2>1. \/ chunks' = chunks
        \/ chunks' = mark_pieces_broken_if_not_have(chunks, {handler[a].piece})
    BY <1>7 DEF check_received_piece
  <2>2. chunks'.have = chunks.have
    BY <2>1, <1>k, <1>h, BrokenFacts
  <2>3. \A b \in Peers : handler'[b].st = "count" => handler'[b] = handler[b]
    BY <1>7, <1>i, <1>h DEF check_received_piece, TypeOK, GoTo, Idle, Handlers
  <2>4. UNCHANGED <<mode, wanted, downloaded_bytes>>
    BY <1>7 DEF check_received_piece
  <2> QED BY <2>2, <2>3, <2>4, CountedFrame
<1>8. ASSUME NEW a \in Peers, on_peer_died(a)
      PROVE  CountedOnce'
  <2>1. chunks'.have = chunks.have
    BY <1>8, <1>i, <1>k, CancelFacts DEF on_peer_died, TypeOK
  <2>2. \A b \in Peers : handler'[b].st = "count" => handler'[b] = handler[b]
    BY <1>8, <1>i DEF on_peer_died, TypeOK, Idle
  <2> QED BY <1>8, <2>1, <2>2, CountedFrame DEF on_peer_died
<1>9. ASSUME NEW a \in Peers, NEW p \in Pieces, reserve_next_needed_piece(a, p)
      PROVE  CountedOnce'
  <2>1. chunks'.have = chunks.have
    BY <1>9, <1>k, ReserveFacts DEF reserve_next_needed_piece
  <2> QED BY <1>9, <2>1, CountedFrame DEF reserve_next_needed_piece
<1>10. ASSUME NEW a \in Peers,
              \/ requester_start(a) \/ acquire_permit(a)
              \/ no_pieces_to_request(a) \/ nothing_left_to_download(a)
              \/ set_peer_live(a)
              \/ \E p \in Pieces : try_steal_old_slow_piece(a, p)
              \/ on_bitfield(a) \/ \E p \in Pieces : on_have(a, p)
              \/ on_i_am_choked(a) \/ on_i_am_unchoked(a)
       PROVE  CountedOnce'
  <2>1. UNCHANGED <<mode, wanted, downloaded_bytes, chunks, handler>>
    BY <1>10
       DEF requester_start, acquire_permit, no_pieces_to_request,
           nothing_left_to_download, WantsPiece, PastUnchoke, set_peer_live,
           try_steal_old_slow_piece, on_bitfield, on_have, LearnPieces,
           on_i_am_choked, on_i_am_unchoked
  <2> QED BY <2>1, CountedFrame
<1>11. ASSUME NEW a \in Peers,
              \/ on_not_needed_peer_died(a) \/ write_chunk(a) \/ on_fatal_error(a)
              \/ check_received_piece_fails(a) \/ finish_piece(a)
       PROVE  CountedOnce'
  <2>1. UNCHANGED <<mode, wanted, downloaded_bytes, chunks>>
    BY <1>11 DEF on_not_needed_peer_died, write_chunk, on_fatal_error,
                 check_received_piece_fails, finish_piece
  <2>2. \/ handler' = [handler EXCEPT ![a] = Idle]
        \/ handler' = [handler EXCEPT ![a].st = "check"]
        \/ handler' = [handler EXCEPT ![a].st = "failed"]
    BY <1>11 DEF on_not_needed_peer_died, write_chunk, on_fatal_error,
                 check_received_piece_fails, finish_piece, GoTo
  <2>3. \A b \in Peers : handler'[b].st = "count" => handler'[b] = handler[b]
    BY <2>2, <1>i, <1>h DEF TypeOK, Idle, Handlers
  <2> QED BY <2>1, <2>3, CountedFrame
<1>12. CASE UNCHANGED vars
  BY <1>12, CountedFrame DEF vars
<1> QED
  BY <1>1, <1>2, <1>3, <1>4, <1>5, <1>6, <1>7, <1>8, <1>9, <1>10, <1>11, <1>12
     DEF Next, PeerStep, HandlerStep, Receive, Remote

\* What was counted, compared with what is wanted.
LEMMA CountersFromAccount ==
    ASSUME IndInv, CountedOnce
    PROVE  NoUnderflow /\ FinishedMeansHave
<1>1. wanted \in SUBSET Pieces
  BY DEF IndInv, TypeOK
<1>2. PICK counted \in SUBSET (wanted \cap chunks.have) : downloaded_bytes = BytesOf(counted)
  BY DEF CountedOnce
<1>3. counted \in SUBSET wanted
  BY <1>2
<1>4. /\ BytesOf(counted) \in Nat /\ BytesOf(wanted) \in Nat
      /\ BytesOf(counted) <= BytesOf(wanted)
      /\ counted # wanted => BytesOf(counted) < BytesOf(wanted)
  BY <1>1, <1>3, BytesOfFewer
<1>5. NoUnderflow
  BY <1>2, <1>4 DEF NoUnderflow, initially_needed_bytes
<1>6. is_finished => counted = wanted
  BY <1>2, <1>4 DEF is_finished, initially_needed_bytes
<1> QED BY <1>2, <1>5, <1>6 DEF FinishedMeansHave

\* Whatever the tasks do outside the lock, what is left to download never underflows
\* and the download is never declared finished while a piece is missing.
THEOREM CountersCorrect == Spec => []CountersSound
<1>1. Init => CountedOnce
  BY CountedInit
<1>2. IndInv /\ IndInv' /\ CountedOnce /\ [Next]_vars => CountedOnce'
  BY CountedNext
<1>3. IndInv /\ CountedOnce => CountersSound
  BY CountersFromAccount DEF CountersSound
<1> QED BY <1>1, <1>2, <1>3, IndInvHolds, PTL DEF Spec

-----------------------------------------------------------------------------
(* Errors after the end *)

\* A stopped torrent has no error pending.
FatalInv == FatalOnlyWhenDone /\ (mode # "live" => ~fatal)

\* Only finish_piece reopens the files, and only when nothing is missing; the wanted
\* pieces we have stay here until the files are checked again.
LEMMA FatalNext ==
    ASSUME IndInv, CountedOnce, FatalInv, [Next]_vars
    PROVE  FatalInv'
<1> USE DEF torrentVars, peerVars, diskVars, boundVars
<1>i. TypeOK /\ OnlyWanted
  BY DEF IndInv
<1>k. chunks \in Trackers /\ chunks.have \subseteq Pieces
  BY <1>i DEF TypeOK, Trackers
<1>h. \A b \in Peers : handler[b].piece \in Pieces
  BY <1>i DEF TypeOK, Handlers
<1>f. FinishedMeansHave
  BY CountersFromAccount
\* The steps that neither reopen the files nor fail.
<1>g. ASSUME UNCHANGED <<read_only, fatal, wanted>>, mode' = mode \/ mode' = "live",
             chunks.have \subseteq chunks'.have
      PROVE  FatalInv'
  BY <1>g DEF FatalInv, FatalOnlyWhenDone
<1>1. CASE pause
  <2>1. chunks' = PausedTracker /\ wanted' = chunks'.needed_pieces /\ fatal' = FALSE
        /\ read_only' = read_only
    BY <1>1 DEF pause, DropLiveState
  <2>2. chunks'.have = chunks.have /\ wanted' \subseteq wanted
    BY <2>1, <1>i, PausedTrackerFacts DEF OnlyWanted
  <2> QED BY <2>1, <2>2 DEF FatalInv, FatalOnlyWhenDone
<1>2. CASE unpause
  BY <1>2, <1>g DEF unpause
<1>3. CASE stop_with_error
  <2>1. chunks'.have = chunks.have
    BY <1>3, <1>i, PausedTrackerFacts DEF stop_with_error
  <2> QED BY <1>3, <2>1 DEF stop_with_error, DropLiveState, FatalInv, FatalOnlyWhenDone
<1>4. CASE restart
  <2>1. read_only' = FALSE /\ ~fatal'
    BY <1>4 DEF restart, FatalInv
  <2> QED BY <2>1 DEF FatalInv, FatalOnlyWhenDone
<1>5. ASSUME NEW a \in Peers, on_fatal_error(a)
      PROVE  FatalInv'
  BY <1>5 DEF on_fatal_error, AtStep, FatalInv, FatalOnlyWhenDone
<1>6. ASSUME NEW a \in Peers, finish_piece(a)
      PROVE  FatalInv'
  <2>1. mode = "live" /\ UNCHANGED <<mode, wanted, chunks, fatal>>
    BY <1>6 DEF finish_piece, AtStep
  <2>2. CASE is_finished
    <3>1. wanted \subseteq chunks.have
      BY <2>1, <2>2, <1>f DEF FinishedMeansHave
    <3> QED BY <2>1, <3>1 DEF FatalInv, FatalOnlyWhenDone
  <2>3. CASE ~is_finished
    BY <1>6, <2>1, <2>3, <1>g DEF finish_piece
  <2> QED BY <2>2, <2>3
<1>7. ASSUME NEW a \in Peers, mark_downloaded(a)
      PROVE  FatalInv'
  <2>1. chunks'.have = chunks.have \cup {handler[a].piece}
    BY <1>7, <1>h, <1>k, MarkPieceFacts DEF mark_downloaded
  <2> QED BY <1>7, <2>1, <1>g DEF mark_downloaded
<1>8. ASSUME NEW a \in Peers, on_peer_died(a)
      PROVE  FatalInv'
  BY <1>8, <1>g, <1>i, <1>k, CancelFacts DEF on_peer_died, TypeOK
<1>9. ASSUME NEW a \in Peers, NEW p \in Pieces, reserve_next_needed_piece(a, p)
      PROVE  FatalInv'
  BY <1>9, <1>g, <1>k, ReserveFacts DEF reserve_next_needed_piece
<1>10. ASSUME NEW a \in Peers, NEW c \in Chunks, NEW d \in Contents,
              on_received_piece(a, c, d)
       PROVE  FatalInv'
  <2>1. chunks' = chunks \/ chunks' = mark_chunk_downloaded(chunks, c)
    BY <1>10 DEF on_received_piece
  <2>2. chunks'.have = chunks.have
    BY <2>1, <1>k, MarkChunkFacts
  <2> QED BY <1>10, <1>g, <2>2 DEF on_received_piece
<1>11. ASSUME NEW a \in Peers, check_received_piece(a)
       PROVE  FatalInv'
  <2>1. \/ chunks' = chunks
        \/ chunks' = mark_pieces_broken_if_not_have(chunks, {handler[a].piece})
    BY <1>11 DEF check_received_piece
  <2>2. chunks'.have = chunks.have
    BY <2>1, <1>k, <1>h, BrokenFacts
  <2> QED BY <1>11, <1>g, <2>2 DEF check_received_piece
<1>12. ASSUME NEW a \in Peers,
              \/ requester_start(a) \/ acquire_permit(a)
              \/ no_pieces_to_request(a) \/ nothing_left_to_download(a)
              \/ set_peer_live(a)
              \/ \E p \in Pieces : try_steal_old_slow_piece(a, p)
              \/ on_bitfield(a) \/ \E p \in Pieces : on_have(a, p)
              \/ on_i_am_choked(a) \/ on_i_am_unchoked(a)
       PROVE  FatalInv'
  BY <1>12, <1>g
     DEF requester_start, acquire_permit, no_pieces_to_request,
           nothing_left_to_download, WantsPiece, PastUnchoke, set_peer_live,
         try_steal_old_slow_piece, on_bitfield, on_have, LearnPieces,
         on_i_am_choked, on_i_am_unchoked
<1>13. ASSUME NEW a \in Peers,
              \/ on_not_needed_peer_died(a) \/ write_chunk(a)
              \/ check_received_piece_fails(a) \/ count_piece(a)
       PROVE  FatalInv'
  BY <1>13, <1>g
     DEF on_not_needed_peer_died, write_chunk, check_received_piece_fails, count_piece
<1>14. CASE UNCHANGED vars
  BY <1>14, <1>g DEF vars
<1> QED
  BY <1>1, <1>2, <1>3, <1>4, <1>5, <1>6, <1>7, <1>8, <1>9, <1>10, <1>11, <1>12,
     <1>13, <1>14
     DEF Next, PeerStep, HandlerStep, Receive, Remote

\* The account of the bytes and the errors, in every state.
LEMMA FatalInvHolds == Spec => [](CountedOnce /\ FatalInv)
<1>1. Init => CountedOnce /\ FatalInv
  BY CountedInit DEF Init, FatalInv, FatalOnlyWhenDone
<1>2. IndInv /\ IndInv' /\ CountedOnce /\ FatalInv /\ [Next]_vars => CountedOnce' /\ FatalInv'
  BY CountedNext, FatalNext
<1> QED BY <1>1, <1>2, IndInvHolds, PTL DEF Spec

\* On a disk that works, a write can only fail on files that were reopened read-only,
\* and they are reopened only when every wanted piece has arrived.
THEOREM ErrorsOnlyAtTheEnd == Spec => []FatalOnlyWhenDone
<1>1. FatalInv => FatalOnlyWhenDone
  BY DEF FatalInv
<1> QED BY <1>1, FatalInvHolds, PTL

-----------------------------------------------------------------------------
(* No piece is forgotten *)

\* The requester of peer b, waiting for a permit, has recorded its request.
PermitAsked(b) == requester[b].st = "permit" =>
    <<requester[b].piece, requester[b].chunk>> \in inflight_requests[b]

\* Peer b will get every chunk of piece p that is not here yet.
Owns(b, p) ==
    /\ inflight_pieces[p] = b /\ live[b]
    /\ \A k \in 0..(NChunks[p] - 1) : <<p, k>> \in chunks.chunk_status \/ Covered(b, p, k)

\* What OwnerAsks says of a piece.
Accounted(p) ==
    /\ AllChunksSet(chunks, p) => p \in lost \/ \E a \in Peers : Verifying(a, p)
    /\ ~AllChunksSet(chunks, p) /\ p \notin chunks.needed_pieces => \E a \in Peers : Owns(a, p)

\* OwnerAsks is what holds of every missing piece and of every requester.
LEMMA OwnerAsksParts ==
    OwnerAsks <=> /\ \A p \in wanted \ chunks.have : Accounted(p)
                  /\ \A a \in Peers : PermitAsked(a)
BY DEF OwnerAsks, Accounted, Owns, PermitAsked

\* A live owner has a request open for its piece, which its death would cancel.
LEMMA OwnerHasRequest ==
    ASSUME TypeOK, NEW a \in Peers, NEW p \in Pieces, ~AllChunksSet(chunks, p),
           Owns(a, p), PermitAsked(a)
    PROVE  \E c \in inflight_requests[a] : c[1] = p
<1>1. PICK c \in chunk_range(p) : c \notin chunks.chunk_status
  BY DEF AllChunksSet
<1>2. PICK k \in 0..(NChunks[p] - 1) : c = <<p, k>>
  BY DEF chunk_range
<1>3. Covered(a, p, k)
  BY <1>1, <1>2 DEF Owns
<1>4. CASE <<p, k>> \in inflight_requests[a]
  BY <1>4
<1>5. CASE requester[a].st = "permit" /\ requester[a].piece = p
  BY <1>5 DEF PermitAsked
<1> QED BY <1>3, <1>4, <1>5 DEF Covered

\* After RequestChunks every chunk of the piece from number from on is requested or
\* about to be, what was covered for other pieces still is, and the request that waits
\* for a permit is recorded.
LEMMA RequestChunksCover ==
    ASSUME TypeOK, NEW a \in Peers, NEW p \in Pieces, NEW from \in Nat,
           RequestChunks(a, p, from)
    PROVE  /\ \A k \in from..(NChunks[p] - 1) : Covered(a, p, k)'
           /\ \A b \in Peers : inflight_requests[b] \subseteq inflight_requests'[b]
           /\ \A b \in Peers : b # a => /\ requester'[b] = requester[b]
                                        /\ inflight_requests'[b] = inflight_requests[b]
           /\ PermitAsked(a)'
<1> DEFINE new == {c \in iter_chunk_infos(p, from) : <<p, c>> \notin inflight_requests[a]}
<1>n. NChunks[p] \in Nat
  BY LengthsAssumption
<1>1. CASE new = {}
  <2>1. /\ requester' = [requester EXCEPT ![a] = AtRest("loop")]
        /\ UNCHANGED inflight_requests
    BY <1>1 DEF RequestChunks
  <2>2. \A k \in from..(NChunks[p] - 1) : <<p, k>> \in inflight_requests[a]
    BY <1>1 DEF iter_chunk_infos
  <2>3. requester'[a].st = "loop"
    BY <2>1 DEF TypeOK, AtRest
  <2> QED BY <2>1, <2>2, <2>3 DEF Covered, PermitAsked, TypeOK
<1>2. CASE new # {}
  <2>1. PICK c \in new :
          /\ \A d \in new : c <= d
          /\ inflight_requests' = [inflight_requests EXCEPT ![a] = @ \cup {<<p, c>>}]
          /\ requester' = [requester EXCEPT ![a] =
                              [st |-> "permit", piece |-> p, chunk |-> c]]
    BY <1>2 DEF RequestChunks
  <2>2. c \in Nat
    BY <1>n DEF iter_chunk_infos
  <2>3. /\ requester'[a].st = "permit" /\ requester'[a].piece = p /\ requester'[a].chunk = c
        /\ inflight_requests'[a] = inflight_requests[a] \cup {<<p, c>>}
        /\ \A b \in Peers : b # a => /\ requester'[b] = requester[b]
                                     /\ inflight_requests'[b] = inflight_requests[b]
    BY <2>1 DEF TypeOK
  <2>4. ASSUME NEW k \in from..(NChunks[p] - 1) PROVE Covered(a, p, k)'
    <3>1. CASE k \in new
      <4>1. c <= k /\ k \in Nat
        BY <2>1, <3>1, <1>n
      <4>2. CASE c = k
        BY <4>2, <2>3 DEF Covered
      <4>3. CASE c < k
        BY <4>3, <2>3 DEF Covered
      <4> QED BY <4>1, <4>2, <4>3, <2>2
    <3>2. CASE k \notin new
      <4>1. <<p, k>> \in inflight_requests[a]
        BY <3>2 DEF iter_chunk_infos
      <4> QED BY <4>1, <2>3 DEF Covered
    <3> QED BY <3>1, <3>2
  <2>5. PermitAsked(a)'
    BY <2>3 DEF PermitAsked
  <2>6. \A b \in Peers : inflight_requests[b] \subseteq inflight_requests'[b]
    BY <2>3
  <2> HIDE DEF new
  <2> QED BY <2>3, <2>4, <2>5, <2>6
<1> QED BY <1>1, <1>2

\* A paused torrent was paused, so that only a torrent never stopped is undisturbed.
ForgetInv ==
    /\ Undisturbed => OwnerAsks
    /\ mode = "paused" => stops > 0

\* A piece stays accounted for when its chunks, its place in the queue and its owner do.
LEMMA AccountedFrame ==
    ASSUME NEW p \in Pieces, Accounted(p), lost \subseteq lost',
           chunks'.chunk_status = chunks.chunk_status,
           p \in chunks.needed_pieces => p \in chunks'.needed_pieces,
           \A a \in Peers : Verifying(a, p) => Verifying(a, p)',
           \A a \in Peers : Owns(a, p) => Owns(a, p)'
    PROVE  Accounted(p)'
BY DEF Accounted, AllChunksSet

\* Every action of an undisturbed download keeps every missing piece accounted for.
LEMMA ForgetNext ==
    ASSUME IndInv, CountedOnce, FatalInv, ForgetInv, [Next]_vars
    PROVE  ForgetInv'
<1> USE DEF torrentVars, peerVars, diskVars, boundVars
<1>i. TypeOK /\ OnlyWanted /\ CompletedStaysSet /\ CompletedHandlers /\ OneVerifier
  BY DEF IndInv
<1>k. /\ chunks \in Trackers /\ chunks.have \subseteq Pieces /\ wanted \subseteq Pieces
      /\ stops \in Nat
  BY <1>i DEF TypeOK, Trackers
<1>h. \A b \in Peers : handler[b] \in Handlers /\ handler[b].piece \in Pieces
  BY <1>i DEF TypeOK, Handlers
<1>f. FinishedMeansHave
  BY CountersFromAccount
<1>1. CASE pause \/ stop_with_error \/ unpause \/ restart
  BY <1>1, <1>k DEF pause, stop_with_error, unpause, restart, ForgetInv, Undisturbed
\* The other steps are taken in the live state and leave mode and stops alone.
<1> DEFINE Quiet == mode = "live" /\ UNCHANGED <<mode, stops, wanted>> /\ (fatal => fatal')
                    /\ lost \subseteq lost'
<1>q. ASSUME Quiet,
             Undisturbed /\ (\A p \in wanted \ chunks.have : Accounted(p))
                 /\ (\A a \in Peers : PermitAsked(a)) =>
                 /\ \A p \in wanted \ chunks'.have : Accounted(p)'
                 /\ \A a \in Peers : PermitAsked(a)'
      PROVE  ForgetInv'
  <2>1. Undisturbed' => Undisturbed
    BY <1>q DEF Undisturbed
  <2>2. Undisturbed => /\ \A p \in wanted \ chunks.have : Accounted(p)
                       /\ \A a \in Peers : PermitAsked(a)
    BY OwnerAsksParts DEF ForgetInv
  <2>3. Undisturbed' => /\ \A p \in wanted' \ chunks'.have : Accounted(p)'
                        /\ \A a \in Peers : PermitAsked(a)'
    BY <1>q, <2>1, <2>2
  <2>4. Undisturbed' => OwnerAsks'
    BY <2>3, OwnerAsksParts DEF OwnerAsks, Accounted, Owns, PermitAsked
  <2> QED BY <1>q, <2>4 DEF ForgetInv
\* The steps that disturb neither a verification nor an owner.
<1>s. ASSUME Quiet,
             chunks'.chunk_status = chunks.chunk_status,
             chunks.have \subseteq chunks'.have,
             chunks.needed_pieces \subseteq chunks'.needed_pieces,
             \A b \in Peers : \A p \in wanted \ chunks'.have :
                /\ Verifying(b, p) => Verifying(b, p)'
                /\ Owns(b, p) => Owns(b, p)',
             \A b \in Peers : PermitAsked(b) => PermitAsked(b)'
      PROVE  ForgetInv'
  <2>1. ASSUME NEW p \in wanted \ chunks'.have, Accounted(p) PROVE Accounted(p)'
    <3>1. p \in Pieces
      BY <1>k
    <3> QED BY <2>1, <3>1, <1>s, AccountedFrame
  <2> QED BY <2>1, <1>s, <1>q
\* Dropping connections when nothing is missing.
<1>d. ASSUME NEW S, Quiet, DropLive(S), is_finished, UNCHANGED chunks
      PROVE  ForgetInv'
  <2>1. wanted \subseteq chunks.have
    BY <1>d, <1>f DEF FinishedMeansHave
  <2>2. \A b \in Peers : PermitAsked(b) => PermitAsked(b)'
    BY <1>d DEF DropLive, PermitAsked, AtRest
  <2> QED BY <1>d, <1>s, <2>1, <2>2
<1>2. ASSUME NEW a \in Peers, set_peer_live(a)
      PROVE  ForgetInv'
  <2>1. /\ Quiet /\ UNCHANGED <<chunks, inflight_pieces, handler>> /\ ~live[a]
        /\ \A b \in Peers : b # a => /\ live'[b] = live[b]
                                     /\ inflight_requests'[b] = inflight_requests[b]
                                     /\ requester'[b] = requester[b]
        /\ requester'[a].st = "bitfield"
    BY <1>2, <1>i DEF set_peer_live, TypeOK, AtRest
  <2>2. \A b \in Peers : \A p \in wanted \ chunks'.have : Owns(b, p) => Owns(b, p)'
    BY <2>1 DEF Owns, Covered
  <2>3. \A b \in Peers : \A p \in wanted \ chunks'.have : Verifying(b, p) => Verifying(b, p)'
    BY <2>1 DEF Verifying
  <2>4. \A b \in Peers : PermitAsked(b) => PermitAsked(b)'
    BY <2>1 DEF PermitAsked
  <2> QED BY <1>s, <2>1, <2>2, <2>3, <2>4
\* The messages that change neither the requests nor what the requester waits for.
<1>3. ASSUME NEW a \in Peers,
             \/ \E S \in SUBSET Pieces : LearnPieces(a, S)
             \/ on_i_am_choked(a) \/ on_i_am_unchoked(a)
             \/ no_pieces_to_request(a) \/ nothing_left_to_download(a)
             \/ requester_start(a) /\ ~(is_finished /\ has_full_torrent(a))
      PROVE  ForgetInv'
  <2>1. /\ Quiet /\ UNCHANGED <<chunks, inflight_pieces, handler, live, inflight_requests>>
    BY <1>3 DEF LearnPieces, on_i_am_choked, on_i_am_unchoked, no_pieces_to_request,
                nothing_left_to_download, WantsPiece, PastUnchoke, requester_start, AtAwait
  <2>2. \/ requester' = requester
        \/ requester' = [requester EXCEPT ![a] = Notified(@)]
        \/ /\ requester[a].st \in {"loop", "ready", "start"}
           /\ \E st \in {"loop", "ready", "forever"} :
                 requester' = [requester EXCEPT ![a] = AtRest(st)]
    BY <1>3 DEF LearnPieces, on_i_am_choked, on_i_am_unchoked, no_pieces_to_request,
                nothing_left_to_download, WantsPiece, PastUnchoke, requester_start
  <2>3. \A b \in Peers : /\ requester[b].st = "permit" => requester'[b] = requester[b]
                         /\ requester[b].st # "permit" => requester'[b].st # "permit"
    BY <2>2, <1>i DEF TypeOK, Notified, AtRest
  <2>4. \A b \in Peers : \A p \in wanted \ chunks'.have : Owns(b, p) => Owns(b, p)'
    BY <2>1, <2>3 DEF Owns, Covered
  <2>5. \A b \in Peers : \A p \in wanted \ chunks'.have : Verifying(b, p) => Verifying(b, p)'
    BY <2>1 DEF Verifying
  <2>6. \A b \in Peers : PermitAsked(b) => PermitAsked(b)'
    BY <2>1, <2>3 DEF PermitAsked
  <2> QED BY <1>s, <2>1, <2>4, <2>5, <2>6
<1>4. ASSUME NEW a \in Peers, requester_start(a)
      PROVE  ForgetInv'
  <2>1. CASE is_finished /\ has_full_torrent(a)
    BY <1>4, <2>1, <1>d DEF requester_start, AtAwait
  <2> QED BY <1>4, <2>1, <1>3
<1>5. ASSUME NEW a \in Peers, acquire_permit(a)
      PROVE  ForgetInv'
  <2>0. PICK p \in Pieces, c \in Nat : p = requester[a].piece /\ c = requester[a].chunk
    BY <1>i DEF TypeOK, Requesters
  <2>1. /\ Quiet /\ UNCHANGED <<chunks, inflight_pieces, handler, live>>
        /\ RequestChunks(a, p, c + 1)
        /\ requester[a].st = "permit"
    BY <1>5, <2>0 DEF acquire_permit, AtAwait
  <2>2. p \in Pieces /\ c \in Nat /\ c + 1 \in Nat
    OBVIOUS
  <2>3. /\ \A k \in (c + 1)..(NChunks[p] - 1) : Covered(a, p, k)'
        /\ \A b \in Peers : inflight_requests[b] \subseteq inflight_requests'[b]
        /\ \A b \in Peers : b # a => /\ requester'[b] = requester[b]
                                     /\ inflight_requests'[b] = inflight_requests[b]
        /\ PermitAsked(a)'
    BY <2>1, <2>2, <1>i, RequestChunksCover
  <2>4. ASSUME NEW b \in Peers, NEW q \in wanted \ chunks'.have,
               NEW k \in 0..(NChunks[q] - 1), Covered(b, q, k)
        PROVE  Covered(b, q, k)'
    <3>1. CASE <<q, k>> \in inflight_requests[b]
      BY <2>3, <3>1 DEF Covered
    <3>2. CASE b # a
      BY <2>3, <2>4, <3>2 DEF Covered
    <3>3. CASE b = a /\ <<q, k>> \notin inflight_requests[b]
      <4>1. q = p /\ c < k
        BY <2>0, <2>4, <3>3 DEF Covered
      <4>2. k \in (c + 1)..(NChunks[p] - 1)
        <5>1. NChunks[p] \in Nat
          BY <2>2, LengthsAssumption
        <5> QED BY <4>1, <2>2, <5>1
      <4> QED BY <2>3, <3>3, <4>1, <4>2
    <3> QED BY <3>1, <3>2, <3>3
  <2>5. \A b \in Peers : \A q \in wanted \ chunks'.have : Owns(b, q) => Owns(b, q)'
    BY <2>1, <2>4 DEF Owns
  <2>6. \A b \in Peers : \A q \in wanted \ chunks'.have : Verifying(b, q) => Verifying(b, q)'
    BY <2>1 DEF Verifying
  <2>7. \A b \in Peers : PermitAsked(b) => PermitAsked(b)'
    BY <2>3 DEF PermitAsked
  <2> QED BY <1>s, <2>1, <2>5, <2>6, <2>7
\* The steps of a handler, none of which touches a request.
<1>6. ASSUME NEW a \in Peers,
             \/ write_chunk(a) \/ check_received_piece(a) \/ mark_downloaded(a)
             \/ count_piece(a) \/ on_not_needed_peer_died(a)
             \/ finish_piece(a) /\ ~is_finished
      PROVE  ForgetInv'
  <2>1. /\ Quiet /\ UNCHANGED <<inflight_pieces, live, requester, inflight_requests>>
    BY <1>6 DEF write_chunk, check_received_piece, mark_downloaded, count_piece,
                on_not_needed_peer_died, finish_piece, AtStep
  <2>2. \/ chunks' = chunks
        \/ mark_downloaded(a) /\ chunks' = mark_piece_downloaded(chunks, handler[a].piece)
    BY <1>6 DEF write_chunk, check_received_piece, mark_downloaded, count_piece,
                on_not_needed_peer_died, finish_piece, check_piece
  <2>3. /\ chunks'.chunk_status = chunks.chunk_status
        /\ chunks.have \subseteq chunks'.have
        /\ chunks'.needed_pieces = chunks.needed_pieces
        /\ mark_downloaded(a) => handler[a].piece \in chunks'.have
    <3>1. CASE mark_downloaded(a)
      <4>1. chunks' = mark_piece_downloaded(chunks, handler[a].piece)
        BY <3>1 DEF mark_downloaded
      <4> QED BY <4>1, <1>k, <1>h, MarkPieceFacts
    <3>2. CASE ~mark_downloaded(a)
      BY <2>2, <3>2
    <3> QED BY <3>1, <3>2
  <2>4. \A b \in Peers : b # a => handler'[b] = handler[b]
    BY <1>6, <1>i DEF write_chunk, check_received_piece, mark_downloaded, count_piece,
                on_not_needed_peer_died, finish_piece, GoTo, TypeOK
  <2>5. ASSUME NEW p \in wanted \ chunks'.have, Verifying(a, p) PROVE Verifying(a, p)'
    <3>1. handler[a].completed /\ handler[a].st \in {"write", "check", "mark"} /\ handler[a].piece = p
      BY <2>5 DEF Verifying
    <3>2. ~mark_downloaded(a)
      BY <2>3, <2>5, <3>1
    <3>3. write_chunk(a) \/ check_received_piece(a)
      BY <1>6, <3>1, <3>2 DEF count_piece, on_not_needed_peer_died, finish_piece, AtStep
    <3>4. \E st \in {"check", "mark"} : handler' = [handler EXCEPT ![a].st = st]
      BY <3>1, <3>3 DEF write_chunk, check_received_piece, check_piece, GoTo
    <3>5. /\ handler'[a].st \in {"check", "mark"}
          /\ handler'[a].piece = p /\ handler'[a].completed
      BY <3>1, <3>4, <1>i, <1>h DEF TypeOK, Handlers
    <3> QED BY <3>5 DEF Verifying
  <2>6. \A b \in Peers : \A p \in wanted \ chunks'.have : Verifying(b, p) => Verifying(b, p)'
    BY <2>4, <2>5 DEF Verifying
  <2>7. \A b \in Peers : \A p \in wanted \ chunks'.have : Owns(b, p) => Owns(b, p)'
    BY <2>1, <2>3 DEF Owns, Covered
  <2>8. \A b \in Peers : PermitAsked(b) => PermitAsked(b)'
    BY <2>1 DEF PermitAsked
  <2> QED BY <1>s, <2>1, <2>3, <2>6, <2>7, <2>8
<1>7. ASSUME NEW a \in Peers, finish_piece(a)
      PROVE  ForgetInv'
  <2>1. CASE is_finished
    BY <1>7, <2>1, <1>d DEF finish_piece, AtStep
  <2> QED BY <1>7, <2>1, <1>6
\* A failed write disturbs the download; a failed read loses the piece.
<1>8. ASSUME NEW a \in Peers, on_fatal_error(a)
      PROVE  ForgetInv'
  BY <1>8 DEF on_fatal_error, AtStep, ForgetInv, Undisturbed
<1>14. ASSUME NEW a \in Peers, check_received_piece_fails(a)
       PROVE  ForgetInv'
  <2>1. /\ Quiet
        /\ UNCHANGED <<chunks, inflight_pieces, live, requester, inflight_requests>>
        /\ handler[a].piece \in lost'
        /\ GoTo(a, "failed")
    BY <1>14 DEF check_received_piece_fails, AtStep
  <2>2. \A b \in Peers : b # a => handler'[b] = handler[b]
    BY <2>1, <1>i DEF GoTo, TypeOK
  <2>3. \A b \in Peers, p \in Pieces : p # handler[a].piece =>
            (Verifying(b, p) => Verifying(b, p)')
    BY <2>2 DEF Verifying
  <2>4. \A b \in Peers, p \in Pieces : Owns(b, p) => Owns(b, p)'
    BY <2>1 DEF Owns, Covered
  <2>5. ASSUME NEW p \in wanted \ chunks'.have, Accounted(p) PROVE Accounted(p)'
    <3>1. p \in Pieces
      BY <1>k
    <3>2. CASE p = handler[a].piece
      BY <2>1, <2>4, <2>5, <3>1, <3>2 DEF Accounted, AllChunksSet
    <3>3. CASE p # handler[a].piece
      BY <2>1, <2>3, <2>4, <2>5, <3>1, <3>3, AccountedFrame
    <3> QED BY <3>2, <3>3
  <2>6. \A b \in Peers : PermitAsked(b) => PermitAsked(b)'
    BY <2>1 DEF PermitAsked
  <2> QED BY <1>q, <2>1, <2>5, <2>6
\* The steps that change owners: a death, a reservation, a theft.
<1>9. ASSUME NEW a \in Peers, on_peer_died(a)
      PROVE  ForgetInv'
  <2>1. /\ Quiet /\ UNCHANGED inflight_pieces
        /\ chunks' = mark_chunk_requests_cancelled(chunks, inflight_requests[a])
        /\ handler' = [handler EXCEPT ![a] = Idle]
        /\ handler[a].st \in {"failed", "idle"}
        /\ DropLive({a})
    BY <1>9 DEF on_peer_died
  <2>2. inflight_requests[a] \in SUBSET Chunks
    BY <1>i DEF TypeOK
  <2>3. /\ chunks'.have = chunks.have
        /\ chunks'.chunk_status = chunks.chunk_status
        /\ chunks.needed_pieces \subseteq chunks'.needed_pieces
        /\ \A p \in Pieces : (\E c \in inflight_requests[a] : c[1] = p)
                 /\ p \notin chunks.have /\ ~AllChunksSet(chunks, p)
               => p \in chunks'.needed_pieces
    BY <2>1, <2>2, <1>k, CancelFacts
  <2>4. /\ requester'[a].st = "bitfield"
        /\ \A b \in Peers : b # a => /\ handler'[b] = handler[b] /\ live'[b] = live[b]
                                     /\ requester'[b] = requester[b]
                                     /\ inflight_requests'[b] = inflight_requests[b]
    <3>1. \A b \in Peers : b # a => live'[b] = live[b]
      BY <2>1, <1>i DEF DropLive, TypeOK
    <3> QED BY <2>1, <3>1, <1>i DEF DropLive, TypeOK, AtRest
  <2>5. \A b \in Peers, p \in Pieces : Verifying(b, p) => Verifying(b, p)'
    BY <2>1, <2>4 DEF Verifying
  <2>6. \A b \in Peers : PermitAsked(b) => PermitAsked(b)'
    BY <2>4 DEF PermitAsked
  <2>7. ASSUME NEW p \in wanted \ chunks'.have, Accounted(p), PermitAsked(a)
        PROVE  Accounted(p)'
    <3>1. p \in Pieces /\ p \notin chunks.have
      BY <2>3, <1>k
    <3>2. CASE ~AllChunksSet(chunks, p) /\ Owns(a, p)
      <4>1. p \in chunks'.needed_pieces
        BY <3>1, <3>2, <2>3, <2>7, <1>i, OwnerHasRequest
      <4> QED BY <4>1, <3>2, <2>3 DEF Accounted, AllChunksSet
    <3>3. CASE AllChunksSet(chunks, p)
      BY <2>1, <2>3, <2>5, <2>7, <3>1, <3>3 DEF Accounted, AllChunksSet
    <3>4. CASE ~AllChunksSet(chunks, p) /\ ~Owns(a, p)
      <4>1. \A b \in Peers : Owns(b, p) => Owns(b, p)'
        BY <2>1, <2>3, <2>4, <3>4 DEF Owns, Covered
      <4> QED BY <2>1, <2>3, <2>5, <2>7, <3>1, <4>1, AccountedFrame
    <3> QED BY <3>2, <3>3, <3>4
  <2> QED BY <1>q, <2>1, <2>3, <2>6, <2>7
<1>10. ASSUME NEW a \in Peers, NEW p \in Pieces,
              reserve_next_needed_piece(a, p) \/ try_steal_old_slow_piece(a, p)
       PROVE  ForgetInv'
  <2>1. /\ Quiet /\ UNCHANGED <<handler, live>> /\ live[a] /\ requester[a].st # "permit"
        /\ inflight_pieces' = [inflight_pieces EXCEPT ![p] = a]
        /\ RequestChunks(a, p, 0)
    BY <1>10 DEF reserve_next_needed_piece, try_steal_old_slow_piece, WantsPiece, PastUnchoke, AtAwait
  <2>2. /\ chunks'.have = chunks.have
        /\ chunks'.chunk_status = chunks.chunk_status
        /\ chunks.needed_pieces \ {p} \subseteq chunks'.needed_pieces
    <3>1. CASE reserve_next_needed_piece(a, p)
      BY <3>1, <1>k, ReserveFacts DEF reserve_next_needed_piece
    <3>2. CASE try_steal_old_slow_piece(a, p)
      BY <3>2 DEF try_steal_old_slow_piece
    <3> QED BY <1>10, <3>1, <3>2
  <2>3. /\ \A k \in 0..(NChunks[p] - 1) : Covered(a, p, k)'
        /\ \A b \in Peers : inflight_requests[b] \subseteq inflight_requests'[b]
        /\ \A b \in Peers : b # a => /\ requester'[b] = requester[b]
                                     /\ inflight_requests'[b] = inflight_requests[b]
        /\ PermitAsked(a)'
    BY <2>1, <1>i, RequestChunksCover
  <2>4. /\ inflight_pieces'[p] = a
        /\ \A q \in Pieces : q # p => inflight_pieces'[q] = inflight_pieces[q]
    BY <2>1, <1>i DEF TypeOK
  <2>5. Owns(a, p)'
    BY <2>1, <2>3, <2>4 DEF Owns
  <2>6. \A b \in Peers, q \in Pieces : \A k : Covered(b, q, k) => Covered(b, q, k)'
    BY <2>1, <2>3 DEF Covered
  <2>7. \A b \in Peers, q \in Pieces : q # p /\ Owns(b, q) => Owns(b, q)'
    BY <2>1, <2>2, <2>4, <2>6 DEF Owns
  <2>8. \A b \in Peers, q \in Pieces : Verifying(b, q) => Verifying(b, q)'
    BY <2>1 DEF Verifying
  <2>9. \A b \in Peers : PermitAsked(b) => PermitAsked(b)'
    BY <2>3 DEF PermitAsked
  <2>10. ASSUME NEW q \in wanted \ chunks'.have, Accounted(q)
         PROVE  Accounted(q)'
    <3>1. q \in Pieces
      BY <1>k
    <3>2. CASE q = p
      BY <2>1, <2>2, <2>5, <2>8, <2>10, <3>1, <3>2 DEF Accounted, AllChunksSet
    <3>3. CASE q # p
      BY <2>1, <2>2, <2>7, <2>8, <2>10, <3>1, <3>3, AccountedFrame
    <3> QED BY <3>2, <3>3
  <2> QED BY <1>q, <2>1, <2>2, <2>9, <2>10
\* A chunk arrives: it is not the one whose request still waits for a permit.
<1>11. ASSUME NEW a \in Peers, NEW c \in Chunks, NEW d \in Contents,
              on_received_piece(a, c, d)
       PROVE  ForgetInv'
  <2> DEFINE p == c[1]
             result == ChunkMarkingResult(chunks, c)
  <2>1. /\ Quiet /\ UNCHANGED <<requester, live>>
        /\ inflight_requests' = [inflight_requests EXCEPT ![a] = @ \ {c}]
        /\ handler[a].st = "idle"
        /\ OnlyAnswers => c \in SentRequests(a)
    BY <1>11 DEF on_received_piece, AtAwait
  <2>2. /\ inflight_requests'[a] = inflight_requests[a] \ {c}
        /\ \A b \in Peers : b # a => inflight_requests'[b] = inflight_requests[b]
    BY <2>1, <1>i DEF TypeOK
  <2>3. p \in Pieces
    BY ChunkFacts
  <2>4. ASSUME Undisturbed, NEW b \in Peers, PermitAsked(b) PROVE PermitAsked(b)'
    BY <2>1, <2>2, <2>4 DEF PermitAsked, SentRequests, Undisturbed
  <2>5. ASSUME NEW b \in Peers, NEW q \in Pieces, NEW k, Covered(b, q, k), <<q, k>> # c \/ b # a
        PROVE  Covered(b, q, k)'
    BY <2>1, <2>2, <2>5 DEF Covered
  <2>6. ASSUME NEW q \in Pieces, q # p, NEW k PROVE <<q, k>> # c
    BY <2>6
  <2>7. CASE inflight_pieces[p] # a \/ result = "PreviouslyCompleted"
    <3>1. UNCHANGED <<chunks, inflight_pieces, handler>>
      BY <1>11, <2>7 DEF on_received_piece
    <3>2. result = "PreviouslyCompleted" => AllChunksSet(chunks, p)
      BY DEF ChunkMarkingResult
    <3> HIDE DEF p, result
    <3>3. ASSUME NEW q \in Pieces, ~AllChunksSet(chunks, q), NEW b \in Peers, Owns(b, q)
          PROVE  Owns(b, q)'
      <4>1. q # p \/ b # a
        BY <2>7, <3>2, <3>3 DEF Owns
      <4>2. \A k : Covered(b, q, k) => Covered(b, q, k)'
        BY <4>1, <2>5, <2>6
      <4> QED BY <2>1, <3>1, <3>3, <4>2 DEF Owns
    <3>4. \A b \in Peers, q \in Pieces : Verifying(b, q) => Verifying(b, q)'
      BY <3>1 DEF Verifying
    <3>5. \A q \in wanted \ chunks'.have : Accounted(q) => Accounted(q)'
      BY <1>k, <2>1, <3>1, <3>3, <3>4 DEF Accounted, AllChunksSet
    <3> QED BY <1>q, <2>1, <2>4, <3>1, <3>5
  <2>8. CASE inflight_pieces[p] = a /\ result # "PreviouslyCompleted"
    <3>1. /\ chunks' = mark_chunk_downloaded(chunks, c)
          /\ inflight_pieces' = IF result = "Completed"
                                  THEN [inflight_pieces EXCEPT ![p] = NoPeer]
                                  ELSE inflight_pieces
          /\ handler' = [handler EXCEPT ![a] =
                [st |-> "write", piece |-> p, chunk |-> c[2],
                 completed |-> result = "Completed", data |-> d]]
      BY <1>11, <2>8 DEF on_received_piece
    <3>2. /\ chunks'.have = chunks.have
          /\ chunks'.needed_pieces = chunks.needed_pieces
          /\ chunks'.chunk_status = chunks.chunk_status \cup {c}
      BY <3>1, <1>k, MarkChunkFacts
    <3>3. /\ handler'[a].st = "write" /\ handler'[a].piece = p
          /\ handler'[a].completed = (result = "Completed")
          /\ \A b \in Peers : b # a => handler'[b] = handler[b]
      BY <3>1, <1>i DEF TypeOK
    <3>4. \A b \in Peers, q \in Pieces : Verifying(b, q) => Verifying(b, q)'
      BY <2>1, <3>3 DEF Verifying
    <3>5. \A q \in Pieces : q # p => /\ inflight_pieces'[q] = inflight_pieces[q]
                                     /\ AllChunksSet(chunks', q) <=> AllChunksSet(chunks, q)
      <4>1. \A q \in Pieces : q # p => c \notin chunk_range(q)
        BY ChunkFacts
      <4> QED BY <3>1, <3>2, <4>1, <1>i DEF TypeOK, AllChunksSet
    <3>6. /\ ~AllChunksSet(chunks, p)
          /\ result = "Completed" <=> AllChunksSet(chunks', p)
      BY <2>8, <3>2 DEF ChunkMarkingResult, AllChunksSet
    <3>7. result # "Completed" => inflight_pieces' = inflight_pieces
      BY <3>1
    <3> HIDE DEF p, result
    <3>8. ASSUME NEW q \in Pieces, q # p \/ result # "Completed", NEW b \in Peers, Owns(b, q)
          PROVE  Owns(b, q)'
      <4>1. inflight_pieces'[q] = b /\ live'[b]
        BY <2>1, <3>5, <3>7, <3>8 DEF Owns
      <4>2. ASSUME NEW k \in 0..(NChunks[q] - 1)
            PROVE  <<q, k>> \in chunks'.chunk_status \/ Covered(b, q, k)'
        <5>1. CASE <<q, k>> = c
          BY <5>1, <3>2
        <5>2. CASE <<q, k>> # c
          BY <5>2, <3>2, <3>8, <2>5 DEF Owns
        <5> QED BY <5>1, <5>2
      <4> QED BY <4>1, <4>2 DEF Owns
    <3>9. ASSUME NEW q \in wanted \ chunks'.have, Accounted(q)
          PROVE  Accounted(q)'
      <4>0. q \in Pieces
        BY <1>k
      <4>1. CASE q = p /\ result = "Completed"
        <5>1. Verifying(a, p)'
          BY <3>3, <4>1 DEF Verifying
        <5> QED BY <4>1, <5>1, <3>6 DEF Accounted, AllChunksSet
      <4>2. CASE q = p /\ result # "Completed"
        BY <2>1, <4>0, <4>2, <3>2, <3>6, <3>8, <3>9 DEF Accounted, AllChunksSet
      <4>3. CASE q # p
        BY <2>1, <4>0, <4>3, <3>2, <3>4, <3>5, <3>8, <3>9 DEF Accounted, AllChunksSet
      <4> QED BY <4>1, <4>2, <4>3
    <3> QED BY <1>q, <2>1, <2>4, <3>2, <3>9
  <2> QED BY <2>7, <2>8
<1>12. CASE UNCHANGED vars
  <2>1. Undisturbed' = Undisturbed /\ OwnerAsks' = OwnerAsks
    BY <1>12 DEF vars, Undisturbed, OwnerAsks, AllChunksSet, Covered, Verifying
  <2> QED BY <1>12, <2>1 DEF vars, ForgetInv
<1>13. ASSUME NEW a \in Peers, on_bitfield(a) \/ \E p \in Pieces : on_have(a, p)
       PROVE  ForgetInv'
  <2>1. bitfield[a] \in SUBSET Pieces /\ RemotePieces[a] \in SUBSET Pieces
    BY <1>i, LiveAssumption DEF TypeOK
  <2>2. \E S \in SUBSET Pieces : LearnPieces(a, S)
    BY <1>13, <2>1 DEF on_bitfield, on_have
  <2> QED BY <2>2, <1>3
<1> HIDE DEF Quiet
<1> QED
  BY <1>1, <1>2, <1>3, <1>4, <1>5, <1>6, <1>7, <1>8, <1>9, <1>10, <1>11, <1>12, <1>13,
     <1>14
     DEF Next, PeerStep, HandlerStep, Receive, Remote

\* A new live state has every missing piece in the queue.
LEMMA ForgetInit ==
    ASSUME Init
    PROVE  ForgetInv
<1>1. PICK old \in SUBSET Pieces :
        /\ chunks = NewTracker(Selected \ old, old)
        /\ wanted = Selected \ old
  BY DEF Init
<1>2. chunks.needed_pieces = wanted /\ chunks.chunk_status = compute_chunk_status(wanted)
  BY <1>1 DEF NewTracker
<1>3. ASSUME NEW p \in wanted PROVE ~AllChunksSet(chunks, p)
  <2>1. p \in Pieces
    BY <1>1, LiveAssumption
  <2>2. <<p, 0>> \in chunk_range(p)
    BY <2>1, LengthsAssumption DEF chunk_range
  <2>3. <<p, 0>> \notin compute_chunk_status(wanted)
    BY <1>3, ChunkFacts DEF compute_chunk_status
  <2> QED BY <1>2, <2>2, <2>3 DEF AllChunksSet
<1>4. \A a \in Peers : requester[a].st # "permit"
  BY DEF Init, NoPeersInit, AtRest
<1>5. OwnerAsks
  BY <1>2, <1>3, <1>4 DEF OwnerAsks
<1>6. mode = "live"
  BY DEF Init
<1> QED BY <1>5, <1>6 DEF ForgetInv

\* Chunk c is in the files, or a handler is about to write it.
Landed(c) ==
    \/ disk[c] # "none"
    \/ \E b \in Peers : /\ handler[b].st = "write"
                        /\ <<handler[b].piece, handler[b].chunk>> = c

\* A marked chunk has landed; what could not be read back from a disk that works
\* reaches into a file that was not sized.
PendingInv ==
    /\ Undisturbed => WrittenOrPending
    /\ ~DiskFaults => \A p \in lost : chunk_range(p) \cap Unsized # {}

\* A handler that marks a chunk is the one that writes it, and does so before anything
\* else.
LEMMA PendingNext ==
    ASSUME IndInv, ForgetInv, PendingInv, [Next]_vars
    PROVE  PendingInv'
<1> USE DEF torrentVars, peerVars, diskVars, boundVars
<1>i. TypeOK
  BY DEF IndInv
<1>k. chunks \in Trackers /\ chunks.have \subseteq Pieces /\ stops \in Nat
  BY <1>i DEF TypeOK, Trackers
<1>h. \A b \in Peers : handler[b] \in Handlers /\ handler[b].piece \in Pieces
  BY <1>i DEF TypeOK, Handlers
<1>1. CASE pause \/ stop_with_error \/ unpause \/ restart
  <2>1. ~Undisturbed'
    BY <1>1, <1>k DEF pause, stop_with_error, unpause, restart, ForgetInv, Undisturbed
  <2>2. lost' \subseteq lost
    BY <1>1 DEF pause, stop_with_error, unpause, restart
  <2> QED BY <2>1, <2>2 DEF PendingInv
\* The other steps are taken in the live state.
<1> DEFINE Running == mode = "live" /\ UNCHANGED <<mode, stops, wanted>>
                      /\ chunks.have \subseteq chunks'.have
<1>q. ASSUME Running, UNCHANGED lost, fatal => fatal',
             \A c \in Chunks : c \in chunks'.chunk_status =>
                \/ c \in chunks.chunk_status /\ (Landed(c) => Landed(c)')
                \/ Landed(c)'
      PROVE  PendingInv'
  <2>1. Undisturbed' => Undisturbed
    BY <1>q DEF Undisturbed
  <2>2. ASSUME Undisturbed, NEW p \in wanted' \ chunks'.have,
               NEW c \in chunk_range(p) \cap chunks'.chunk_status
        PROVE  Landed(c)'
    <3>1. p \in Pieces /\ p \in wanted \ chunks.have
      BY <1>q, <1>i DEF TypeOK
    <3>2. c \in Chunks
      BY <3>1 DEF Chunks
    <3>3. c \in chunks.chunk_status => Landed(c)
      BY <2>2, <3>1 DEF PendingInv, WrittenOrPending, Landed
    <3> QED BY <1>q, <3>2, <3>3
  <2>3. Undisturbed' => WrittenOrPending'
    BY <2>1, <2>2 DEF WrittenOrPending, Landed
  <2> QED BY <1>q, <2>3 DEF PendingInv
\* The steps that leave the chunk bits, the files and every pending write alone.
<1>s. ASSUME Running, fatal => fatal',
             UNCHANGED disk, chunks'.chunk_status = chunks.chunk_status,
             \A b \in Peers : handler[b].st = "write" => handler'[b] = handler[b]
      PROVE  \A c \in Chunks : c \in chunks'.chunk_status =>
                c \in chunks.chunk_status /\ (Landed(c) => Landed(c)')
  BY <1>s DEF Landed
<1>2. ASSUME NEW a \in Peers,
             \/ requester_start(a) \/ acquire_permit(a)
             \/ no_pieces_to_request(a) \/ nothing_left_to_download(a)
             \/ set_peer_live(a)
             \/ on_bitfield(a) \/ \E p \in Pieces : on_have(a, p)
             \/ on_i_am_choked(a) \/ on_i_am_unchoked(a)
             \/ \E p \in Pieces : try_steal_old_slow_piece(a, p)
      PROVE  PendingInv'
  <2>1. Running /\ UNCHANGED <<lost, fatal, disk, chunks, handler>>
    BY <1>2
       DEF requester_start, acquire_permit, no_pieces_to_request, nothing_left_to_download,
           WantsPiece, PastUnchoke, set_peer_live, on_bitfield, on_have, LearnPieces,
           on_i_am_choked, on_i_am_unchoked, try_steal_old_slow_piece, AtAwait
  <2> HIDE DEF Running
  <2> QED BY <2>1, <1>q, <1>s
<1>3. ASSUME NEW a \in Peers, NEW p \in Pieces, reserve_next_needed_piece(a, p)
      PROVE  PendingInv'
  <2>1. /\ mode = "live" /\ UNCHANGED <<mode, stops, wanted, lost, fatal, disk, handler>>
        /\ chunks' = reserve_needed_piece(chunks, p)
    BY <1>3 DEF reserve_next_needed_piece, WantsPiece, PastUnchoke, AtAwait
  <2>2. chunks'.have = chunks.have /\ chunks'.chunk_status = chunks.chunk_status
    BY <2>1, <1>k, ReserveFacts
  <2> QED BY <2>1, <2>2, <1>q, <1>s
<1>4. ASSUME NEW a \in Peers, on_peer_died(a)
      PROVE  PendingInv'
  <2>1. /\ mode = "live" /\ UNCHANGED <<mode, stops, wanted, lost, fatal, disk>>
        /\ chunks' = mark_chunk_requests_cancelled(chunks, inflight_requests[a])
        /\ handler' = [handler EXCEPT ![a] = Idle]
        /\ handler[a].st # "write"
    BY <1>4 DEF on_peer_died
  <2>2. chunks'.have = chunks.have /\ chunks'.chunk_status = chunks.chunk_status
    BY <2>1, <1>i, <1>k, CancelFacts DEF TypeOK
  <2>3. \A b \in Peers : handler[b].st = "write" => handler'[b] = handler[b]
    BY <2>1, <1>i DEF TypeOK
  <2> QED BY <2>1, <2>2, <2>3, <1>q, <1>s
<1>5. ASSUME NEW a \in Peers,
             \/ check_received_piece(a) \/ mark_downloaded(a) \/ count_piece(a)
             \/ finish_piece(a) \/ on_not_needed_peer_died(a)
      PROVE  PendingInv'
  <2>1. /\ mode = "live" /\ UNCHANGED <<mode, stops, wanted, lost, fatal, disk>>
        /\ chunks' \in {chunks, mark_piece_downloaded(chunks, handler[a].piece)}
        /\ handler[a].st # "write"
    BY <1>5 DEF check_received_piece, check_piece, mark_downloaded, count_piece,
                finish_piece, on_not_needed_peer_died, AtStep
  <2>2. chunks.have \subseteq chunks'.have /\ chunks'.chunk_status = chunks.chunk_status
    BY <2>1, <1>h, <1>k, MarkPieceFacts
  <2>3. \A b \in Peers : b # a => handler'[b] = handler[b]
    BY <1>5, <1>i DEF check_received_piece, mark_downloaded, count_piece, finish_piece,
                      on_not_needed_peer_died, GoTo, TypeOK
  <2> QED BY <2>1, <2>2, <2>3, <1>q, <1>s
\* A piece that cannot be read back from a disk that works has an unsized chunk.
<1>6. ASSUME NEW a \in Peers, check_received_piece_fails(a)
      PROVE  PendingInv'
  <2>1. /\ mode = "live" /\ UNCHANGED <<mode, stops, wanted, fatal, disk, chunks>>
        /\ lost' = lost \cup {handler[a].piece}
        /\ DiskFaults \/ Unreadable(handler[a].piece)
        /\ handler[a].st # "write" /\ GoTo(a, "failed")
    BY <1>6 DEF check_received_piece_fails, AtStep
  <2>2. \A b \in Peers : handler[b].st = "write" => handler'[b] = handler[b]
    BY <2>1, <1>i DEF GoTo, TypeOK
  <2>3. ~DiskFaults => \A p \in lost' : chunk_range(p) \cap Unsized # {}
    BY <2>1 DEF PendingInv, Unreadable
  <2>4. \A c : Landed(c) => Landed(c)'
    BY <2>1, <2>2 DEF Landed
  <2>5. Undisturbed' => Undisturbed
    BY <2>1 DEF Undisturbed
  <2>6. Undisturbed' => WrittenOrPending'
    BY <2>1, <2>4, <2>5 DEF PendingInv, WrittenOrPending, Landed
  <2> QED BY <2>3, <2>6 DEF PendingInv
<1>7. ASSUME NEW a \in Peers, on_fatal_error(a)
      PROVE  PendingInv'
  BY <1>7 DEF on_fatal_error, PendingInv, Undisturbed
<1>8. ASSUME NEW a \in Peers, write_chunk(a)
      PROVE  PendingInv'
  <2> DEFINE w == <<handler[a].piece, handler[a].chunk>>
  <2>1. /\ mode = "live" /\ UNCHANGED <<mode, stops, wanted, lost, fatal, chunks>>
        /\ disk' = [disk EXCEPT ![w] = handler[a].data]
    BY <1>8 DEF write_chunk, AtStep
  <2>2. \A b \in Peers : b # a => handler'[b] = handler[b]
    BY <1>8, <1>i DEF write_chunk, TypeOK
  <2>3. handler[a].data # "none"
    BY <1>h DEF Handlers
  <2> HIDE DEF w
  <2>4. ASSUME NEW c \in Chunks, Landed(c) PROVE Landed(c)'
    <3>1. CASE c = w
      BY <2>1, <2>3, <3>1, <1>i DEF TypeOK, Landed
    <3>2. CASE c # w
      <4>1. disk'[c] = disk[c]
        BY <2>1, <3>2, <1>i DEF TypeOK
      <4> QED BY <2>2, <2>4, <3>2, <4>1 DEF Landed, w
    <3> QED BY <3>1, <3>2
  <2> QED BY <2>1, <2>4, <1>q
<1>9. ASSUME NEW a \in Peers, NEW c \in Chunks, NEW d \in Contents,
             on_received_piece(a, c, d)
      PROVE  PendingInv'
  <2>1. /\ mode = "live" /\ UNCHANGED <<mode, stops, wanted, lost, fatal, disk>>
        /\ handler[a].st = "idle"
        /\ \/ UNCHANGED <<chunks, handler>>
           \/ /\ chunks' = mark_chunk_downloaded(chunks, c)
              /\ \E f : handler' = [handler EXCEPT ![a] =
                    [st |-> "write", piece |-> c[1], chunk |-> c[2],
                     completed |-> f, data |-> d]]
    BY <1>9 DEF on_received_piece, AtAwait
  <2>2. CASE UNCHANGED <<chunks, handler>>
    BY <2>1, <2>2, <1>q, <1>s
  <2>3. CASE ~UNCHANGED <<chunks, handler>>
    <3>1. chunks'.have = chunks.have /\ chunks'.chunk_status = chunks.chunk_status \cup {c}
      BY <2>1, <2>3, <1>k, MarkChunkFacts
    <3>2. /\ handler'[a].st = "write" /\ handler'[a].piece = c[1] /\ handler'[a].chunk = c[2]
          /\ \A b \in Peers : b # a => handler'[b] = handler[b]
      BY <2>1, <2>3, <1>i DEF TypeOK
    <3>3. <<c[1], c[2]>> = c
      BY ChunkFacts DEF Chunks, chunk_range
    <3>4. Landed(c)'
      BY <3>2, <3>3 DEF Landed
    <3>5. \A e \in Chunks : Landed(e) => Landed(e)'
      BY <2>1, <3>2 DEF Landed
    <3> QED BY <2>1, <3>1, <3>4, <3>5, <1>q
  <2> QED BY <2>2, <2>3
<1>10. CASE UNCHANGED vars
  <2>1. UNCHANGED <<mode, stops, wanted, fatal, lost, disk, chunks, handler>>
    BY <1>10 DEF vars
  <2> QED BY <2>1 DEF PendingInv, Undisturbed, WrittenOrPending
<1> HIDE DEF Running
<1> QED
  BY <1>1, <1>2, <1>3, <1>4, <1>5, <1>6, <1>7, <1>8, <1>9, <1>10
     DEF Next, PeerStep, HandlerStep, Receive, Remote

\* A new live state has no chunk of a missing piece marked.
LEMMA PendingInit ==
    ASSUME Init
    PROVE  PendingInv
<1>1. PICK old \in SUBSET Pieces :
        /\ chunks = NewTracker(Selected \ old, old)
        /\ wanted = Selected \ old
  BY DEF Init
<1>2. chunks.chunk_status = compute_chunk_status(wanted) /\ wanted \subseteq Pieces
  BY <1>1, LiveAssumption DEF NewTracker
<1>3. ASSUME NEW p \in wanted, NEW c \in chunk_range(p) PROVE c \notin chunks.chunk_status
  BY <1>2, <1>3, ChunkFacts DEF compute_chunk_status
<1>4. lost = {}
  BY DEF Init
<1> QED BY <1>3, <1>4 DEF PendingInv, WrittenOrPending

\* Whatever peers steal from each other and whenever they die, a missing piece is
\* queued, being verified, or owned by a live peer with a request for it, unless it
\* could not be read back; and while a piece is read back, all of it is in the files
\* but for what another handler is about to write.
THEOREM PiecesAreNotForgotten == Spec => []NoPieceForgotten
<1>1. Init => ForgetInv /\ PendingInv
  BY ForgetInit, PendingInit
<1>2. IndInv /\ CountedOnce /\ FatalInv /\ ForgetInv /\ PendingInv /\ [Next]_vars
        => ForgetInv' /\ PendingInv'
  BY ForgetNext, PendingNext
<1>3. ASSUME IndInv, ForgetInv, PendingInv PROVE NoPieceForgotten
  <2> SUFFICES ASSUME Undisturbed, NEW p \in wanted \ (chunks.have \cup lost)
               PROVE  \/ p \in chunks.needed_pieces
                      \/ \E a \in Peers : Verifying(a, p)
                      \/ \E a \in Peers : /\ inflight_pieces[p] = a
                                          /\ live[a]
                                          /\ \E c \in inflight_requests[a] : c[1] = p
    BY <1>3 DEF NoPieceForgotten, ForgetInv, PendingInv
  <2>1. Accounted(p) /\ \A a \in Peers : PermitAsked(a)
    BY <1>3, OwnerAsksParts DEF ForgetInv
  <2>2. TypeOK /\ p \in Pieces
    BY <1>3 DEF IndInv, TypeOK
  <2>3. ASSUME NEW a \in Peers, ~AllChunksSet(chunks, p), Owns(a, p)
        PROVE  /\ inflight_pieces[p] = a /\ live[a]
               /\ \E c \in inflight_requests[a] : c[1] = p
    <3>1. \E c \in inflight_requests[a] : c[1] = p
      BY <2>1, <2>2, <2>3, OwnerHasRequest
    <3> QED BY <2>3, <3>1 DEF Owns
  <2> QED BY <2>1, <2>3 DEF Accounted
<1>4. IndInv /\ ForgetInv /\ PendingInv => NoPieceForgotten
  BY <1>3
<1> QED BY <1>1, <1>2, <1>4, IndInvHolds, FatalInvHolds, PTL DEF Spec

-----------------------------------------------------------------------------
(* What a pause keeps *)

\* Piece p is queued, here, reserved, being verified or known to be lost.
Placed(p) ==
    \/ p \in chunks.needed_pieces \cup chunks.have
    \/ inflight_pieces[p] # NoPeer
    \/ p \in lost
    \/ \E a \in Peers : Verifying(a, p)

\* Until a write fails, every wanted piece has a place while the torrent is live, and a
\* paused torrent wants what is queued.
PlacedInv ==
    /\ ~fatal /\ mode = "live" => \A p \in wanted : Placed(p)
    /\ mode = "paused" => wanted = chunks.needed_pieces

\* Every action keeps every piece in one of its places.
LEMMA PlacedNext ==
    ASSUME IndInv, PlacedInv, [Next]_vars
    PROVE  PlacedInv'
<1> USE DEF torrentVars, peerVars, diskVars, boundVars
<1>i. TypeOK /\ OnlyWanted /\ CompletedStaysSet
  BY DEF IndInv
<1>k. chunks \in Trackers /\ chunks.have \subseteq Pieces /\ wanted \subseteq Pieces
  BY <1>i DEF TypeOK, Trackers
<1>h. \A b \in Peers : handler[b] \in Handlers /\ handler[b].piece \in Pieces
  BY <1>i DEF TypeOK, Handlers
<1>1. CASE pause \/ stop_with_error
  BY <1>1 DEF pause, stop_with_error, PlacedInv
<1>2. CASE unpause
  BY <1>2 DEF unpause, PlacedInv, Placed
<1>3. CASE restart
  <2> DEFINE found == {p \in Pieces : HashMatches(p)}
  <2>1. /\ mode' = "live" /\ wanted' = Selected \ found
        /\ chunks' = NewTracker(Selected \ found, found)
    BY <1>3 DEF restart
  <2>2. chunks'.needed_pieces = wanted'
    BY <2>1 DEF NewTracker
  <2> HIDE DEF found
  <2> QED BY <2>1, <2>2 DEF PlacedInv, Placed
\* The other steps are taken in the live state and change what is wanted in no way.
<1>q. ASSUME mode = "live", UNCHANGED <<mode, wanted>>, fatal => fatal',
             ~fatal' => \A p \in wanted : Placed(p) => Placed(p)'
      PROVE  PlacedInv'
  BY <1>q DEF PlacedInv
<1>4. ASSUME NEW a \in Peers, NEW p \in Pieces,
             reserve_next_needed_piece(a, p) \/ try_steal_old_slow_piece(a, p)
      PROVE  PlacedInv'
  <2>1. /\ mode = "live" /\ UNCHANGED <<mode, wanted, handler, lost, fatal>>
        /\ inflight_pieces' = [inflight_pieces EXCEPT ![p] = a]
    BY <1>4 DEF reserve_next_needed_piece, try_steal_old_slow_piece, WantsPiece, PastUnchoke, AtAwait
  <2>2. /\ chunks'.have = chunks.have
        /\ chunks.needed_pieces \ {p} \subseteq chunks'.needed_pieces
    <3>1. CASE reserve_next_needed_piece(a, p)
      BY <3>1, <1>k, ReserveFacts DEF reserve_next_needed_piece
    <3>2. CASE try_steal_old_slow_piece(a, p)
      BY <3>2 DEF try_steal_old_slow_piece
    <3> QED BY <1>4, <3>1, <3>2
  <2>3. a # NoPeer
    BY LiveAssumption
  <2>4. /\ inflight_pieces'[p] = a
        /\ \A q \in Pieces : q # p => inflight_pieces'[q] = inflight_pieces[q]
    BY <2>1, <1>i DEF TypeOK
  <2>5. \A b \in Peers, q \in Pieces : Verifying(b, q) => Verifying(b, q)'
    BY <2>1 DEF Verifying
  <2>6. \A q \in wanted : Placed(q) => Placed(q)'
    BY <2>1, <2>2, <2>3, <2>4, <2>5, <1>k DEF Placed
  <2> QED BY <1>q, <2>1, <2>6
<1>5. ASSUME NEW a \in Peers, NEW c \in Chunks, NEW d \in Contents,
             on_received_piece(a, c, d)
      PROVE  PlacedInv'
  <2> DEFINE p == c[1]
             result == ChunkMarkingResult(chunks, c)
  <2>1. mode = "live" /\ UNCHANGED <<mode, wanted, lost, fatal>> /\ handler[a].st = "idle"
    BY <1>5 DEF on_received_piece, AtAwait
  <2>2. chunks' = chunks \/ chunks' = mark_chunk_downloaded(chunks, c)
    BY <1>5 DEF on_received_piece
  <2>3. chunks'.have = chunks.have /\ chunks'.needed_pieces = chunks.needed_pieces
    BY <2>2, <1>k, MarkChunkFacts
  <2>4. \/ UNCHANGED <<inflight_pieces, handler>>
        \/ /\ inflight_pieces' = IF result = "Completed"
                                   THEN [inflight_pieces EXCEPT ![p] = NoPeer]
                                   ELSE inflight_pieces
           /\ handler' = [handler EXCEPT ![a] =
                 [st |-> "write", piece |-> p, chunk |-> c[2],
                  completed |-> result = "Completed", data |-> d]]
    BY <1>5 DEF on_received_piece
  <2>5. \A b \in Peers, q \in Pieces : Verifying(b, q) => Verifying(b, q)'
    BY <2>1, <2>4, <1>i DEF Verifying, TypeOK
  <2>6. ASSUME NEW q \in wanted, inflight_pieces[q] # NoPeer
        PROVE  inflight_pieces'[q] # NoPeer \/ Verifying(a, q)'
    <3>1. q \in Pieces
      BY <1>k
    <3>2. CASE UNCHANGED inflight_pieces
      BY <2>6, <3>2
    <3>3. CASE ~UNCHANGED inflight_pieces
      <4>1. result = "Completed" /\ inflight_pieces' = [inflight_pieces EXCEPT ![p] = NoPeer]
        BY <2>4, <3>3
      <4>2. /\ handler'[a].st = "write" /\ handler'[a].piece = p
            /\ handler'[a].completed = (result = "Completed")
        BY <2>4, <3>3, <1>i DEF TypeOK
      <4>3. CASE q = p
        BY <4>1, <4>2, <4>3 DEF Verifying
      <4>4. CASE q # p
        BY <2>6, <3>1, <4>1, <4>4, <1>i DEF TypeOK
      <4> QED BY <4>3, <4>4
    <3> QED BY <3>2, <3>3
  <2>7. \A q \in wanted : Placed(q) => Placed(q)'
    BY <2>1, <2>3, <2>5, <2>6, <1>k DEF Placed
  <2> QED BY <1>q, <2>1, <2>7
\* The steps that take no reservation, no queued piece and no piece we have away.
<1>r. ASSUME mode = "live", UNCHANGED <<mode, wanted, inflight_pieces, fatal>>,
             chunks.have \subseteq chunks'.have, lost \subseteq lost',
             chunks.needed_pieces \subseteq chunks'.needed_pieces,
             \A b \in Peers : \A p \in wanted \ (chunks'.have \cup lost') :
                Verifying(b, p) => Verifying(b, p)'
      PROVE  PlacedInv'
  <2>1. \A q \in wanted : Placed(q) => Placed(q)'
    BY <1>r DEF Placed
  <2> QED BY <1>q, <1>r, <2>1
<1>6. ASSUME NEW a \in Peers, mark_downloaded(a)
      PROVE  PlacedInv'
  <2>1. /\ mode = "live" /\ UNCHANGED <<mode, wanted, inflight_pieces, lost, fatal>>
        /\ chunks' = mark_piece_downloaded(chunks, handler[a].piece)
        /\ GoTo(a, "count")
    BY <1>6 DEF mark_downloaded, AtStep
  <2>2. /\ chunks'.have = chunks.have \cup {handler[a].piece}
        /\ chunks'.needed_pieces = chunks.needed_pieces
    BY <2>1, <1>h, <1>k, MarkPieceFacts
  <2>3. \A b \in Peers : b # a => handler'[b] = handler[b]
    BY <2>1, <1>i DEF TypeOK, GoTo
  <2>4. \A b \in Peers : \A p \in wanted \ chunks'.have : Verifying(b, p) => Verifying(b, p)'
    BY <2>2, <2>3 DEF Verifying
  <2> QED BY <1>r, <2>1, <2>2, <2>4
<1>7. ASSUME NEW a \in Peers, on_peer_died(a)
      PROVE  PlacedInv'
  <2>1. /\ mode = "live" /\ UNCHANGED <<mode, wanted, inflight_pieces, lost, fatal>>
        /\ chunks' = mark_chunk_requests_cancelled(chunks, inflight_requests[a])
        /\ handler' = [handler EXCEPT ![a] = Idle]
        /\ handler[a].st \in {"failed", "idle"}
    BY <1>7 DEF on_peer_died
  <2>2. chunks'.have = chunks.have /\ chunks.needed_pieces \subseteq chunks'.needed_pieces
    BY <2>1, <1>i, <1>k, CancelFacts DEF TypeOK
  <2>3. \A b \in Peers, p \in Pieces : Verifying(b, p) => Verifying(b, p)'
    BY <2>1, <1>i DEF Verifying, TypeOK
  <2> QED BY <1>r, <2>1, <2>2, <2>3, <1>k
<1>8. ASSUME NEW a \in Peers,
             \/ write_chunk(a) \/ check_received_piece(a) \/ count_piece(a)
             \/ on_not_needed_peer_died(a) \/ finish_piece(a)
      PROVE  PlacedInv'
  <2>1. mode = "live" /\ UNCHANGED <<mode, wanted, inflight_pieces, chunks, lost, fatal>>
    BY <1>8 DEF write_chunk, check_received_piece, count_piece, on_not_needed_peer_died,
                finish_piece, AtStep, check_piece
  <2>2. \A b \in Peers : b # a => handler'[b] = handler[b]
    BY <1>8, <1>i DEF write_chunk, check_received_piece, count_piece,
                      on_not_needed_peer_died, finish_piece, GoTo, TypeOK
  <2>3. ASSUME NEW p \in Pieces, Verifying(a, p) PROVE Verifying(a, p)'
    <3>1. handler[a].completed /\ handler[a].st \in {"write", "check", "mark"} /\ handler[a].piece = p
      BY <2>3 DEF Verifying
    <3>2. write_chunk(a) \/ check_received_piece(a)
      BY <1>8, <3>1 DEF count_piece, on_not_needed_peer_died, finish_piece, AtStep
    <3>3. \E st \in {"check", "mark"} : handler' = [handler EXCEPT ![a].st = st]
      BY <3>1, <3>2 DEF write_chunk, check_received_piece, check_piece, GoTo
    <3>4. /\ handler'[a].st \in {"check", "mark"}
          /\ handler'[a].piece = p /\ handler'[a].completed
      BY <3>1, <3>3, <1>i, <1>h DEF TypeOK, Handlers
    <3> QED BY <3>4 DEF Verifying
  <2>4. \A b \in Peers, p \in Pieces : Verifying(b, p) => Verifying(b, p)'
    BY <2>2, <2>3 DEF Verifying
  <2> QED BY <1>r, <2>1, <2>4, <1>k
<1>9. ASSUME NEW a \in Peers, on_fatal_error(a)
      PROVE  PlacedInv'
  BY <1>9 DEF on_fatal_error, AtStep, PlacedInv
<1>12. ASSUME NEW a \in Peers, check_received_piece_fails(a)
       PROVE  PlacedInv'
  <2>1. /\ mode = "live" /\ UNCHANGED <<mode, wanted, inflight_pieces, chunks, fatal>>
        /\ lost' = lost \cup {handler[a].piece} /\ GoTo(a, "failed")
    BY <1>12 DEF check_received_piece_fails, AtStep
  <2>2. \A b \in Peers : b # a => handler'[b] = handler[b]
    BY <2>1, <1>i DEF GoTo, TypeOK
  <2>3. \A b \in Peers : \A p \in wanted \ (chunks'.have \cup lost') :
            Verifying(b, p) => Verifying(b, p)'
    BY <2>1, <2>2 DEF Verifying
  <2> QED BY <1>r, <2>1, <2>3
<1>10. ASSUME NEW a \in Peers,
              \/ requester_start(a) \/ acquire_permit(a)
              \/ no_pieces_to_request(a) \/ nothing_left_to_download(a)
              \/ set_peer_live(a)
              \/ on_bitfield(a) \/ \E p \in Pieces : on_have(a, p)
              \/ on_i_am_choked(a) \/ on_i_am_unchoked(a)
       PROVE  PlacedInv'
  <2>1. /\ mode = "live"
        /\ UNCHANGED <<mode, wanted, inflight_pieces, chunks, handler, lost, fatal>>
    BY <1>10
       DEF requester_start, acquire_permit, no_pieces_to_request,
           nothing_left_to_download, WantsPiece, PastUnchoke, set_peer_live,
           on_bitfield, on_have, LearnPieces, on_i_am_choked, on_i_am_unchoked, AtAwait
  <2>2. \A b \in Peers, p \in Pieces : Verifying(b, p) => Verifying(b, p)'
    BY <2>1 DEF Verifying
  <2> QED BY <1>r, <2>1, <2>2, <1>k
<1>11. CASE UNCHANGED vars
  BY <1>11 DEF vars, PlacedInv, Placed, Verifying
<1> QED
  BY <1>1, <1>2, <1>3, <1>4, <1>5, <1>6, <1>7, <1>8, <1>9, <1>10, <1>11, <1>12
     DEF Next, PeerStep, HandlerStep, Receive, Remote

\* A pause loses no missing piece but those in the hands of a handler and those that
\* could not be read back, whatever peers stole, cancelled or were asked for before.
THEOREM PauseForgetsOnlyVerifying == Spec => PauseKeepsNeeds
<1>1. Init => PlacedInv
  <2>1. ASSUME Init PROVE mode = "live" /\ chunks.needed_pieces = wanted
    BY <2>1 DEF Init, NewTracker
  <2> QED BY <2>1 DEF PlacedInv, Placed
<1>2. IndInv /\ PlacedInv /\ [Next]_vars => PlacedInv'
  BY PlacedNext
<1>3. ASSUME IndInv, PlacedInv, [Next]_vars
      PROVE  [~fatal /\ mode = "live" /\ mode' = "paused" =>
                 \A p \in wanted \ lost : \/ p \in chunks'.needed_pieces \cup chunks'.have
                                          \/ \E a \in Peers : Verifying(a, p)]_vars
  <2> SUFFICES ASSUME ~fatal, mode = "live", mode' = "paused", NEW p \in wanted \ lost
               PROVE  \/ p \in chunks'.needed_pieces \cup chunks'.have
                      \/ \E a \in Peers : Verifying(a, p)
    OBVIOUS
  <2>1. TypeOK /\ p \in Pieces
    BY <1>3 DEF IndInv, TypeOK
  <2>2. chunks' = PausedTracker
    <3>1. CASE pause
      BY <3>1 DEF pause
    <3>2. CASE ~pause
      <4>1. mode' = mode \/ mode' # "paused"
        BY <1>3, <3>2
           DEF Next, PeerStep, HandlerStep, Receive, Remote, vars, torrentVars,
               unpause, stop_with_error, restart, requester_start,
               reserve_next_needed_piece, try_steal_old_slow_piece, acquire_permit,
               no_pieces_to_request, nothing_left_to_download, write_chunk, on_fatal_error,
               check_received_piece, check_received_piece_fails, mark_downloaded,
               count_piece, finish_piece, on_not_needed_peer_died, on_received_piece,
               set_peer_live, on_bitfield, on_have, LearnPieces, on_i_am_choked,
               on_i_am_unchoked, on_peer_died
      <4> QED BY <4>1
    <3> QED BY <3>1, <3>2
  <2>3. Placed(p)
    BY <1>3 DEF PlacedInv
  <2> QED BY <2>1, <2>2, <2>3, PausedTrackerFacts DEF Placed
<1>4. IndInv /\ PlacedInv /\ [Next]_vars =>
        [~fatal /\ mode = "live" /\ mode' = "paused" =>
            \A p \in wanted \ lost : \/ p \in chunks'.needed_pieces \cup chunks'.have
                                     \/ \E a \in Peers : Verifying(a, p)]_vars
  BY <1>3
<1> QED BY <1>1, <1>2, <1>4, IndInvHolds, PTL DEF Spec, PauseKeepsNeeds
=============================================================================
