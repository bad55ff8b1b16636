# A TLA+ model of the BitTorrent client in this repository

The repository is a BitTorrent client (librqbit and the crates around it, with a
command line, a desktop and a web front end). This directory models the parts of it
that decide what is downloaded, from whom, what is remembered and what is on the disk, checks
them with TLC on small instances and proves, with TLAPS and for instances of every size, all the
safety properties that the passing runs check: of the download, the peers, the life cycle of a torrent, the session, the
files, the connection, the metadata, the DHT and the trackers. Liveness is left to TLC.

Names follow the source: an action has the name of the function it models. Sections:
[inventory](#1-inventory), [modules](#2-modules), [runs](#3-runs-bounds-and-fairness),
[disagreements](#4-where-the-code-and-its-words-disagree), [proofs](#5-proofs),
[left out](#6-what-is-not-modelled), [plan](#7-plan). `PROJECT.json` has the machine-readable
form: components, runs, mutants, the map from definitions to lines, hazards and theorems.

## 1. Inventory

| component | source | state | operations | hard behaviour |
|---|---|---|---|---|
| chunk tracker | `librqbit/src/chunk_tracker.rs` | three bit fields: needed pieces, chunks, pieces we have | reserve, mark chunk, mark piece, cancel, mark broken | its bits are shared by all peers |
| live torrent: pieces | `torrent_state/live/mod.rs` | the tracker, pieces in flight, byte counters; per peer: open requests, permits, choke | reserve, steal, request, receive, write, check, mark, count, finish, pause | one task per peer in parallel; the receipt of a chunk takes and releases the lock five times |
| live torrent: peers | `live/mod.rs`, `live/peer`, `live/peers` | a table from addresses to states, counters per state, a queue, a semaphore | queue, connect, accept, die, back off, drop, disconnect | tasks of both directions and sleeping backoffs on one entry |
| managed torrent | `torrent_state/mod.rs`, `initializing.rs` | one state of five | start, check, pause, stop with an error | several `start()` calls at once; an error against a cancellation |
| session | `session.rs` | torrents by id, the next id, a JSON file | add, delete, pause, unpause, restore, dump, stop | users act while torrents are restored and dumped; kills and full disks |
| files | `file_ops.rs` | the files of the torrent | initial check, read, write, check | pieces and files overlap freely; missing, short and empty files |
| arithmetic | `librqbit_core/src/lengths.rs` | lengths of pieces and chunks | offsets, sizes, ranges | last pieces, last chunks, uneven lengths |
| peer connection | `peer_connection.rs`, `read_buf.rs`, `peer_binary_protocol` | a read buffer, a queue of writes | handshakes, reader, writer, keep-alive | messages in any cut; reader against writer |
| metadata from peers | `peer_info_reader`, `dht_utils.rs` | a buffer of metadata pieces, addresses seen | request and assemble, race of peers | order of handshake and data |
| DHT | `crates/dht` | routing table, requests by transaction id, peer store, a JSON file | recursive queries, pings, refresh, answering, dumping | timeouts against late answers, wrap of ids, bucket splits, limits |
| trackers | `crates/tracker_comms` | one loop per tracker | announce over HTTP and UDP | lost, late and duplicated datagrams |
| bencode, magnet, metainfo | `crates/bencode`, `librqbit_core` | none | parse, print | recursion |
| speed estimator | `librqbit_core/src/speed_estimator.rs` | a ring of snapshots | add a snapshot | unsigned subtraction |
| UPnP | `crates/upnp` | leases | discover, map ports, renew | expiry |
| HTTP API, CLI, desktop, web | `api.rs`, `http_api.rs`, `gnostr-bits`, `desktop` | none of their own | calls of the session | none beyond the session's |

How they interact. The session owns managed torrents and calls `start`, `pause` and
`delete` on them. A managed torrent in the state Live owns a live torrent; the live torrent
reports a fatal error over a channel to a receiver task that puts the managed torrent
into the state Error. The live torrent owns the tracker and the table of peers and
calls the files for every chunk. Peer addresses come from trackers, the DHT and
incoming connections into the queue of the table. A connection calls back into the
handler of its peer for each message. `initial_check` of the files gives the tracker its
first contents.

What makes each correct:

* download: a piece is counted once, never forgotten, had only if it is right, and arrives
  in the end; the byte counters never underflow; *finished* means that everything is there;
* peers: counters match the table, the connection limit holds, no entry is left waiting for a
  task that does not exist;
* managed torrent: only the live state on show runs; a check ends; a fatal error stops the
  torrent;
* session: ids do not collide, nobody's torrent is replaced, what was stored survives kills
  until it is deleted, what was added gets stored;
* files: every byte in its place, the check is exact, a restart finds what was written;
* connection: messages reach the handler whole and in order however the bytes are cut, the bit field
  goes out first, a peer learns of every piece we complete;
* metadata: the info has the hash of the magnet link, and one honest peer is enough to get it;
* DHT: the buckets tile the space of ids, nodes that answer stay, answers reach the requests they are
  for although ids wrap, lookups end, the store keeps its limits over restarts, so does the node's id;
* trackers: announces go on, events tell the truth, no address that was received is lost.

## 2. Modules

| module | models | composed with |
|---|---|---|
| `ChunkTracker` | `chunk_tracker.rs`, as operators on a record of three sets | extended by `TorrentLive` |
| `TorrentLive` | the download of `live/mod.rs`: requesters, handlers, pause, errors | `INSTANCE PieceStore` |
| `PieceStore` | the abstract specification: a set of pieces that grows by one wanted piece at a time | implemented by `TorrentLive` |
| `PeerStates` | the table of peers and the tasks on it | |
| `ManagedTorrent` | the life cycle of one torrent | |
| `Session` | the session, its persistence and its users | |
| `Lengths` | `lengths.rs`, as operators on a record | extended by `FileOps` |
| `FileOps` | `file_ops.rs`: `initial_check` step by step, the walk over files of a chunk | |
| `HashId` | the ids of `hash_id.rs` as strings of bits: order, bits, distance | extended by `RoutingTable`, `PeerStore` |
| `RoutingTable` | `routing_table.rs`, as operators on a table | extended by `DhtNode` |
| `PeerStore` | `peer_store.rs`, as operators on a store | extended by `DhtNode` |
| `DhtNode` | what a DHT node keeps: lookups' and pinger's marks, queries, dumps, kills | `RoutingTable`, `PeerStore` |
| `DhtLookup` | one recursive request with its transactions, and the bootstrap | |
| `PeerConnection` | handshakes, read buffer, writer, haves, the listener | |
| `MetainfoReader` | the resolution of a magnet link | |
| `TrackerComms` | the monitors of a torrent's trackers and their stream | |
| `TorrentLiveProofs`, `ManagedTorrentProofs`, `SessionProofs`, `FileOpsProofs`, `PeerConnectionProofs`, `MetainfoReaderProofs`, `DhtNodeProofs`, `DhtLookupProofs` | the proofs, see section 5 | each extends the module it is named after, and `TLAPS`; `ManagedTorrentProofs` also extends `PeerStates` and `TrackerComms`, whose specifications are called `PeersSpec` and `TrackersSpec` therefore |
| `MC*` | the constants of the runs | |

### TorrentLive

A peer's task consists of a *requester* (`task_peer_chunk_requester`) and a *handler*
(`on_received_piece`); tokio polls one of the two at a time, so the handler of a
peer is atomic with respect to its own requester and interleaves with the tasks of all other peers.
The model has a program counter for each:

* requester: `bitfield` (waits for the peer's bit field), `start` (waits for the unchoke), `loop` (picks a
  piece: `reserve_next_needed_piece`, then `try_steal_old_slow_piece`), `permit` (waits for
  a permit before it sends the next chunk request), `forever` (nothing is left); `ready` is a requester whose
  `wait_for_unchoke` had returned when a choke arrived: it picks one more piece, or finds none and starts over;
* handler: `write`, `check`, `mark`, `count`, `finish`. The lock is free between these
  steps, which is where a piece is stolen, a peer dies or the torrent is paused.

Abstractions: a chunk's data is `"good"` or `"bad"`; "too slow" is a free choice of any
peer that has an average; the order of `iter_needed_pieces` (first needed piece the peer has)
is kept (`IsFirstNeeded`). `OnlyAnswers` says whether a peer may send a chunk before the request
for it went out; the requests of a piece are inserted before the permit is taken, so the code accepts it.
The check after a piece's last chunk is `check_piece(p) == TRUE` as the code has it: see the
finding `unchecked`. It reads the piece back first, and that may fail without any fault of the disk: `Unsized` are the chunks
that lie in files which `initializing.rs:101-108` skips, so that they are as long as what was written to them. A chunk's
bit is set before its bytes are written, and a thief may complete the piece in between; the read then meets the end of the file
(`Unreadable`). `lost` records the pieces whose read-back failed; it is a history variable.

### PeerStates

`states` is the table with `"none"` for a vacant entry; every access to an entry is one
step, and a task's accesses are steps of its own. A task (`Tasks`) is used once, which
bounds the number of connections. `sleeping` counts, per address, the tasks that
wait for a backoff; `next_backoff()` may give up at any time, and the task then ends
over `dropping` and `dropped`. `bugs` records the warnings the code logs as "bug: ...".

### ManagedTorrent

Each call of `start()` has a number. On a torrent that is initializing it spawns a
task of its own (`init`); a live state is named by the call that made it, and has its
token (`token`) and the receiver of its fatal errors (`receiver`). `asked` is what the last
call that took effect asked for. The session's own call, with the option *paused*, comes once, and may come after a call of the
user, who finds the torrent in the database before that; the user's word then stands.

### Session

`torrents` and `next_id` are the database, `file` what is on the disk, `dump` what was serialized but not yet
renamed. `todo` is what the restoring task has still to add, in any order because the adds
run concurrently. The history variables (`promised`, `protected`, `clobbered`) record what was
stored and what users asked to protect, and appear in properties only. Opening and checking the
files of a torrent is one step; the races inside are in `ManagedTorrent`.

### Lengths and FileOps

The torrent is a string of bytes cut into files and, independently, into pieces. A byte on the disk
is the position it belongs to, or `Junk`, so `BytesInPlace` sees a byte written to the
wrong place. A hash matches if all bytes of the piece were read and are the
right ones. `initial_check` is one step per file boundary, read and finished piece; `write_chunk` is
one step with the walk over the files inside.

### RoutingTable, PeerStore and DhtNode

An id is a string of `IdBits` bits, most significant first: the code compares ids byte by byte, which is
the order in which the first bit that differs decides (`Before`), and the distance is the exclusive or, bit by bit. A table is the vector of `BucketTree::data` (leaves, and inner nodes that point to
later entries) with the stamps of its nodes; of a time, the model keeps whether it is recent. `InsertLoop` is the
loop of `insert_into_leaf` as a function of the number of splits. A request is its two
accesses to the table, `on_request_start` and `on_request_end`, with anything in between, since the
lock is held for one access. A query is two steps as well: the sender is marked, then the store is
asked. A dump holds the table's lock while it serializes, reads the tokens and then the
peers, renames the file and only then flushes the rest of the buffer (`dump_flush`), which may fail unseen; a
kill may come anywhere. `granted` and `saved` are history variables.

### DhtLookup

The lookup is the queue of nodes (`node_tx`), up to `MaxFuts` running `request_one` futures and the list of
useful nodes; below it are the entries of `inflight_by_transaction_id` and the
datagrams on their way. Time is counted in transaction ids: the age of a request is the number of ids given out since
its own, and tells apart requests that have the same id. `Window` and `Lifetime` say how old an open request or
a datagram can get; that both are less than the number of ids is what the rate limiter (250 requests a
second, bursts of as many) and the timeout of 60 seconds give: at most 30,000 of 65,536. `request_one`
asks twice, as the code does: callbacks run on the first answer, nodes and peers come from the second. The
list is sorted by a stable sort (`sort_by_key`), so which of two equally useful nodes is cut off is the code's choice and not
the model's; `handle` of an answer is one `HandleNode` after another.

### PeerConnection

A byte is a pair of its message and its offset, so the buffer can be seen to lose, repeat or mix
bytes, and `deserialize` sees only what is in the buffer. What the peer sends is fixed at the start (`remote.stream`, and
`remote.bytes`, its bytes); a read returns any number of them that fit. A Have or a bit field that names
pieces outside the torrent is not among them: `on_have` ignores the first, `on_bitfield` drops the peer for the second. The
reader, the writer and the other peers that complete pieces interleave. A bit field replaces what we know of the peer, a Have adds
to it. The connections of other peers occur as far as they change the state of the listener's `select`: its second branch polls the
checks of all connections, so after a failed check (`listener = "accept_only"`) neither a check nor a hand-over goes on until
something else is accepted. `untold` is a history variable: the pieces completed while the peer was not interested or had them.

### MetainfoReader

A reader is one future with its connection. Its peer is `honest`, `repeats` its extended handshake, sends
`any` sizes and pieces, or is `plain` (has no metadata extension). A piece's content is right or not; a hash
matches if the size and all pieces are right. `Decodes` says whether the bytes with the right hash are an info dictionary at all; if
not, every reader that got them fails. `odd` and `handshakes` record what the peer did wrong.

### TrackerComms

One record per monitor, one channel, one stream. The futures of the monitors are polled only while the
stream is (`Polled`), and with a DHT the stream comes after that of the DHT. The network loses and doubles
datagrams; a tracker may be gone, may have forgotten our connection id or may send what does not parse (an answer longer than the
4096 bytes that are read, for one). That a torrent is complete means here that the session counts no byte as left.

## 3. Runs, bounds and fairness

Passing runs:

| run | checks | instance |
|---|---|---|
| `download` | `VerifiedOnce`, `NoPieceForgotten`, `FatalOnlyWhenDone`, `EveryPieceArrives` | fair; two peers that have everything, a piece of two chunks, the first of them in a file without its length, and one of one; one death, one theft, chokes and unchokes; an unchoke adds one permit, at most two are kept |
| `download_stops` | `IndInv`, `CountersSound` (`NoUnderflow`, `FinishedMeansHave`, `CountedOnce`), `ImplementsStore`, `PauseKeepsNeeds` | the same with a pause or an error, disk faults, unrequested chunks and two permits per unchoke |
| `peers` | `CountsMatch` (`StatsMatch`, `ActiveWithinLimit`), `EntriesHaveTasks` (`NoPeerStranded`, `OneTaskPerAddress`), `BugsNeedExhaustion` | two addresses, four connections, two permits |
| `torrent` | `RunsAsAsked` (`ShowsItsState`, `OnlyCurrentRuns`, `PausedStaysPaused`, `ChecksAsAsked`), `InitializationEnds`, `FatalErrorStops` | fair; four `start()` calls, two fatal errors, checks that may fail, files that may be overwritten |
| `session` | `IdsSound` (`OneIdPerTorrent`, `DumpsAfterRestore`), `StoredIsKept`, `ClobbersOnlyRestored`, `NeverReplaced`, `AddedIsStored` | fair; two torrents, one with files from before, adds that may and that may not overwrite, two of them, three sessions on one file, a full disk, kills at any time |
| `files` | `ResultsRight` (`CheckIsExact`, `SelectedIsCovered`, `OnlySelectedNeeded`), `ChunksTile` (`ChunksTileTorrent`, `ChunkRangesInBitfield`), `WritesLand` (`BytesInPlace`, `WrittenIsFound`) | every list of up to three files of length 0 to 3, pieces of 2, 3 and 4, chunks of 2, every selection, files missing, good or junk, a restart after the writes |
| `dht_node` | `TreeSound` (`BucketsSound`, `SizeExact`, `RefreshHitsBucket`, `SplitsLegal`), `StoreSound` (`PeersLenExact`, `StoredWithToken`), `OnlyBadEvicted`, `IdKept` | ids of three bits, buckets of two, a table of three, four other nodes; a store of one token and one peer; a kill |
| `dht_lookup` | `RequestsMatch` (`AnswersMatch`, `EntryPerRequest`), `UsefulAsked` (`UsefulUnique`, `AllAsked`), `LookupEnds` | fair; three nodes, two behind one address, three transaction ids, a list of two useful nodes, two requests at a time, two attempts of the bootstrap |
| `connection` | `ReadsSound` (`MessagesIntact`, `RoomToRead`), `BitfieldFirst`, `PieceAnnounced`, `AllRead` | fair; both directions, three streams of messages in every cut, one with a bit field after a Have, two pieces that others complete, one other connection |
| `metadata` | `InfoIsRight`, `ReadersSound` (`AskedOnce`, `PanicNeedsRepeat`), `Resolved` | fair; three addresses of any kind, one permit, an info of one full and one short piece, sizes 0, right, at the limit and above |
| `trackers` | `NothingLostAtEnd`, `FaultsNeedCause` (`PanicNeedsError`, `ErrorsHaveCause`, `MismatchNeedsDouble`, `InStep`), `EventsTrue` (`CompletedIsTrue`, `StartedUntilHeard`, `EventUntilHeard`), `AnnouncesGoOn` | fair; two UDP trackers, or one and an HTTP tracker, a channel of one, two announces each, two faults |

A property is a conjunction of the parts in parentheses; one of each module also has the module's `TypeOK` (`PeersTypeOK`, `TrackersTypeOK`)
in it (`IndInv` in `TorrentLive`).

Why the bounds are enough. The races of the download are between two peers: the owner
of a piece and a thief, or one that dies and one that goes on. Two
chunks are the least with which a piece is part-way; the second, shorter piece makes
"finished" different from "first piece done". Two permits allow a requester to be ahead
of its answers by one chunk. In `download`, whose liveness check is the costly one, an unchoke brings one of them, so a peer can choke
and unchoke us once more while a request is open; pauses are in `download_stops`. With the table of peers, one address is enough for the races of
one entry and the second makes the limit matter. Two sessions on one file are what a restart
needs, the third finds what the second made of the first one's file. Three files allow a piece that spans a whole
file, and length 0 the empty file between two others. In the DHT, buckets of two with ids of three bits make
one insert split twice, put all nodes of a bucket on one side and fill the table; three transaction ids wrap within one
lookup while a datagram of the previous turn is still under way. In a connection, a message longer than the
buffer makes it grow, and the buffer is small enough to be moved in every position. In the metadata run, two
pieces allow a peer to start over with the first one received. A channel of one address and answers of two
make the monitors wait for the stream.
The largest run, `download_stops`, has 1.5 million states; the slowest, `download`, takes two and a half minutes with two workers.
What is proved (section 5) does not depend on these bounds: of the passing runs, only the liveness properties do.

`CHECK_DEADLOCK FALSE` is in every configuration: a finished download, a stopped session, a completed
check or lookup and a closed connection have nothing left to do, and the bounds stop the others.

Fairness. `TorrentLive`: the runtime polls every task that can run (weak fairness of each handler and
requester step); a peer connects again after its backoff, sends its bit field, unchokes and answers what was requested.
The latter are assumptions on the remote side without which no client can finish. Nothing is assumed of
chokes, deaths, thefts, pauses. `EveryPieceArrives` is checked without disk faults, and speaks of downloads
that were not paused and of pieces that were not lost, because otherwise it does not hold: see `PauseKeepsNeeds` and `NoPieceForgotten`
in section 4. `ManagedTorrent`: the
builder calls `start()`, the initialization tasks and receivers run. `Session`: the persistence task
runs, as its ten-second loop does; nothing is assumed of users, `stop()` and kills. `DhtLookup`: futures
and the loop are polled, timers fire, a datagram does not stay under way for ever; no answer need ever come.
`PeerConnection`: its tasks are polled; a peer that stops sending is closed by the read timeout. `MetainfoReader`: the
readers are polled, and a peer either goes on with the protocol or its connection times out (a peer that keeps the
connection with keep-alives and never answers would hold its permit for ever; it is not among the peers
modelled). `TrackerComms`: the torrent polls the stream, sleeps end, a tracker answers what reaches it; strong
fairness of sending to the channel is tokio's, whose senders queue up. Its requests have transaction ids of their
own, where the code draws 32 bits at random, and the stream of the DHT does not end, as in the code.

Every property of a passing run has a mutant: a small plausible change of the model (a dropped guard, a
missing reset), kept next to the definition it replaces, under which TLC finds the property violated.

## 4. Where the code and its words disagree

The run `unchecked` expects a violation; `PROJECT.json` quotes the line: `check_piece` returns before it compares
the hash, so a piece with a bad chunk is accepted as "fully checked and downloaded".

Some properties name an exception, which the code really reaches and without which they fail:

* `OneTaskPerAddress`, `BugsNeedExhaustion` (`PeerStates`): once a backoff is exhausted, `drop_peer`, which comes after the
  entry was unlocked, can take away the entry of a connection accepted meanwhile, or of a task that still
  waits for a backoff; the warnings "bug: peer not found in table" and "bug: peer disappeared" are then logged.
* `OnlyCurrentRuns` (`ManagedTorrent`): a second check that fails replaces a live state without stopping it.
* `StoredIsKept` (`Session`): a dump cut short by a full disk replaces the good file, because the buffered
  writer is dropped and its last error lost. (An error before the rename only leaves the old file; both count as faults.)
* `OnlySelectedNeeded` (`FileOps`): a piece that starts where a selected file ends is downloaded though no
  byte of it is selected.
* `NoPieceForgotten`, `EveryPieceArrives` (`TorrentLive`): a piece that cannot be read back after its last chunk is forgotten
  (`live/mod.rs:1352`): its chunk bits are all set, so it is not queued, not in flight and never completed. On a disk that works this needs a
  chunk in a file that was never given its length, a theft, and the thief's last chunk overtaking the write of the robbed owner; the
  comment on the write, "By this time we reach here, no other peer can for this piece." (`live/mod.rs:1318`), is not true
  of that owner. The property says that on a working disk there is no other way (`lost` pieces have such a chunk), and that every
  marked chunk of a missing piece is on the disk or about to be written by the handler that marked it (`WrittenOrPending`). It speaks of downloads that nobody paused, with peers that send what
  they were asked for: a piece whose owner answers before the request is sent and dies at a moment when none of its chunks is
  requested is put back by nobody, until another peer steals it.
* `PauseKeepsNeeds` (`TorrentLive`, as long as no write failed): beside a lost piece, a piece that is being verified when the torrent is paused has left
  `inflight_pieces` and is not yet marked; the next live state neither needs nor has it. If it
  was queued a second time (its first owner died), it is downloaded again, but its chunk bits are still
  set, every chunk counts as previously completed and the piece never completes.
* `FatalOnlyWhenDone` (`TorrentLive`): the first owner of a stolen piece may write after the thief completed the
  torrent, to files reopened read-only ("Lock exclusive just in case to ensure in-flight operations finish.??",
  `live/mod.rs:1202`); the error stops the torrent. The property says that this is the only way on a good disk.
* `ClobbersOnlyRestored` (`Session`): a torrent refused because its files exist is restored by the next session
  with `overwrite: true`, and opens them for writing.
* `ChunkRangesInBitfield` (`FileOps`): for a piece length that is no multiple of the chunk length, the chunk ranges
  of a long torrent leave the bit field.
* `PieceAnnounced`, `AllRead` (`PeerConnection`): a piece that is completed while a peer is not interested is never
  announced to it; a connection that was accepted, checked or not, waits in the listener after the failed check of another one, because
  `Some(Ok(..)) = futs.next()` switches the branch that polls the checks off until the next connection.
* `PanicNeedsRepeat`, `Resolved` (`MetainfoReader`): data after the last piece was taken meets an `unwrap` and takes
  `add_torrent` down; when the stream of addresses ends, readers that are about to return are dropped.
* `IdKept` (`DhtNode`): the file is renamed before its last bytes are written; a kill or a full disk there
  loses the id and the table.
* `LookupEnds` (`DhtLookup`): when the bootstrap fails for every host, the worker ends.
* `PanicNeedsError`, `MismatchNeedsDouble`, `AnnouncesGoOn` (`TrackerComms`): an error or an unreadable answer of one UDP tracker takes down the
  stream of all; a doubled datagram shifts all later answers by one; a lost answer is waited for without a timeout.
  With a DHT no tracker is asked at all, because the streams are chained and the DHT's does not end, though
  `session.rs:1098` says "Get a peer stream from both DHT and trackers."

## 5. Proofs

Eight modules prove 35 theorems about their components, in about 14,700 obligations that `tlapm` checks, for every value of the
constants that satisfies the module's `ASSUME`. Together they state every invariant, every action property and the
refinement that the passing runs check.

| module | theorems (property) | assumption on the constants |
|---|---|---|
| `TorrentLiveProofs` | `TypeCorrect` (`TypeOK`), `IndInvHolds` (`IndInv`), `PieceVerifiedOnce` (`VerifiedOnce`), `DownloadImplementsStore` (`ImplementsStore`), `CountersCorrect` (`CountersSound`), `ErrorsOnlyAtTheEnd` (`FatalOnlyWhenDone`), `PiecesAreNotForgotten` (`NoPieceForgotten`), `PauseForgetsOnlyVerifying` (`PauseKeepsNeeds`) | `LengthsAssumption`, `LiveAssumption`: pieces have chunks and lengths, the bounds are numbers |
| `ManagedTorrentProofs` | `TorrentRunsAsAsked` (`RunsAsAsked`) | `ManagedAssumption`: bounds |
| `ManagedTorrentProofs`, of `PeersSpec` | `PeerCountsMatch` (`CountsMatch`), `PeerEntriesHaveTasks` (`EntriesHaveTasks`), `PeerBugsNeedExhaustion` (`BugsNeedExhaustion`) | `PeersAssumption`: finite sets of addresses and tasks, at least one permit |
| `ManagedTorrentProofs`, of `TrackersSpec` | `TrackerFaultsNeedCause` (`FaultsNeedCause`), `TrackerLosesNothing` (`NothingLostAtEnd`), `TrackerEventsTrue` (`EventsTrue`) | `TrackerAssumption`: bounds, a channel of at least one |
| `SessionProofs` | `SessionIdsSound` (`IdsSound`), `SessionKeepsStored` (`StoredIsKept`), `FirstSessionClobbersNothing` (`ClobbersOnlyRestored`), `SessionNeverReplaces` (`NeverReplaced`) | `SessionAssumption`: bounds, what options exist |
| `FileOpsProofs` | `FilesInvHolds` (the inductive invariant), `InitialCheckRight` (`ResultsRight`), `ChunksTileTheTorrent` (`ChunksTile`), `WritesFoundAgain` (`WritesLand`) | `FileOpsAssumption`: lengths are numbers, those of pieces and chunks not 0 |
| `DhtNodeProofs` | `NodeInvHolds` (the inductive invariant), `RoutingTableSound` (`TreeSound`), `PeerStoreSound` (`StoreSound`), `OnlyBadNodesEvicted` (`OnlyBadEvicted`), `NodeKeepsItsId` (`IdKept`) | `IdAssumption`, `TableAssumption`, `StoreAssumption`, `NodeAssumption`: ids have bits, buckets room for two nodes, limits are not 0 |
| `PeerConnectionProofs` | `BitfieldComesFirst` (`BitfieldFirst`), `EveryPieceAnnounced` (`PieceAnnounced`), `MessagesReadWhole` (`ReadsSound`) | `ConnectionAssumption`: lengths are numbers, the first buffer holds a handshake, messages are of known kinds |
| `MetainfoReaderProofs` | `MetadataIsRight` (`InfoIsRight`), `MetadataReadersSound` (`ReadersSound`) | `MetainfoAssumption`: sizes and permits |
| `DhtLookupProofs` | `LookupRequestsMatch` (`RequestsMatch`), `LookupUsefulAsked` (`UsefulAsked`) | `LookupAssumption`: a datagram does not outlive the ids (`Lifetime < TidSpace`), from the rate limiter and the timeout |

Every proof has the same shape: an inductive invariant, one step (or lemma) per action and below it one per
conjunct that the action can disturb, and lemmas for what the operators of the model return. The arguments:

**TorrentLive.** `VerifiedOnce` says nothing about what turns a second handler away. What does is the chunk bits: while a
piece is verified or had, all of them are set (`CompletedStaysSet`), so `mark_chunk_downloaded` answers
`PreviouslyCompleted` to every later chunk and no second handler is told that it completed the piece. They are cleared only by
`mark_piece_broken_if_not_have`, from the one verifier (`OneVerifier`) whose check fails, or by a pause, after which no
task is left (`StoppedIsIdle`). That the piece is *wanted* needs every place it can come from to hold only
wanted pieces (`OnlyWanted`). `IndInv` is the conjunction. In the refinement (`pieces <- chunks.have`, `missing <- wanted`) the
step that marks a piece is `Complete`, which needs `VerifiedOnce`; a pause, an error and a restart map to their counterparts, all
others stutter.
The byte counters: what was counted is the length of some set of distinct pieces that we have, without those whose handler is
between marking and counting (`CountedOnce`); a sum over a subset of a set is at most the set's, so the counter cannot
underflow, and when it reaches the whole, every wanted piece is in the set.
`NoPieceForgotten`: a missing piece that is not queued and not complete has a live owner that has requested, or is about to request, all
of its missing chunks (`OwnerAsks`); this is what a theft or a death has to preserve. A complete one is had, verified or lost: a set chunk
bit means that the chunk is on the disk or in the hands of a handler that is about to write it (`PendingInv`, with `Landed`), so a read-back
that fails without a fault of the disk has met the end of an unsized file, and the piece is recorded as lost. `PauseKeepsNeeds`: a wanted piece
is queued, had, in flight, being verified or lost (`PlacedInv`), and a pause puts back the third kind. `FatalOnlyWhenDone`: files become
read-only only in the step of the handler that finds the torrent finished.

**PeerStates.** Counters are cardinalities of the sets of addresses in a state, permits are those not held by a task. An entry that
waits (queued, connecting, dead) has a task, a place in the queue, a pending send or a sleeping backoff that will get
to it (`Attended`); until a backoff is exhausted, a task finds its entry (`EntryOfTask`) and is the only one there, so the
warnings "bug: ..." need an exhausted backoff.

**ManagedTorrent.** Only the live state on show runs needs: what is shown has its token (`ShowsItsState`), and an
initialization task that is still under way knows what was asked for (`ChecksAsAsked`).

**Session.** Ids in use are below the next one, and no dump is made before the file was read to the end
(`DumpsAfterRestore`); hence a dump has everything that was stored, wherever the process is killed. For the files of a refused torrent, every
torrent and every task left behind by a deletion is shown not to overwrite them.

**FileOps.** `initial_check` walks the pieces and the files at once, and `FilesInv` says where it is. Both walks are at the same
byte: the start of the current file plus what was processed of it is the end of the current piece less what remains of it; `hash_ok` holds
if and only if every byte of the piece up to there is in its place, and `is_broken` if and only if the file ended before it
(`ReadingIs`). `required` holds if a selected file up to the current one reaches into the piece, and only if one touches the piece or ends where
it starts (`RequiredIs`), hence the exception in `OnlySelectedNeeded`. The pieces before the current one are had if and only if their bytes
are in place (`VerdictsAre`), and the counted bytes are those of the pieces found (`ResultsAre`). `write_chunk` is the walk `WalkedTo`: after
`k` files, what is left of the chunk starts where the next file does; so each byte lands at its own position, none other changes
(`WrittenFacts`, `GrownFacts`), and a piece all of whose chunks were written has all its bytes in place (`WrittenAre`) when the next check looks.
The arithmetic under it (quotients by the piece and chunk lengths, the last piece, the last chunk) is reduced to two facts, that a
quotient exists and is unique (`DivExists`, `DivUnique`), and to the order of multiples (`TimesOrder`), which the provers need spelled out.

**DhtNode.** `TreeInv` is the shape of the tree: the bits that a bucket does not vary are fixed (`Shape`: its range is exactly the ids with its
prefix, `RangeIsPrefix`); an inner node has two entries that extend its prefix by a 0 and by a 1, and contains our own id; every entry
but the first has a parent; leaves are pairwise apart. From that, the descent of `get_leaf` reaches, after at most `IdBits` steps, the one leaf
whose range has the id (`LeafFound`, `LeafUnique`), and `iter_leaves` visits exactly the leaves. A full leaf has at least two nodes, so its
range still varies in a bit and can be halved (`FullLeaf`): the `debug_assert!`s of the split cannot fail. `TurnKeeps` is one turn of
`insert_into_leaf`, and since each turn takes a bit, the loop has ended after `IdBits` of them (`LoopFacts`). `add_node` then adds a node, replaces a
bad one or leaves the table alone. For the store, every stored peer and every token, in memory, in a dump under way or in the
file, comes from an address that was given a token (`StoreInvs`).

**PeerConnection.** Writing: the queue and the wire have the bit field before anything queued earlier, and a piece that was
completed is in the bit field, queued or still to be queued. Reading: `Holds` says that the buffer holds exactly the bytes of the peer from the end of the last
message handed over to the last byte read; a message that `deserialize` returns is then the next one, because a message is
determined by its first bytes, and one that is incomplete leaves the buffer as it is, with room for what is
missing. That the bytes of a stream are the concatenation of its messages' (`EndsExist`, `BytesFacts`) is proved for streams of any length.

**MetainfoReader.** A reader's requests are distinct and name pieces that it has not received (`RequestsOK`), unless the peer sent
something odd or a second handshake; so a piece is taken once, and the `unwrap` on a taken
buffer is met only after one of the two. Permits and readers that hold one add up.

**DhtLookup.** The heart is `TransOK`: for every open request and every datagram under way, `tid + age + 1` is `next_tid` or
`next_tid + TidSpace`. With ages below the number of ids, an id then determines the age, so an answer finds
the request that it is for although ids wrap. The list of useful nodes is followed through `HandleNode` for answers of any
length (`GoodList`); a node that was accepted and not asked is in the queue, so a lookup that ends has asked all.

**TrackerComms.** Until a datagram is doubled, a monitor and its tracker are in step: nothing is under way, or one request, or its
answer (`InStep`). Addresses that were received are in a monitor's queue, in the channel or handed out; an HTTP monitor has the event
"started" exactly until it was heard (`EventUntilHeard`).

Induction over data. The recursive functions over numbers, sequences and sets (`BytesOf`, `Ends`, the fold of `HandleNode`, `FileStart`, `Walk`,
`get_leaf`, `iter_leaves`, `InsertLoop`) are handled without the library's induction theorems, which take an operator: the set of numbers for
which a value is not as claimed would have a least element (`LeastNat`, from the well-foundedness of the naturals), and the step
below it is as claimed (`UpTo`). That a recursive function has the values its definition says is proved from the same fact (`Iterate`, `RecursionExists`).

What the proofs changed in the models. Several invariants were not inductive for a good reason, and TLC confirmed each
correction: `asked` is also set by the error arms of a check (`ManagedTorrent`); a deleted torrent's task may
outlive it and is now tracked (`orphans` in `Session`); the useful nodes are sorted stably (`DhtLookup`);
`PauseKeepsNeeds` and `NoPieceForgotten` hold only of pieces that could be read back (`TorrentLive`); the request that an arriving piece answers is the
first one of that index (`MetainfoReader`). Ids became strings of bits instead of numbers (`HashId`), and the chunks of a torrent are written as
intervals of bytes (`FileOps`), so that what is said of them can be reasoned about for every length.

Only model-checked:

* liveness, which is beyond the prover: `EveryPieceArrives`, `InitializationEnds`, `FatalErrorStops`, `AddedIsStored`, `LookupEnds`,
  `AllRead`, `Resolved`, `AnnouncesGoOn`;
* `HaveIsValid`, which is violated (section 4).

## 6. What is not modelled

* In the live torrent: the reading of a chunk that is uploaded, and rate statistics; `wait_until_completed`;
  `dummy_file()` failing inside `pause()`.
* What a remote peer forgets when it chokes us.
* Whether a torrent is restored paused or running as its user left it: `serialize` does not store it
  for a torrent that is initializing, and `stop()` pauses torrents before the last dump (hazards in `PROJECT.json`).
* The files of a deleted torrent whose initialization task still runs.
* In the DHT: the timers of the bucket refresher and of the pinger (both may act at any time), and the encoding of
  messages.
* Smaller simplifications, none of which a property depends on: in `DhtNode` a node has at most one lookup's request open at a time (a ping may be open
  beside it) and the store is serialized in one step, where the code goes entry by entry; in `DhtLookup` the socket refuses a query
  before the next id is given out, and an answer is delivered and handled in one step; in `Session` the restoring of a stored
  torrent does not fail (what `add_torrent` can refuse it refused when the torrent was first added); `PieceStore` leaves
  open which missing pieces the next live state asks for after a pause, which is what `PauseKeepsNeeds` is about.
* Known hazards in the modelled code that no property is about, because nothing in the repository promises otherwise or
  what would show them is on the other side: a piece stolen from the oldest owner is requested from a peer that never announced
  it (`live/mod.rs:967`); a resume during the first check of a torrent added paused is overtaken (`torrent_state/mod.rs:265`);
  the answer to a `find_node` that carries values ends in an error and its nodes are lost (`dht.rs:424`);
  `RoutingTable::size` counts replaced nodes (`routing_table.rs:536`); an incoming peer gets an extended handshake
  whether it supports it or not (`peer_connection.rs:127`); a Cancel would be sent as a Request (`peer_binary_protocol/src/lib.rs:246`),
  but nothing sends one.
* Durations: a timeout may come whenever what it waits for has not. So that two clients with a read timeout of
  10 seconds and keep-alives of 120 drop each other when idle is outside the model.
* Bencode, magnet links, torrent metainfo, the encodings of messages: pure passes over bytes without state, of which a
  model would be a second parser.
* The speed estimator (its averages are free choices in `TorrentLive`), creating torrents (one sequential pass, with the walk
  that `FileOps` has), UPnP (requests to a router in a loop that shares nothing with the rest).
* The HTTP API, command line, desktop and web front ends: they call the session, whose user
  actions stand for them. Buffers, the SHA-1 wrapper and `clone_to_owned` have no protocol.

## 7. Plan

The models are written, and every safety property of the passing runs is proved. What could be added: the bucket refresher's
timer and `last_refreshed` in `DhtNode`; the composition of `FileOps` with the download, so that the piece that `TorrentLive`
verifies is the bytes that `FileOps` writes; and the reading of uploaded chunks, once the code checks what it reads.
