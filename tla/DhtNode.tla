------------------------------ MODULE DhtNode ------------------------------
(***************************************************************************)
(* What a DHT node keeps: the routing table, the tokens and peers of its   *)
(* store, and the file both are dumped to (crates/dht/src/dht.rs,          *)
(* persistence.rs).  Four kinds of tasks work on it: the lookups and the   *)
(* pinger mark nodes as their requests start and end, the response reader  *)
(* answers queries, and the persistence task dumps.  The table is behind a *)
(* lock that is held for one access at a time, and by a dump while it      *)
(* serializes.                                                             *)
(*                                                                         *)
(* The requests themselves are in DhtLookup; here a request is its two     *)
(* accesses to the table with any number of other accesses between them.   *)
(***************************************************************************)
EXTENDS RoutingTable, PeerStore

CONSTANTS
    NodeAddr,       \* the ids of the other nodes, each with its address
    SelfIds,        \* ids generate_peer_id may return
    FirstId,        \* the one it returned when the node was first started
    Tokens,         \* values of random tokens; two may be equal
    Ports,          \* ports named in announces
    Senders,        \* the nodes that send get_peers and announce_peer
    MaxWork,        \* bound: the cost of a behaviour, see Work
    MaxKills        \* bound: kills of the process

Nodes == DOMAIN NodeAddr

ASSUME NodeAssumption ==
    /\ Nodes \subseteq Ids /\ SelfIds \subseteq Ids /\ FirstId \in SelfIds
    /\ \A n \in Nodes : NodeAddr[n] = [ip |-> NodeAddr[n].ip, port |-> NodeAddr[n].port]
    /\ Senders \subseteq Nodes
    /\ MaxWork \in Nat /\ MaxKills \in Nat

VARIABLES
    id,             \* DhtState::id
    table,          \* routing_table
    store,          \* peer_store
    asked,          \* nodes whose find_node request is under way
    ping_queue,     \* nodes the pinger has found and not yet asked
    pinged,         \* nodes whose ping is under way
    handling,       \* the query whose node is marked and that is still to be served
    dump,           \* dump_dht: its step and what it has serialized
    file,           \* the file: none, cut, or its contents
    running,        \* the process runs
    granted,        \* every token given in a reply so far
    saved,          \* the file was written to its end, and no newer one cut it
    work, kills     \* for the bounds

vars == <<id, table, store, asked, ping_queue, pinged, handling, dump, file,
          running, granted, saved, work, kills>>

NoQuery == [kind |-> "none"]
NoDump == [step |-> "idle"]
NoFile == [kind |-> "none"]
CutFile == [kind |-> "cut"]

\* The write lock on the table can be taken.
Unlocked == dump.step \notin {"table", "tokens"}

Init ==
    /\ id = FirstId
    /\ table = NewTable
    /\ store = NewStore
    /\ asked = {} /\ ping_queue = {} /\ pinged = {}
    /\ handling = NoQuery
    /\ dump = NoDump
    /\ file = NoFile
    /\ running = TRUE
    /\ granted = {}
    /\ saved = FALSE
    /\ work = 0 /\ kills = 0

\* Bounds a behaviour: a request of a lookup costs 1, a token, an announce and a
\* dump cost 2, everything else 3.
Work(cost) ==
    /\ running
    /\ work + cost <= MaxWork
    /\ work' = work + cost

-----------------------------------------------------------------------------
(* Lookups and the pinger *)

\* RecursiveRequestCallbacksFindNodes::on_request_start
on_request_start(n) ==
    /\ Work(1) /\ Unlocked
    /\ n \notin asked
    /\ asked' = asked \cup {n}
    /\ LET added == add_node(table, id, n)
       IN  table' = IF added.res = "Ignored" THEN added.table
                    ELSE mark_outgoing_request(added.table, n)
    /\ UNCHANGED <<id, store, ping_queue, pinged, handling, dump, file, running, granted,
                   saved, kills>>

\* on_request_end: the node may have been replaced since the start.
on_request_end(n, ok) ==
    /\ running /\ Unlocked
    /\ n \in asked
    /\ asked' = asked \ {n}
    /\ table' = IF ok THEN mark_response(table, n) ELSE mark_error(table, n)
    /\ UNCHANGED <<id, store, ping_queue, pinged, handling, dump, file, running, granted,
                   saved, work, kills>>

\* pinger: one turn of looper.  A node that is queued already is queued again
\* in the code, which only repeats the ping.
pinger_tick ==
    /\ Work(3)
    /\ ping_queue' = ping_queue \cup
            {n \in NodeIds(table) : status(table.node[n]) \in {"Questionable", "Unknown"}}
    /\ ping_queue' # ping_queue
    /\ UNCHANGED <<id, table, store, asked, pinged, handling, dump, file, running, granted,
                   saved, kills>>

ping_start(n) ==
    /\ running /\ Unlocked
    /\ n \in ping_queue \ pinged
    /\ ping_queue' = ping_queue \ {n}
    /\ pinged' = pinged \cup {n}
    /\ table' = mark_outgoing_request(table, n)
    /\ UNCHANGED <<id, store, asked, handling, dump, file, running, granted, saved, work,
                   kills>>

ping_end(n, ok) ==
    /\ running /\ Unlocked
    /\ n \in pinged
    /\ pinged' = pinged \ {n}
    /\ table' = IF ok THEN mark_response(table, n) ELSE mark_error(table, n)
    /\ UNCHANGED <<id, store, asked, ping_queue, handling, dump, file, running, granted,
                   saved, work, kills>>

\* INACTIVITY_TIMEOUT passes for one of the time stamps.
age(n, field) ==
    /\ Work(3)
    /\ table.node[n][field] = "fresh"
    /\ table' = [table EXCEPT !.node[n][field] = "stale"]
    /\ UNCHANGED <<id, store, asked, ping_queue, pinged, handling, dump, file, running,
                   granted, saved, kills>>

-----------------------------------------------------------------------------
(* Queries: on_received_message, by the response reader, one at a time *)

\* The sender is marked; ping and find_node have nothing else to change.
on_query(n) ==
    /\ Work(3) /\ Unlocked
    /\ handling = NoQuery
    /\ table' = mark_last_query(table, n)
    /\ UNCHANGED <<id, store, asked, ping_queue, pinged, handling, dump, file, running,
                   granted, saved, kills>>

on_get_peers(n) ==
    /\ Work(2) /\ Unlocked
    /\ handling = NoQuery
    /\ table' = mark_last_query(table, n)
    /\ handling' = [kind |-> "get_peers", node |-> n, addr |-> NodeAddr[n]]
    /\ UNCHANGED <<id, store, asked, ping_queue, pinged, dump, file, running, granted,
                   saved, kills>>

\* The lock is free again; the reply carries a new token.
get_peers_reply ==
    /\ running
    /\ handling.kind = "get_peers"
    /\ \E token \in Tokens :
          /\ store' = gen_token_for(store, token, handling.node, handling.addr)
          /\ granted' = granted \cup {[token |-> token, node |-> handling.node,
                                       addr |-> handling.addr]}
    /\ handling' = NoQuery
    /\ UNCHANGED <<id, table, asked, ping_queue, pinged, dump, file, running, saved, work, kills>>

\* An announce of anybody, from any address, with any token.
on_announce_peer(n, ann, addr) ==
    /\ Work(2) /\ Unlocked
    /\ handling = NoQuery
    /\ table' = mark_last_query(table, n)
    /\ handling' = [kind |-> "announce", ann |-> ann, addr |-> addr]
    /\ UNCHANGED <<id, store, asked, ping_queue, pinged, dump, file, running, granted,
                   saved, kills>>

announce_peer_store ==
    /\ running
    /\ handling.kind = "announce"
    /\ store' = store_peer(store, handling.ann, handling.addr,
                           distance(handling.ann.info_hash, id))
    /\ handling' = NoQuery
    /\ UNCHANGED <<id, table, asked, ping_queue, pinged, dump, file, running, granted, saved,
                   work, kills>>

-----------------------------------------------------------------------------
(* Persistence *)

\* dump_dht: with_routing_table takes the lock, the table is serialized ...
dump_table ==
    /\ Work(2)
    /\ dump = NoDump
    /\ dump' = [step |-> "table", id |-> id, table |-> Restored(table)]
    /\ UNCHANGED <<id, table, store, asked, ping_queue, pinged, handling, file, running,
                   granted, saved, kills>>

\* ... then the tokens, which have a lock of their own ...
dump_tokens ==
    /\ running
    /\ dump.step = "table"
    /\ dump' = [step |-> "tokens", id |-> dump.id, table |-> dump.table, tokens |-> store.tokens]
    /\ UNCHANGED <<id, table, store, asked, ping_queue, pinged, handling, file, running,
                   granted, saved, work, kills>>

\* ... and the peers; the number of peers is written too, and never read.
dump_peers ==
    /\ running
    /\ dump.step = "tokens"
    /\ dump' = [step |-> "written", id |-> dump.id, table |-> dump.table,
                tokens |-> dump.tokens, peers |-> store.peers]
    /\ UNCHANGED <<id, table, store, asked, ping_queue, pinged, handling, file, running,
                   granted, saved, work, kills>>

\* The disk is full: to_writer fails and the old file stays.
dump_fails ==
    /\ running
    /\ dump.step \in {"table", "tokens"}
    /\ dump' = NoDump
    /\ UNCHANGED <<id, table, store, asked, ping_queue, pinged, handling, file, running,
                   granted, saved, work, kills>>

\* The temporary file replaces the old one; its end is still in the buffer.
dump_rename ==
    /\ running
    /\ dump.step = "written"
    /\ file' = CutFile
    /\ dump' = [dump EXCEPT !.step = "renamed"]
    /\ UNCHANGED <<id, table, store, asked, ping_queue, pinged, handling, running, granted,
                   saved, work, kills>>

\* Mutant: the buffer is dropped without being written.
dump_flush_lost(ok) ==
    /\ running
    /\ dump.step = "renamed"
    /\ dump' = NoDump
    /\ saved' = ok
    /\ UNCHANGED <<id, table, store, asked, ping_queue, pinged, handling, file, running,
                   granted, work, kills>>

\* The BufWriter is dropped, which writes the rest; an error is ignored.
dump_flush(ok) ==
    /\ running
    /\ dump.step = "renamed"
    /\ dump' = NoDump
    /\ file' = IF ok THEN [kind |-> "whole", id |-> dump.id, table |-> dump.table,
                           tokens |-> dump.tokens, peers |-> dump.peers]
                     ELSE CutFile
    /\ saved' = ok
    /\ UNCHANGED <<id, table, store, asked, ping_queue, pinged, handling, running, granted,
                   work, kills>>

\* The process is killed, at any step of a dump.
kill ==
    /\ running
    /\ kills < MaxKills
    /\ kills' = kills + 1
    /\ running' = FALSE
    /\ asked' = {} /\ ping_queue' = {} /\ pinged' = {}
    /\ handling' = NoQuery
    /\ dump' = NoDump
    /\ saved' = (saved /\ dump.step # "renamed")
    /\ UNCHANGED <<id, table, store, file, granted, work>>

\* PersistentDht::create: a file that cannot be read is as good as none.
create ==
    /\ ~running
    /\ running' = TRUE
    /\ IF file.kind = "whole"
         THEN /\ id' = file.id
              /\ table' = file.table
              /\ store' = RestoredStore(file.tokens, file.peers)
         ELSE /\ id' \in SelfIds
              /\ table' = NewTable
              /\ store' = NewStore
    /\ UNCHANGED <<asked, ping_queue, pinged, handling, dump, file, granted, saved, work, kills>>

-----------------------------------------------------------------------------

Addrs == {NodeAddr[n] : n \in Senders}

Announces(n) == [node : {n}, token : Tokens, info_hash : Hashes, implied_port : BOOLEAN,
                 port : Ports]

Next ==
    \/ \E n \in Nodes : on_request_start(n)
    \/ \E n \in Nodes, ok \in BOOLEAN : on_request_end(n, ok)
    \/ pinger_tick
    \/ \E n \in Nodes : ping_start(n)
    \/ \E n \in Nodes, ok \in BOOLEAN : ping_end(n, ok)
    \/ \E n \in Nodes, f \in {"last_request", "last_response", "last_query"} : age(n, f)
    \/ \E n \in Nodes : on_query(n)
    \/ \E n \in Senders : on_get_peers(n)
    \/ get_peers_reply
    \/ \E n \in Senders : \E ann \in Announces(n), addr \in Addrs : on_announce_peer(n, ann, addr)
    \/ announce_peer_store
    \/ dump_table \/ dump_tokens \/ dump_peers \/ dump_fails \/ dump_rename
    \/ \E ok \in BOOLEAN : dump_flush(ok)
    \/ kill
    \/ create

Spec == Init /\ [][Next]_vars

-----------------------------------------------------------------------------
(* Properties *)

\* Every piece of state has its type, and the tokens stay within their limit
\* (gen_token_for).
TypeOK ==
    /\ id \in SelfIds
    /\ table.node \in [Ids -> Stamps]
    /\ Len(store.tokens) <= MaxTokens
    /\ asked \subseteq Nodes /\ ping_queue \subseteq Nodes /\ pinged \subseteq Nodes
    /\ file.kind \in {"none", "cut", "whole"}
    /\ running \in BOOLEAN /\ saved \in BOOLEAN

\* However buckets are filled, split and restored: the leaves cover every id
\* once, get_leaf finds every node that is in the table, no bucket is overfull
\* and only buckets with our own id were split (BucketTree::insert_into_leaf).
BucketsSound == TableSound(table, id)

\* BucketTree::size, which limits the table, is the number of nodes in it.
SizeExact ==
    /\ table.size = Cardinality(NodeIds(table))
    /\ table.size <= MaxSize

\* A bucket that is refreshed is refreshed with an id of its own range, so
\* the lookup's answers may land in it (random_within).
RefreshHitsBucket ==
    \A i \in iter_leaves(table.data) :
        LET b == table.data[i]
        IN  \A r \in generate_random_id(b.start, b.bits) : get_leaf(table.data, r) = i

\* No insert meets a range that compute_split_start_end cannot cut: its three
\* debug_assert! hold for whatever node comes next.
SplitsLegal ==
    \A i \in iter_leaves(table.data) : \A n \in Ids :
        LET b == table.data[i]
        IN  (InRange(b, n) /\ InsertResult(table, i, id, n) = "Split")
                => SplitAsserts(b.start, b.end, b.bits)

\* A node leaves the table only after two requests in a row that it did not
\* answer (ReplacedBad); nodes that answer are never displaced.
OnlyBadEvicted ==
    [][running /\ running' =>
          \A n \in NodeIds(table) \ NodeIds(table') :
              table.node[n].errors_in_a_row >= 2]_vars

\* The counter that limits the store is the number of peers in it, also after
\* a restart from a dump that raced with announces.
PeersLenExact ==
    /\ store.peers_len = PeerCount(store.peers)
    /\ store.peers_len <= MaxPeers

\* A peer is stored only under an ip that was given a token for it.
StoredWithToken ==
    \A h \in Hashes : \A peer \in store.peers[h] :
        \E g \in granted : g.addr.ip = peer.ip

\* A node keeps its id over restarts once a dump was written to its end, as
\* long as no later dump is cut off between its rename and its last write.
IdKept == [][id' # id => ~saved]_vars

\* The tree of buckets is sound after any inserts, splits, evictions and restarts: its
\* ranges, its size, the ids its buckets are refreshed with, and the next split.
TreeSound == TypeOK /\ BucketsSound /\ SizeExact /\ RefreshHitsBucket /\ SplitsLegal

\* The peer store keeps its limit and holds only peers that had a token.
StoreSound == PeersLenExact /\ StoredWithToken
=============================================================================
