----------------------------- MODULE PeerStates -----------------------------
(***************************************************************************)
(* The table of known peers of a live torrent and the tasks that move its  *)
(* entries: the queue of addresses and its adder, the outgoing and the     *)
(* incoming connection tasks, and the tasks that wait for a backoff        *)
(* (torrent_state/live/mod.rs, live/peer/mod.rs, live/peers/mod.rs).       *)
(*                                                                         *)
(* The entry of an address is locked for one access at a time; every task  *)
(* takes several accesses, so an entry may have changed between two of     *)
(* them.  What a connection transfers is in TorrentLive.                   *)
(***************************************************************************)
EXTENDS Integers, FiniteSets, Sequences, Functions

CONSTANTS
    Addrs,          \* socket addresses
    NoAddr,         \* the adder waits for an address
    Tasks,          \* connection tasks, each used once: bounds the connections
    Limit,          \* permits of peer_semaphore (128 in the code)
    MaxAdds         \* bound: addresses inserted by add_if_not_seen

ASSUME PeersAssumption ==
    /\ NoAddr \notin Addrs
    /\ IsFiniteSet(Addrs) /\ IsFiniteSet(Tasks)
    /\ Limit \in Nat \ {0}
    /\ MaxAdds \in Nat

VARIABLES
    states,         \* the table; "none" is a vacant entry
    stats,          \* AggregatePeerStatsAtomic, a counter per state
    peer_queue,     \* the channel to task_peer_adder
    sending,        \* sends to peer_queue that are still to be made
    adder,          \* the address for which the adder waits for a permit
    permits,        \* free permits of peer_semaphore
    task,           \* the connection tasks
    sleeping,       \* per address, the tasks that wait for a backoff
    finished,       \* is_finished()
    sweep,          \* entries disconnect_all_peers... has still to visit
    adds,           \* calls of add_if_not_seen so far, for the bound
    bugs            \* the warnings "bug: ..." that were logged

peerVars == <<states, stats, peer_queue, sending, adder, permits, task, sleeping,
              finished, sweep, adds, bugs>>

Entries == {"queued", "connecting", "live", "dead", "not_needed"}
Active == {"connecting", "live"}
TaskStates == {"unused", "spawned", "running", "dropping", "dropped", "done"}
Bugs == {"not found in table", "wrong state", "disappeared"}

-----------------------------------------------------------------------------

\* PeerStateNoMut::set: the entry and the counters move together.
set(a, new) ==
    /\ states' = [states EXCEPT ![a] = new]
    /\ stats' = [s \in Entries |->
                    stats[s] - (IF s = states[a] THEN 1 ELSE 0)
                             + (IF s = new THEN 1 ELSE 0)]

Unused == {t \in Tasks : task[t].st = "unused"}

\* Task t ends and its permit is dropped.
EndTask(t) ==
    /\ task' = [task EXCEPT ![t].st = "done"]
    /\ permits' = permits + 1

PeersInit ==
    /\ states = [a \in Addrs |-> "none"]
    /\ stats = [s \in Entries |-> 0]
    /\ peer_queue = <<>>
    /\ sending = [a \in Addrs |-> 0]
    /\ adder = NoAddr
    /\ permits = Limit
    /\ task = [t \in Tasks |-> [st |-> "unused", addr |-> NoAddr]]
    /\ sleeping = [a \in Addrs |-> 0]
    /\ finished = FALSE
    /\ sweep = {}
    /\ adds = 0
    /\ bugs = {}

-----------------------------------------------------------------------------
(* The queue *)

\* add_peer_if_not_seen: the entry first, the send after it.
add_if_not_seen(a) ==
    /\ states[a] = "none"
    /\ adds < MaxAdds
    /\ adds' = adds + 1
    /\ set(a, "queued")
    /\ sending' = [sending EXCEPT ![a] = @ + 1]
    /\ UNCHANGED <<peer_queue, adder, permits, task, sleeping, finished, sweep, bugs>>

peer_queue_send(a) ==
    /\ sending[a] > 0
    /\ sending' = [sending EXCEPT ![a] = @ - 1]
    /\ peer_queue' = Append(peer_queue, a)
    /\ UNCHANGED <<states, stats, adder, permits, task, sleeping, finished, sweep,
                   adds, bugs>>

\* task_peer_adder: when finished, the entry is marked whatever its state is.
peer_adder_recv ==
    /\ adder = NoAddr
    /\ peer_queue # <<>>
    /\ peer_queue' = Tail(peer_queue)
    /\ LET a == Head(peer_queue) IN
          IF finished
            THEN /\ IF states[a] = "none" THEN UNCHANGED <<states, stats>>
                                          ELSE set(a, "not_needed")
                 /\ UNCHANGED adder
            ELSE adder' = a /\ UNCHANGED <<states, stats>>
    /\ UNCHANGED <<sending, permits, task, sleeping, finished, sweep, adds, bugs>>

peer_adder_spawn(t) ==
    /\ adder # NoAddr
    /\ permits > 0
    /\ t \in Unused
    /\ permits' = permits - 1
    /\ task' = [task EXCEPT ![t] = [st |-> "spawned", addr |-> adder]]
    /\ adder' = NoAddr
    /\ UNCHANGED <<states, stats, peer_queue, sending, sleeping, finished, sweep,
                   adds, bugs>>

-----------------------------------------------------------------------------
(* Connections *)

\* task_manage_outgoing_peer starts; an entry that is no longer queued ends it.
mark_peer_connecting(t) ==
    /\ task[t].st = "spawned"
    /\ LET a == task[t].addr IN
          IF states[a] = "queued"
            THEN /\ set(a, "connecting")
                 /\ task' = [task EXCEPT ![t].st = "running"]
                 /\ UNCHANGED permits
            ELSE EndTask(t) /\ UNCHANGED <<states, stats>>
    /\ UNCHANGED <<peer_queue, sending, adder, sleeping, finished, sweep, adds, bugs>>

\* on_handshake.
set_peer_live(t) ==
    /\ task[t].st = "running"
    /\ states[task[t].addr] = "connecting"
    /\ set(task[t].addr, "live")
    /\ UNCHANGED <<peer_queue, sending, adder, permits, task, sleeping, finished,
                   sweep, adds, bugs>>

\* A second connection from an active peer is refused.
add_incoming_peer(t, a) ==
    /\ permits > 0
    /\ t \in Unused
    /\ states[a] \notin Active
    /\ permits' = permits - 1
    /\ set(a, "live")
    /\ task' = [task EXCEPT ![t] = [st |-> "running", addr |-> a]]
    /\ UNCHANGED <<peer_queue, sending, adder, sleeping, finished, sweep, adds, bugs>>

\* Mutant: the entry stays live when its task ends.
NotNeeded_kept(t) == EndTask(t) /\ UNCHANGED <<states, stats, sleeping, bugs>>

\* The entry of a task that ended: what on_peer_died does with each state.
NotNeeded(t) ==
    /\ set(task[t].addr, "not_needed")
    /\ EndTask(t)
    /\ UNCHANGED <<sleeping, bugs>>

\* Mutant: a peer that died is never tried again.
Dead_no_backoff(t) ==
    /\ set(task[t].addr, "dead")
    /\ EndTask(t)
    /\ UNCHANGED <<sleeping, bugs>>

Dead(t) ==
    /\ set(task[t].addr, "dead")
    /\ \/ /\ sleeping' = [sleeping EXCEPT ![task[t].addr] = @ + 1]
          /\ EndTask(t)
       \/ /\ task' = [task EXCEPT ![t].st = "dropping"]
          /\ UNCHANGED <<permits, sleeping>>
    /\ UNCHANGED bugs

WrongState(t) ==
    /\ set(task[t].addr, "queued")
    /\ task' = [task EXCEPT ![t].st = "dropping"]
    /\ bugs' = bugs \cup {"wrong state"}
    /\ UNCHANGED <<permits, sleeping>>

NotFound(t) ==
    /\ EndTask(t)
    /\ bugs' = bugs \cup {"not found in table"}
    /\ UNCHANGED <<states, stats, sleeping>>

on_peer_died(t, error) ==
    /\ task[t].st = "running"
    /\ LET s == states[task[t].addr] IN
          \/ s = "none" /\ NotFound(t)
          \/ s \in {"queued", "dead"} /\ WrongState(t)
          \/ s = "not_needed" /\ NotNeeded(t)
          \/ s \in Active /\ (finished \/ ~error) /\ NotNeeded(t)
          \/ s \in Active /\ ~finished /\ error /\ Dead(t)
    /\ UNCHANGED <<peer_queue, sending, adder, finished, sweep, adds>>

\* The end of on_peer_died after the lock on the entry was released.
drop_peer(t) ==
    /\ task[t].st = "dropping"
    /\ IF states[task[t].addr] = "none" THEN UNCHANGED <<states, stats>>
                                        ELSE set(task[t].addr, "none")
    /\ task' = [task EXCEPT ![t].st = "dropped"]
    /\ permits' = permits + 1
    /\ UNCHANGED <<peer_queue, sending, adder, sleeping, finished, sweep, adds, bugs>>

\* Mutant: the entry is queued whatever its state is.
dead_to_queued_anyway(a) ==
    /\ sleeping[a] > 0
    /\ sleeping' = [sleeping EXCEPT ![a] = @ - 1]
    /\ set(a, "queued")
    /\ sending' = [sending EXCEPT ![a] = @ + 1]
    /\ UNCHANGED <<peer_queue, adder, permits, task, finished, sweep, adds, bugs>>

\* The task that waited for the backoff.
dead_to_queued(a) ==
    /\ sleeping[a] > 0
    /\ sleeping' = [sleeping EXCEPT ![a] = @ - 1]
    /\ IF states[a] = "dead"
         THEN set(a, "queued") /\ sending' = [sending EXCEPT ![a] = @ + 1]
         ELSE UNCHANGED <<states, stats, sending>>
    /\ bugs' = IF states[a] = "none" THEN bugs \cup {"disappeared"} ELSE bugs
    /\ UNCHANGED <<peer_queue, adder, permits, task, finished, sweep, adds>>

-----------------------------------------------------------------------------
(* The end of the download *)

\* The last piece was counted, by the handler of some live peer.
finish ==
    /\ ~finished
    /\ \E a \in Addrs : states[a] = "live"
    /\ finished' = TRUE
    /\ sweep' = Addrs
    /\ UNCHANGED <<states, stats, peer_queue, sending, adder, permits, task,
                   sleeping, adds, bugs>>

\* disconnect_all_peers_that_have_full_torrent visits one entry.
disconnect_if_full(a) ==
    /\ a \in sweep
    /\ sweep' = sweep \ {a}
    /\ \/ states[a] = "live" /\ set(a, "not_needed")
       \/ UNCHANGED <<states, stats>>
    /\ UNCHANGED <<peer_queue, sending, adder, permits, task, sleeping, finished,
                   adds, bugs>>

-----------------------------------------------------------------------------

PeersNext ==
    \/ \E a \in Addrs : \/ add_if_not_seen(a)
                        \/ peer_queue_send(a)
                        \/ dead_to_queued(a)
                        \/ disconnect_if_full(a)
    \/ peer_adder_recv
    \/ finish
    \/ \E t \in Tasks : \/ peer_adder_spawn(t)
                        \/ mark_peer_connecting(t)
                        \/ set_peer_live(t)
                        \/ \E a \in Addrs : add_incoming_peer(t, a)
                        \/ \E error \in BOOLEAN : on_peer_died(t, error)
                        \/ drop_peer(t)

PeersSpec == PeersInit /\ [][PeersNext]_peerVars

-----------------------------------------------------------------------------
(* Properties *)

\* Every variable keeps the type of its declaration; permits never run below 0.
PeersTypeOK ==
    /\ states \in [Addrs -> Entries \cup {"none"}]
    /\ stats \in [Entries -> Int]
    /\ peer_queue \in Seq(Addrs)
    /\ sending \in [Addrs -> Nat]
    /\ adder \in Addrs \cup {NoAddr}
    /\ permits \in Nat
    /\ task \in [Tasks -> [st : TaskStates, addr : Addrs \cup {NoAddr}]]
    /\ \A t \in Tasks : task[t].st = "unused" \/ task[t].addr \in Addrs
    /\ sleeping \in [Addrs -> Nat]
    /\ finished \in BOOLEAN
    /\ sweep \subseteq Addrs
    /\ adds \in Nat
    /\ bugs \subseteq Bugs

TaskFor(a, st) == \E t \in Tasks : task[t] = [st |-> st, addr |-> a]

\* The statistics the API reports are the real numbers of peers in each state.
StatsMatch ==
    \A s \in Entries : stats[s] = Cardinality({a \in Addrs : states[a] = s})

\* The permits that are free and those the tasks hold are all there are: none is
\* lost or given back twice.
Holders == {t \in Tasks : task[t].st \in {"spawned", "running", "dropping"}}
PermitsMatch == permits + Cardinality(Holders) = Limit

\* "Limits how many active (occupying network resources) peers there are at a
\* moment in time": every entry that is connecting or live belongs to a task that
\* holds a permit, so their number stays within the limit.
ActiveWithinLimit ==
    /\ \A a \in Addrs : states[a] \in Active => TaskFor(a, "running")
    /\ Cardinality({a \in Addrs : states[a] \in Active}) <= Limit

\* A peer that is queued is on its way to the adder or to a connection, and a
\* dead one waits for its backoff, or is about to be dropped: connections that
\* come in meanwhile leave no entry that nobody will look at again.
NoPeerStranded ==
    \A a \in Addrs :
        /\ states[a] = "queued" =>
              \/ sending[a] > 0
              \/ a \in Range(peer_queue)
              \/ adder = a
              \/ TaskFor(a, "spawned") \/ TaskFor(a, "dropping")
        /\ states[a] = "dead" => sleeping[a] > 0 \/ TaskFor(a, "dropping")

\* Some peer's backoff gave up, and its entry was or will be dropped.
Exhausted == \E t \in Tasks : task[t].st \in {"dropping", "dropped"}

\* Until a backoff is exhausted, the entry of a task that runs is active, or was
\* marked as not needed after the end of the torrent, and the entry a backoff waits
\* for is there.
EntryOfTask ==
    /\ sweep # {} => finished
    /\ ~Exhausted =>
          /\ \A t \in Tasks : task[t].st = "running" =>
                \/ states[task[t].addr] \in Active
                \/ finished /\ states[task[t].addr] = "not_needed"
          /\ \A a \in Addrs : sleeping[a] > 0 => states[a] # "none"

\* As long as the torrent is not finished and no backoff is exhausted, an
\* address has one task, which TorrentLive takes for granted.
OneTaskPerAddress ==
    ~finished /\ ~Exhausted => \A t, u \in Tasks :
        /\ task[t].st = "running" /\ task[u].st = "running"
        /\ task[t].addr = task[u].addr
        => t = u

\* on_peer_died and the task that waits for a backoff log "bug: peer not found in
\* table", "bug: peer was in a wrong state" and "bug: peer disappeared" for what
\* they take to be impossible.  It is, until a backoff is exhausted: only the late
\* drop_peer of another connection can take an entry away.
BugsNeedExhaustion == [][bugs' # bugs => Exhausted]_peerVars

\* The numbers add up whichever tasks interleave on an entry: the counters per
\* state are those of the table, and the active entries stay within the limit.
CountsMatch == PeersTypeOK /\ StatsMatch /\ PermitsMatch /\ ActiveWithinLimit

\* No entry is without a task that will look at it again, and none has two, but for
\* what an exhausted backoff or the end of the torrent leaves behind.
EntriesHaveTasks == NoPeerStranded /\ EntryOfTask /\ OneTaskPerAddress
=============================================================================
