----------------------------- MODULE DhtLookup -----------------------------
(***************************************************************************)
(* A recursive request of the DHT (crates/dht/src/dht.rs): the queue of    *)
(* nodes to ask, the futures that ask them, the list of useful nodes, and  *)
(* below them the transactions: requests that wait under a transaction id  *)
(* for a datagram that may be late, lost or duplicated.  The lookup is a   *)
(* find_node, started by the bootstrap, or a get_peers.                    *)
(*                                                                         *)
(* Time is counted in transaction ids.  The age of a request, or of a      *)
(* datagram, is the number of ids given out since its own; it tells        *)
(* requests apart that have the same id.  The rate limiter and             *)
(* RESPONSE_TIMEOUT bound the age of an open request: at most 500 ids in a *)
(* second for 60 seconds, less than half of the 65536 there are.           *)
(*                                                                         *)
(* A node is a number, its distance from the target.  The callbacks of a   *)
(* find_node on the routing table are in DhtNode.                          *)
(***************************************************************************)
EXTENDS Naturals, SequencesExt

CONSTANTS
    Nodes,          \* ids of nodes, by their distance from the target
    AddrOf,         \* the address of a node
    NoId,           \* the id of a node of which only the address is known
    HostAddrs,      \* the addresses a find_node starts from, a sequence
    Roots,          \* the nodes a get_peers starts from, a sequence
    Kinds,          \* the kinds of lookups to start
    Answers,        \* the lists of nodes in responses
    AnnounceNodes,  \* nodes near enough to announce to
    MaxDepth,       \* max_depth (4 in the code)
    UsefulLimit,    \* useful_nodes_limit (32 or 256 in the code)
    TidSpace,       \* transaction ids (65536 in the code)
    Window,         \* age of an open request at its timeout
    Lifetime,       \* age at which the network has dropped a datagram
    MaxFuts,        \* bound: requests of the lookup at a time
    MaxAttempts,    \* bound: find_nodes until the backoff gives up
    MaxRounds,      \* bound: turns of the looper of a get_peers
    MaxRequeries    \* bound: useful nodes that may be asked again

ASSUME LookupAssumption ==
    /\ MaxDepth \in Nat /\ UsefulLimit \in Nat \ {0}
    /\ Window \in Nat \ {0} /\ Lifetime \in Nat /\ TidSpace \in Nat
    /\ Window <= Lifetime /\ Lifetime < TidSpace
    /\ Kinds \subseteq {"find_node", "get_peers"}
    /\ Nodes \subseteq Nat /\ MaxFuts \in Nat
    /\ Roots \in Seq(Nodes) /\ Answers \subseteq Seq(Nodes)

VARIABLES
    kind,           \* find_node or get_peers
    queue,          \* node_tx and node_rx
    futs,           \* request_one, by slot
    useful,         \* useful_nodes
    successes,      \* some request_one ended well
    unasked,        \* nodes should_request_node accepted and nobody asked since
    result,         \* of the lookup
    attempts,       \* of bootstrap_hostname_with_backoff, or rounds of the looper
    requeries,      \* for the bound
    worker,         \* the DhtWorker runs
    next_tid,       \* next_transaction_id
    inflight,       \* inflight_by_transaction_id, with the age of the request
    net             \* datagrams on their way to us

lookup == <<kind, queue, useful, successes, unasked, result, attempts, requeries>>
vars == <<lookup, futs, worker, next_tid, inflight, net>>

Slots == 1..MaxFuts
Free == [step |-> "free"]
Waiting == {"wait1", "wait2"}
Open == {s \in Slots : futs[s].step \in Waiting}

\* A request_one that has sent nothing yet.
NewFut(id, addr, depth) ==
    [id |-> id, addr |-> addr, depth |-> depth, step |-> "start1", tid |-> 0, age |-> 0]

-----------------------------------------------------------------------------
(* The list of useful nodes *)

\* The key of closest_nodes.sort_by_key: nodes that returned peers come first, then
\* those that responded, then the closer one.
Grade(a) == (IF a.returned_peers THEN 0 ELSE 2) + (IF a.responded THEN 0 ELSE 1)
Before(a, b) == Grade(a) < Grade(b) \/ (Grade(a) = Grade(b) /\ a.id < b.id)

\* The sort is stable: the place of an entry is the number of those up to it.
sort_by_key(list) ==
    LET UpTo(i) == {j \in DOMAIN list : \/ Before(list[j], list[i])
                                        \/ ~Before(list[i], list[j]) /\ j <= i}
    IN  [k \in DOMAIN list |-> list[CHOOSE i \in DOMAIN list : Cardinality(UpTo(i)) = k]]

NewUseful(id) == [id |-> id, addr |-> AddrOf[id], old |-> FALSE,
                  responded |-> FALSE, returned_peers |-> FALSE]

\* Mutant: an entry that is already in the list is not looked for.
should_request_node_again(list, id, depth) ==
    LET pushed == sort_by_key(Append(list, NewUseful(id)))
    IN  IF depth >= MaxDepth \/ Len(pushed) > UsefulLimit
          THEN [yes |-> FALSE, list |-> list]
          ELSE [yes |-> TRUE, list |-> pushed]

\* should_request_node: the verdict, and the list after it.  A node that is
\* pushed over the limit drops the last of the list, which may be itself.
should_request_node(list, id, depth) ==
    LET known == {i \in DOMAIN list : list[i].id = id}
        pushed == sort_by_key(Append(list, NewUseful(id)))
    IN  IF depth >= MaxDepth THEN [yes |-> FALSE, list |-> list]
        ELSE IF known # {}
          THEN LET i == CHOOSE j \in known : TRUE
               IN  [yes |-> list[i].old, list |-> [list EXCEPT ![i].old = FALSE]]
        ELSE IF Len(pushed) > UsefulLimit
          THEN [yes |-> Last(pushed).id # id, list |-> Front(pushed)]
        ELSE [yes |-> TRUE, list |-> pushed]

\* One node of a response: acc is the list, and what goes to node_tx.
HandleNode(acc, n, depth) ==
    LET r == should_request_node(acc.list, n, depth)
    IN  [list |-> r.list,
         send |-> IF r.yes THEN Append(acc.send, [id |-> n, addr |-> AddrOf[n], depth |-> depth + 1])
                           ELSE acc.send]

\* The nodes of a response, one after the other.
HandleNodes(list, nodes, depth) ==
    LET after[k \in 0..Len(nodes)] ==
            IF k = 0 THEN [list |-> list, send |-> <<>>]
            ELSE HandleNode(after[k - 1], nodes[k], depth)
    IN  after[Len(nodes)]

\* mark_node_responded: the first entry with the address.
mark_node_responded(addr, values) ==
    LET at == {i \in DOMAIN useful : useful[i].addr = addr}
        first == CHOOSE i \in at : \A j \in at : i <= j
    IN  useful' = IF at = {} THEN useful
                  ELSE [useful EXCEPT ![first].responded = TRUE,
                                      ![first].returned_peers = values]

\* A minute passes since an entry was last requested.
requery_interval(i) ==
    /\ ~useful[i].old
    /\ requeries < MaxRequeries
    /\ requeries' = requeries + 1
    /\ useful' = [useful EXCEPT ![i].old = TRUE]
    /\ UNCHANGED <<kind, queue, successes, unasked, result, attempts, futs, worker,
                   next_tid, inflight, net>>

-----------------------------------------------------------------------------
(* Transactions *)

\* The timers of older requests and the network have kept up, so that one more
\* id may be given out.
InTime == /\ \A e \in inflight : e.age < Window
          /\ \A d \in net : d.age < Lifetime

OneOlder(S) == {[x EXCEPT !.age = @ + 1] : x \in S}
AgedFuts == [s \in Slots |-> IF s \in Open THEN [futs[s] EXCEPT !.age = @ + 1] ELSE futs[s]]

\* Mutant: ids have one bit less.
create_request_short(addr, under_way) ==
    /\ InTime
    /\ next_tid' = (next_tid + 1) % (TidSpace \div 2)
    /\ net' = OneOlder(under_way) \cup {[tid |-> next_tid, addr |-> addr, age |-> 0]}

\* create_request, with the datagram that may come back for it.
create_request(addr, under_way) ==
    /\ InTime
    /\ next_tid' = (next_tid + 1) % TidSpace
    /\ net' = OneOlder(under_way) \cup {[tid |-> next_tid, addr |-> addr, age |-> 0]}

KeyOf(e) == <<e.tid, e.addr>>

\* inflight_by_transaction_id.insert: an entry with the same key is replaced.
InsertEntry(tid, addr) ==
    {e \in OneOlder(inflight) : KeyOf(e) # <<tid, addr>>}
        \cup {[tid |-> tid, addr |-> addr, age |-> 0]}

\* inflight_by_transaction_id.remove(&(tid, addr))
RemoveEntry(tid, addr) == {e \in inflight : KeyOf(e) # <<tid, addr>>}

\* request, up to the wait; the rate limiter has let it through.
request(s) ==
    /\ futs[s].step \in {"start1", "start2"}
    /\ worker
    /\ create_request(futs[s].addr, net)
    /\ inflight' = InsertEntry(next_tid, futs[s].addr)
    /\ futs' = [AgedFuts EXCEPT ![s].step = IF @ = "start1" THEN "wait1" ELSE "wait2",
                                ![s].tid = next_tid, ![s].age = 0]
    /\ UNCHANGED <<lookup, worker>>

-----------------------------------------------------------------------------
(* request_one *)

\* request_one returns an error.
EndWithError(s) ==
    /\ futs' = [futs EXCEPT ![s] = Free]
    /\ UNCHANGED <<successes>>

\* Mutant: a request that failed is repeated until it succeeds.
request_failed_retries(s) ==
    /\ futs' = [futs EXCEPT ![s].step = IF @ \in {"start1", "wait1"} THEN "start1" ELSE "start2",
                            ![s].tid = 0, ![s].age = 0]
    /\ UNCHANGED successes

\* A request came to nothing.  After the first one the node is asked again, after
\* the second the future ends (mark_node_error only counts).
request_failed(s) ==
    IF futs[s].step \in {"start1", "wait1"}
      THEN /\ futs' = [futs EXCEPT ![s].step = "start2", ![s].tid = 0, ![s].age = 0]
           /\ UNCHANGED successes
      ELSE EndWithError(s)

\* RESPONSE_TIMEOUT has passed.
timeout(s) ==
    /\ s \in Open
    /\ inflight' = RemoveEntry(futs[s].tid, futs[s].addr)
    /\ request_failed(s)
    /\ UNCHANGED <<kind, queue, useful, unasked, result, attempts, worker, next_tid,
                   net, requeries>>

\* The socket refuses the datagram of a request that is still open.
on_send_error(s) ==
    /\ s \in Open
    /\ futs[s].age = 0
    /\ inflight' = RemoveEntry(futs[s].tid, futs[s].addr)
    /\ net' = {d \in net : d.age # 0}
    /\ request_failed(s)
    /\ UNCHANGED <<kind, queue, useful, unasked, result, attempts, worker, next_tid, requeries>>

\* worker_sender.send fails: the worker has ended.
send_failed(s) ==
    /\ futs[s].step \in {"start1", "start2"}
    /\ ~worker
    /\ request_failed(s)
    /\ UNCHANGED <<kind, queue, useful, unasked, result, attempts, worker, next_tid,
                   inflight, net, requeries>>

\* The request that entry e answers, if its receiver is still there.
OwnerOf(e) == {s \in Open : futs[s].age = e.age}

\* on_received_message for an answer that nobody waits for.
outstanding_request_not_found(d) ==
    /\ KeyOf(d) \notin {KeyOf(e) : e \in inflight}
    /\ net' = net \ {d}
    /\ UNCHANGED <<lookup, futs, worker, next_tid, inflight>>

\* The answer to the first request of request_one: mark_node_responded, and for
\* get_peers the announce, which takes a transaction id and leaves no entry.
first_answer(d, dup, values, announce) ==
    \E e \in inflight : \E s \in OwnerOf(e) :
        /\ KeyOf(e) = KeyOf(d)
        /\ futs[s].step = "wait1"
        /\ mark_node_responded(d.addr, values)
        /\ IF announce
             THEN /\ kind = "get_peers"
                  /\ futs[s].id \in AnnounceNodes
                  /\ create_request(d.addr, IF dup THEN net ELSE net \ {d})
                  /\ inflight' = OneOlder(RemoveEntry(d.tid, d.addr))
                  /\ futs' = [AgedFuts EXCEPT ![s].step = "start2", ![s].tid = 0, ![s].age = 0]
             ELSE /\ inflight' = RemoveEntry(d.tid, d.addr)
                  /\ net' = IF dup THEN net ELSE net \ {d}
                  /\ futs' = [futs EXCEPT ![s].step = "start2", ![s].tid = 0, ![s].age = 0]
                  /\ UNCHANGED next_tid
        /\ UNCHANGED <<kind, queue, successes, unasked, result, attempts, worker, requeries>>

\* The answer to the second one is an error.
second_answer_error(d, dup) ==
    \E e \in inflight : \E s \in OwnerOf(e) :
        /\ KeyOf(e) = KeyOf(d)
        /\ futs[s].step = "wait2"
        /\ inflight' = RemoveEntry(d.tid, d.addr)
        /\ net' = IF dup THEN net ELSE net \ {d}
        /\ EndWithError(s)
        /\ UNCHANGED <<kind, queue, useful, unasked, result, attempts, worker,
                       next_tid, requeries>>

\* The answer to the second one: its peers go to peer_tx, which for a find_node
\* has lost its receiver, then its nodes are looked at.
second_answer(d, dup, values, nodes) ==
    \E e \in inflight : \E s \in OwnerOf(e) :
        /\ KeyOf(e) = KeyOf(d)
        /\ futs[s].step = "wait2"
        /\ inflight' = RemoveEntry(d.tid, d.addr)
        /\ net' = IF dup THEN net ELSE net \ {d}
        /\ futs' = [futs EXCEPT ![s] = Free]
        /\ IF values /\ kind = "find_node"
             THEN UNCHANGED <<successes, useful, queue, unasked>>
             ELSE LET r == HandleNodes(useful, nodes, futs[s].depth)
                  IN  /\ successes' = TRUE
                      /\ useful' = r.list
                      /\ queue' = queue \o r.send
                      /\ unasked' = unasked \cup {r.send[i].id : i \in DOMAIN r.send}
        /\ UNCHANGED <<kind, result, attempts, worker, next_tid, requeries>>

\* The network loses a datagram.
lose(d) ==
    /\ net' = net \ {d}
    /\ UNCHANGED <<lookup, futs, worker, next_tid, inflight>>

-----------------------------------------------------------------------------
(* The loops *)

FreeSlot == CHOOSE s \in Slots : futs[s] = Free /\ \A t \in 1..(s - 1) : futs[t] # Free

\* node_rx.recv(): a future for the node is pushed.
node_rx_recv ==
    /\ result = "running"
    /\ queue # <<>>
    /\ \E s \in Slots : futs[s] = Free
    /\ LET q == Head(queue)
       IN  /\ futs' = [futs EXCEPT ![FreeSlot] = NewFut(q.id, q.addr, q.depth)]
           /\ unasked' = unasked \ {q.id}
    /\ queue' = Tail(queue)
    /\ UNCHANGED <<kind, useful, successes, result, attempts, worker, next_tid,
                   inflight, net, requeries>>

\* get_peers_root: the looper queues the closest nodes of the routing table, again
\* after every sleep.
get_peers_root ==
    /\ kind = "get_peers"
    /\ attempts < MaxRounds
    /\ attempts' = attempts + 1
    /\ queue' = queue \o [i \in DOMAIN Roots |->
                              [id |-> Roots[i], addr |-> AddrOf[Roots[i]], depth |-> 0]]
    /\ UNCHANGED <<kind, useful, successes, unasked, result, futs, worker,
                   next_tid, inflight, net, requeries>>

\* The first futures of a find_node know only addresses.
FirstFuts == [s \in Slots |-> IF s \in DOMAIN HostAddrs
                                THEN NewFut(NoId, HostAddrs[s], 0)
                                ELSE Free]

\* find_node_for_routing_table: the select is biased, the queue comes first.
find_node_done ==
    /\ kind = "find_node" /\ result = "running"
    /\ queue = <<>>
    /\ \A s \in Slots : futs[s] = Free
    /\ result' = IF successes THEN "ok" ELSE "failed"
    /\ UNCHANGED <<kind, queue, useful, successes, unasked, attempts, futs, worker,
                   next_tid, inflight, net, requeries>>

\* bootstrap_hostname_with_backoff: a new find_node after the backoff.
bootstrap_retry ==
    /\ result = "failed"
    /\ attempts < MaxAttempts
    /\ attempts' = attempts + 1
    /\ result' = "running"
    /\ futs' = FirstFuts
    /\ useful' = <<>>
    /\ unasked' = {}
    /\ UNCHANGED <<kind, queue, successes, worker, next_tid, inflight, net, requeries>>

\* The backoff has given up, and with it the worker (`result?` in start).
bootstrap_failed ==
    /\ \/ result = "failed" /\ attempts = MaxAttempts
       \/ kind = "get_peers"
    /\ worker
    /\ worker' = FALSE
    /\ UNCHANGED <<lookup, futs, next_tid, inflight, net>>

Init ==
    /\ kind \in Kinds
    /\ queue = <<>>
    /\ futs = IF kind = "find_node" THEN FirstFuts ELSE [s \in Slots |-> Free]
    /\ useful = <<>>
    /\ successes = FALSE
    /\ unasked = {}
    /\ result = "running"
    /\ attempts = IF kind = "find_node" THEN 1 ELSE 0
    /\ requeries = 0
    /\ worker = TRUE
    /\ next_tid = 0
    /\ inflight = {}
    /\ net = {}

Receive(d) ==
    \/ outstanding_request_not_found(d)
    \/ \E dup, values, announce \in BOOLEAN : first_answer(d, dup, values, announce)
    \/ \E dup \in BOOLEAN : second_answer_error(d, dup)
    \/ \E dup, values \in BOOLEAN, nodes \in Answers : second_answer(d, dup, values, nodes)

Next ==
    \/ \E i \in DOMAIN useful : requery_interval(i)
    \/ \E s \in Slots : request(s) \/ timeout(s) \/ on_send_error(s) \/ send_failed(s)
    \/ \E d \in net : Receive(d) \/ lose(d)
    \/ node_rx_recv
    \/ get_peers_root
    \/ find_node_done
    \/ bootstrap_retry
    \/ bootstrap_failed

Spec == Init /\ [][Next]_vars

\* The runtime polls the futures and the loop, the timers fire, datagrams do not
\* stay under way for ever.  No answer need ever arrive.
Fairness ==
    /\ WF_vars(\E s \in Slots : request(s))
    /\ \A s \in Slots : WF_vars(timeout(s)) /\ WF_vars(send_failed(s))
    /\ WF_vars(\E d \in net : lose(d))
    /\ WF_vars(node_rx_recv)
    /\ WF_vars(find_node_done)
    /\ WF_vars(bootstrap_retry)
    /\ WF_vars(bootstrap_failed)

FairSpec == Spec /\ Fairness

-----------------------------------------------------------------------------
(* Properties *)

\* Every piece of state has its type: the list of useful nodes stays within its limit,
\* no node deeper than max_depth is asked, and no request outlives its timeout.
TypeOK ==
    /\ Len(useful) <= UsefulLimit
    /\ \A s \in Slots : futs[s] # Free =>
          /\ futs[s].step \in {"start1", "wait1", "start2", "wait2"}
          /\ futs[s].depth \in 0..MaxDepth
          /\ futs[s].age \in 0..Window
    /\ next_tid \in 0..(TidSpace - 1)
    /\ result \in {"running", "ok", "failed"}

\* A datagram is only ever matched with the request it answers, however late or
\* often it comes and though transaction ids wrap (on_received_message).
AnswersMatch ==
    \A d \in net, e \in inflight : KeyOf(d) = KeyOf(e) => d.age = e.age

\* Every request that waits has its entry: none is replaced by a later request, nor
\* removed by the timeout of another (the warning "recv error, did not expect this"),
\* and every entry has a request that waits, so the map does not grow.
EntryPerRequest ==
    /\ \A s \in Open : [tid |-> futs[s].tid, addr |-> futs[s].addr, age |-> futs[s].age] \in inflight
    /\ \A e \in inflight : \E s \in Open : futs[s].age = e.age /\ futs[s].addr = e.addr

\* useful_nodes has an entry for an id at most once, whatever order its nodes answer
\* in and whichever of them the limit has dropped.
UsefulUnique == \A i, j \in DOMAIN useful : useful[i].id = useful[j].id => i = j

\* A find_node that ends has asked every node it decided to ask.
AllAsked == result # "running" => unasked = {}

\* A lookup of the bootstrap ends, whatever the nodes answer, and when none has
\* answered the worker ends too.
LookupEnds ==
    kind = "find_node" => <>[](result = "ok" \/ (result = "failed" /\ ~worker))

\* Requests and datagrams find each other: an entry for every open request, and no
\* datagram for another's entry.
RequestsMatch == TypeOK /\ AnswersMatch /\ EntryPerRequest

\* The list of useful nodes decides who is asked: it has a node once, and a node it
\* admits is asked.
UsefulAsked == UsefulUnique /\ AllAsked
=============================================================================
