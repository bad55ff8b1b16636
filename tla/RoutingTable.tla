---------------------------- MODULE RoutingTable ----------------------------
(***************************************************************************)
(* The routing table of the DHT (crates/dht/src/routing_table.rs): a tree  *)
(* of buckets over the space of ids.  A table is a record; every method    *)
(* is an operator from the table before the call to the table after it.    *)
(*                                                                         *)
(* The nodes of a leaf are kept sorted by id, so a leaf is a set of ids.   *)
(* An Instant is "none" (never), "fresh" (less than INACTIVITY_TIMEOUT     *)
(* ago) or "stale".  Errors in a row are counted up to 2, the only number  *)
(* the code compares with.                                                 *)
(***************************************************************************)
EXTENDS HashId, Sequences, FiniteSets

CONSTANTS
    K,              \* nodes in a bucket (8 in the code)
    MaxSize         \* nodes in the table (512 in the code)

ASSUME TableAssumption ==
    /\ K \in Nat /\ K >= 2
    /\ MaxSize \in Nat \ {0}

Instants == {"none", "fresh", "stale"}
Stamps == [last_request : Instants, last_response : Instants,
           last_query : Instants, errors_in_a_row : 0..2]

-----------------------------------------------------------------------------
(* Ranges of ids *)

\* The ids generate_random_id may return.
generate_random_id(start, bits) ==
    {id \in Ids : \A i \in 0..(IdBits - bits - 1) : get_bit(id, i) = get_bit(start, i)}

\* The two halves of a range, as <<first, last>> each.
compute_split_start_end(start, end, bits) ==
    LET changing_bit == IdBits - bits
    IN  <<<<start, set_bit(end, changing_bit, 0)>>, <<set_bit(start, changing_bit, 1), end>>>>

\* The three debug_assert! of compute_split_start_end.
SplitAsserts(start, end, bits) ==
    LET halves == compute_split_start_end(start, end, bits)
    IN  /\ Before(start, halves[1][2])
        /\ Before(halves[1][2], halves[2][1])
        /\ Before(halves[2][1], end)

-----------------------------------------------------------------------------
(* The nodes *)

NewStamps == [last_request |-> "none", last_response |-> "none",
              last_query |-> "none", errors_in_a_row |-> 0]

Bad(s) == s.last_request # "none" /\ s.errors_in_a_row >= 2

\* Mutant: one error is enough.
status_hasty(s) ==
    IF s.last_request # "none" /\ s.errors_in_a_row >= 1 THEN "Bad" ELSE "Unknown"

\* RoutingTableNode::status: the first arm that matches; an arm tries both of
\* its patterns.
status(s) ==
    IF Bad(s) THEN "Bad"
    ELSE IF /\ s.last_request # "none" /\ s.last_response # "none"
            /\ "fresh" \in {s.last_response, s.last_query} THEN "Good"
    ELSE IF /\ "stale" \in {s.last_response, s.last_query}
            /\ s.last_request # "fresh" THEN "Questionable"
    ELSE "Unknown"

OutgoingRequest(s) == [s EXCEPT !.last_request = "fresh"]
LastQuery(s) == [s EXCEPT !.last_query = "fresh"]
Response(s) ==
    [s EXCEPT !.last_response = "fresh",
              !.last_request = IF @ = "none" THEN "fresh" ELSE @,
              !.errors_in_a_row = 0]
Error(s) == [s EXCEPT !.errors_in_a_row = IF @ < 2 THEN @ + 1 ELSE 2]

-----------------------------------------------------------------------------
(* The tree of buckets *)

Leaf(bits, start, end, nodes) ==
    [bits |-> bits, start |-> start, end |-> end, left |-> 0, right |-> 0, nodes |-> nodes]

IsLeaf(b) == b.left = 0
InRange(b, id) == ~Before(id, b.start) /\ ~Before(b.end, id)

\* RoutingTable::new.  total is RoutingTable::size, size is BucketTree::size.
NewTable ==
    [data  |-> <<Leaf(IdBits, [i \in Bits |-> 0], [i \in Bits |-> 1], {})>>,
     size  |-> 0,
     total |-> 0,
     node  |-> [id \in Ids |-> NewStamps]]

\* The index of the leaf for an id: the descent of the loop, step by step.
get_leaf(data, id) ==
    LET at[k \in 0..IdBits] ==
            IF k = 0 THEN 1
            ELSE LET b == data[at[k - 1]]
                 IN  CASE IsLeaf(b) -> at[k - 1]
                       [] ~IsLeaf(b) /\ InRange(data[b.left], id) -> b.left
                       [] OTHER -> b.right
    IN  at[IdBits]

\* BucketTreeIterator: the leaves below the root.
iter_leaves(data) ==
    LET below[k \in 0..IdBits] ==
            IF k = 0 THEN {1}
            ELSE UNION {{data[i].left, data[i].right} :
                            i \in {j \in below[k - 1] : ~IsLeaf(data[j])}}
    IN  {i \in UNION {below[k] : k \in 0..IdBits} : IsLeaf(data[i])}

\* BucketTree::iter
NodeIds(t) == UNION {t.data[i].nodes : i \in iter_leaves(t.data)}

BadNodes(t, idx) == {id \in t.data[idx].nodes : status(t.node[id]) = "Bad"}

\* The nodes of a leaf are sorted: the first of some of them.
First(ids) == CHOOSE a \in ids : \A b \in ids : ~Before(b, a)

\* What insert_into_leaf does in one turn of its loop: the first check that
\* applies decides.
InsertResult(t, idx, self_id, id) ==
    LET b == t.data[idx]
    IN  IF id \in b.nodes THEN "WasExisting"
        ELSE IF BadNodes(t, idx) # {} THEN "ReplacedBad"
        ELSE IF t.size = MaxSize THEN "Ignored"
        ELSE IF Cardinality(b.nodes) < K THEN "Added"
        ELSE IF ~InRange(b, self_id) THEN "Ignored"
        ELSE "Split"

\* Mutant: the node at the border goes to the wrong half.
Split_border(data, idx) ==
    LET b == data[idx]
        halves == compute_split_start_end(b.start, b.end, b.bits)
        left(id) == ~Before(halves[2][1], id)
    IN  [data EXCEPT ![idx] = [@ EXCEPT !.left = Len(data) + 1, !.right = Len(data) + 2,
                                        !.nodes = {}]]
        \o <<Leaf(b.bits - 1, halves[1][1], halves[1][2], {id \in b.nodes : left(id)}),
             Leaf(b.bits - 1, halves[2][1], halves[2][2], {id \in b.nodes : ~left(id)})>>

\* A full leaf becomes an inner node with two leaves at the end of the vector.
Split(data, idx) ==
    LET b == data[idx]
        halves == compute_split_start_end(b.start, b.end, b.bits)
        left(id) == Before(id, halves[2][1])
    IN  [data EXCEPT ![idx] = [@ EXCEPT !.left = Len(data) + 1, !.right = Len(data) + 2,
                                        !.nodes = {}]]
        \o <<Leaf(b.bits - 1, halves[1][1], halves[1][2], {id \in b.nodes : left(id)}),
             Leaf(b.bits - 1, halves[2][1], halves[2][2], {id \in b.nodes : ~left(id)})>>

\* The turns of the loop of insert_into_leaf: the table and the leaf looked at
\* after k splits.
InsertLoop(t, self_id, id) ==
    LET turn[k \in 0..IdBits] ==
            IF k = 0 THEN [t |-> t, idx |-> get_leaf(t.data, id)]
            ELSE LET now == turn[k - 1]
                     b == now.t.data[now.idx]
                     halves == compute_split_start_end(b.start, b.end, b.bits)
                 IN  IF InsertResult(now.t, now.idx, self_id, id) # "Split" THEN now
                     ELSE [t   |-> [now.t EXCEPT !.data = Split(@, now.idx)],
                           idx |-> Len(now.t.data) + (IF Before(id, halves[2][1]) THEN 1 ELSE 2)]
    IN  turn[IdBits]

\* RoutingTable::add_node: the result, and the table with the node in it.
\* A node that replaces a bad one is counted in total as if it were added.
add_node(t, self_id, id) ==
    LET end == InsertLoop(t, self_id, id)
        res == InsertResult(end.t, end.idx, self_id, id)
        bad == First(BadNodes(end.t, end.idx))
    IN  [res |-> res,
         table |->
            CASE res = "Added" ->
                    [end.t EXCEPT !.data[end.idx].nodes = @ \cup {id},
                                  !.size = @ + 1, !.total = @ + 1,
                                  !.node[id] = NewStamps]
              [] res = "ReplacedBad" ->
                    [end.t EXCEPT !.data[end.idx].nodes = (@ \ {bad}) \cup {id},
                                  !.total = @ + 1,
                                  !.node[id] = NewStamps,
                                  !.node[bad] = NewStamps]
              [] OTHER -> end.t]

\* RoutingTable::mark_*: get_mut finds the node in the leaf for its id.
mark(t, id, stamps) ==
    IF id \in t.data[get_leaf(t.data, id)].nodes
      THEN [t EXCEPT !.node[id] = stamps]
      ELSE t

mark_outgoing_request(t, id) == mark(t, id, OutgoingRequest(t.node[id]))
mark_response(t, id) == mark(t, id, Response(t.node[id]))
mark_error(t, id) == mark(t, id, Error(t.node[id]))
mark_last_query(t, id) == mark(t, id, LastQuery(t.node[id]))

\* Serialization: the time stamps are skipped.
Restored(t) == [t EXCEPT !.node = [id \in Ids |-> NewStamps]]

-----------------------------------------------------------------------------
(* What a table promises *)

\* The leaves cut the id space into pieces without gaps or overlaps, every
\* node is where get_leaf looks for it, no leaf is overfull, and only ranges
\* that contained our own id were ever split.
TableSound(t, self_id) ==
    LET leaves == iter_leaves(t.data) IN
    /\ \A id \in Ids : /\ \E i \in leaves : InRange(t.data[i], id)
                       /\ \A i \in leaves : InRange(t.data[i], id) <=> i = get_leaf(t.data, id)
    /\ \A i \in leaves : /\ Cardinality(t.data[i].nodes) <= K
                         /\ \A id \in t.data[i].nodes : InRange(t.data[i], id)
    /\ \A i \in DOMAIN t.data \ leaves : InRange(t.data[i], self_id)

=============================================================================
