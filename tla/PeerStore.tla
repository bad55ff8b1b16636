----------------------------- MODULE PeerStore -----------------------------
(***************************************************************************)
(* The peers that other DHT nodes announce to us, and the tokens we gave   *)
(* them (crates/dht/src/peer_store.rs).  A store is a record; every method *)
(* is an operator from the store before the call to the store after it.    *)
(*                                                                         *)
(* An address is a record of an ip and a port.  The time at which a peer   *)
(* was stored is left out: nothing reads it.                               *)
(***************************************************************************)
EXTENDS HashId, Sequences, FiniteSets

CONSTANTS
    Hashes,         \* info hashes
    MaxTokens,      \* max_remembered_tokens (1000 in the code)
    MaxPeers,       \* max_remembered_peers (1000 in the code)
    MaxDistance     \* max_distance to an info hash that is stored

ASSUME StoreAssumption ==
    /\ MaxTokens \in Nat \ {0}
    /\ MaxPeers \in Nat \ {0}
    /\ Hashes \subseteq Ids
    /\ MaxDistance \in Ids

\* PeerStore::new
NewStore == [tokens |-> <<>>, peers |-> [h \in Hashes |-> {}], peers_len |-> 0]

\* gen_token_for: a new token at the back; over the limit the front is dropped.
gen_token_for(s, token, node, addr) ==
    LET tokens == Append(s.tokens, [token |-> token, node |-> node, addr |-> addr])
    IN  [s EXCEPT !.tokens = IF Len(tokens) > MaxTokens THEN Tail(tokens) ELSE tokens]

TokenKnown(s, ann, addr) ==
    \E i \in DOMAIN s.tokens :
        s.tokens[i] = [token |-> ann.token, node |-> ann.node, addr |-> addr]

\* The peer that is stored: the sender, unless it gave a port.
PeerAddr(ann, addr) == IF ann.implied_port THEN addr ELSE [addr EXCEPT !.port = ann.port]

\* Mutant: a peer that is announced again is counted again.
store_peer_recount(s, ann, addr, dist) ==
    LET peer == PeerAddr(ann, addr)
        stored == peer \in s.peers[ann.info_hash]
    IN  IF Before(MaxDistance, dist) \/ ~TokenKnown(s, ann, addr)
           \/ (~stored /\ s.peers_len >= MaxPeers)
          THEN s
          ELSE [s EXCEPT !.peers[ann.info_hash] = @ \cup {peer}, !.peers_len = @ + 1]

\* store_peer; dist is the distance of the info hash from our id.
store_peer(s, ann, addr, dist) ==
    LET peer == PeerAddr(ann, addr)
        stored == peer \in s.peers[ann.info_hash]
    IN  IF Before(MaxDistance, dist) \/ ~TokenKnown(s, ann, addr)
           \/ stored \/ s.peers_len >= MaxPeers
          THEN s
          ELSE [s EXCEPT !.peers[ann.info_hash] = @ \cup {peer}, !.peers_len = @ + 1]

\* The length of all the lists of peers.
PeerCount(peers) == Cardinality(UNION {{h} \X peers[h] : h \in Hashes})

\* Deserialization counts the peers; the number in the file is not used.
RestoredStore(tokens, peers) ==
    [tokens |-> tokens, peers |-> peers, peers_len |-> PeerCount(peers)]

=============================================================================
