--------------------------- MODULE PeerConnection ---------------------------
(***************************************************************************)
(* One connection to a peer (peer_connection.rs, read_buf.rs, the messages *)
(* of peer_binary_protocol, session.rs for the connections of others): the *)
(* handshakes of both directions, the reader with the buffer that puts     *)
(* messages together from arbitrary reads, and the writer.  The reader and *)
(* the writer run concurrently with the peer handler's callbacks and with  *)
(* the other peers, whose pieces are announced to this one.                *)
(*                                                                         *)
(* A byte is the pair <<message, offset>>: the buffer moves bytes, and the *)
(* deserializer sees only what is in the buffer.  A message has a kind,    *)
(* which fixes its length.  Lengths are scaled by the size of an integer.  *)
(***************************************************************************)
EXTENDS Naturals, SequencesExt

CONSTANTS
    Directions,     \* subset of {"incoming", "outgoing"}
    IntLen,         \* INTEGER_LEN (4 in the code)
    HandshakeLen,   \* length of a handshake
    BufLen,         \* initial length of ReadBuf::buf
    Payload,        \* kind of message -> length of what follows its id
    Streams,        \* what peers send after their handshake: sequences of messages
    Pieces,
    MaxOthers       \* bound: other connections the listener accepts

\* A message has a length, and those about pieces name pieces of the torrent.
KnownMessage(m) ==
    /\ m.kind \in DOMAIN Payload \cup {"keepalive"}
    /\ m.kind \in {"have", "bitfield"} => m.pieces \subseteq Pieces

ASSUME ConnectionAssumption ==
    /\ IntLen \in Nat \ {0} /\ HandshakeLen \in Nat \ {0}
    /\ BufLen \in Nat /\ BufLen >= HandshakeLen
    /\ Directions \subseteq {"incoming", "outgoing"}
    /\ MaxOthers \in Nat
    /\ \A k \in DOMAIN Payload : Payload[k] \in Nat
    /\ \A s \in Streams : Len(s) \in Nat /\ \A i \in 1..Len(s) : KnownMessage(s[i])

VARIABLES
    dir,            \* direction of the connection
    remote,         \* the peer: its handshake, the messages it sends and their bytes
    phase,          \* progress of the connection
    rb,             \* ReadBuf
    taken,          \* bytes read from the socket so far
    delivered,      \* messages handed to the handler
    outgoing_chan,  \* WriterRequests
    writer,         \* progress of the writer
    wire,           \* what was written to the socket
    peer_interested, peer_has,  \* LivePeerState of this peer
    have,           \* pieces marked as downloaded
    have_bytes,     \* get_approx_have_bytes() > 0
    finishing,      \* pieces between mark_piece_downloaded and maybe_transmit_haves
    haves,          \* Have messages of transmit_haves tasks, not yet queued
    untold,         \* history: pieces finished while this peer was not interested or had them
    listener,       \* task_tcp_listener: the branches its select polls
    others          \* checks of other connections under way, and how many there were

reading == <<rb, taken, delivered>>
writing == <<outgoing_chan, writer, wire>>
torrent == <<have, have_bytes, finishing, haves, untold>>
accepting == <<listener, others>>
vars == <<dir, remote, phase, reading, writing, peer_interested, peer_has, torrent, accepting>>

-----------------------------------------------------------------------------
(* Messages *)

\* Length of a message: a keep-alive is a length prefix alone.
MsgLen(m) == IF m.kind = "keepalive" THEN IntLen ELSE IntLen + 1 + Payload[m.kind]

\* Where each message of a stream ends in what the peer sends; message 0 is its
\* handshake.
Ends(stream) ==
    LET end[i \in 0..Len(stream)] ==
            IF i = 0 THEN HandshakeLen ELSE end[i - 1] + MsgLen(stream[i])
    IN  end

\* The bytes the peer sends, one message after the other.
Bytes(stream) ==
    LET Start(i) == IF i = 0 THEN 0 ELSE Ends(stream)[i - 1]
        MessageAt(p) == CHOOSE i \in 0..Len(stream) : Start(i) < p /\ p <= Ends(stream)[i]
    IN  [p \in 1..Ends(stream)[Len(stream)] |-> <<MessageAt(p), p - Start(MessageAt(p))>>]

\* What is at the front of the bytes, beyond the length prefix and the id: nothing
\* the protocol knows (UnsupportedMessageId, IncorrectLenPrefix), or a message with
\* all its bytes in order.
Garbled(bytes, i) ==
    \E o \in 1..Len(bytes) : o <= MsgLen(remote.stream[i]) /\ bytes[o] # <<i, o>>

\* Mutant: a message that ends where the buffer ends is taken for incomplete.
deserialize_strict(bytes) ==
    LET i == bytes[1][1]
        size == MsgLen(remote.stream[i])
    IN  CASE Len(bytes) < IntLen -> [res |-> "not_enough", need |-> IntLen]
          [] Len(bytes) >= IntLen /\ (i = 0 \/ Garbled(bytes, i) \/ remote.stream[i].kind = "unsupported")
               -> [res |-> "error"]
          [] OTHER -> IF Len(bytes) <= size THEN [res |-> "not_enough", need |-> 1 + size - Len(bytes)]
                      ELSE [res |-> "message", index |-> i, size |-> size]

\* Mutant: a message is taken as soon as its id is there.
deserialize_early(bytes) ==
    LET i == bytes[1][1]
        size == MsgLen(remote.stream[i])
    IN  CASE Len(bytes) < IntLen -> [res |-> "not_enough", need |-> IntLen]
          [] Len(bytes) >= IntLen /\ (i = 0 \/ Garbled(bytes, i) \/ remote.stream[i].kind = "unsupported")
               -> [res |-> "error"]
          [] OTHER -> [res |-> "message", index |-> i,
                       size |-> IF size < Len(bytes) THEN size ELSE Len(bytes)]

\* Message::deserialize on what is between processed and filled: how many bytes it
\* misses, an error, or the message and its size.
deserialize(bytes) ==
    LET i == bytes[1][1]
        size == MsgLen(remote.stream[i])
    IN  IF Len(bytes) < IntLen THEN [res |-> "not_enough", need |-> IntLen]
        ELSE IF i = 0 \/ Garbled(bytes, i) THEN [res |-> "error"]
        ELSE IF size > IntLen /\ Len(bytes) = IntLen THEN [res |-> "not_enough", need |-> 1]
        ELSE IF remote.stream[i].kind = "unsupported" THEN [res |-> "error"]
        ELSE IF Len(bytes) < size THEN [res |-> "not_enough", need |-> size - Len(bytes)]
        ELSE [res |-> "message", index |-> i, size |-> size]

-----------------------------------------------------------------------------
(* ReadBuf *)

\* prepare_for_read: what is left moves to the front, the buffer grows when the
\* message would not fit.  Vec::reserve doubles at least.
prepare_for_read(b, need) ==
    LET kept == SubSeq(b.data, b.processed + 1, Len(b.data))
        grown == IF 2 * b.len > b.len + need THEN 2 * b.len ELSE b.len + need
    IN  [b EXCEPT !.data = kept, !.processed = 0,
                  !.len = IF @ < Len(kept) + need THEN grown ELSE @]

\* filled is the length of data.
Unprocessed == SubSeq(rb.data, rb.processed + 1, Len(rb.data))

\* A read returns any number of the next bytes that fit.
ReadSome(b) ==
    \E k \in 1..(b.len - Len(b.data)) :
        /\ taken + k <= Len(remote.bytes)
        /\ rb' = [b EXCEPT !.data = @ \o SubSeq(remote.bytes, taken + 1, taken + k)]
        /\ taken' = taken + k

\* read_handshake reads once; a handshake that arrives in two parts is an error.
read_handshake(next) ==
    \E k \in 1..BufLen :
        /\ taken + k <= Len(remote.bytes)
        /\ taken' = taken + k
        /\ rb' = [rb EXCEPT !.data = SubSeq(remote.bytes, 1, k),
                            !.processed = IF k < HandshakeLen THEN 0 ELSE HandshakeLen]
        /\ phase' = IF k < HandshakeLen \/ ~remote.valid THEN "closed" ELSE next
    /\ UNCHANGED delivered

-----------------------------------------------------------------------------
(* Handshakes *)

\* manage_peer_outgoing: connected, our handshake goes first.
write_handshake_outgoing ==
    /\ dir = "outgoing" /\ phase = "connected"
    /\ wire' = <<[kind |-> "handshake"]>>
    /\ phase' = "handshake_sent"
    /\ UNCHANGED <<dir, remote, reading, outgoing_chan, writer, peer_interested, peer_has,
                   torrent, accepting>>

read_handshake_outgoing ==
    /\ dir = "outgoing" /\ phase = "handshake_sent"
    /\ read_handshake("handshaken")
    /\ UNCHANGED <<dir, remote, writing, peer_interested, peer_has, torrent, accepting>>

\* check_incoming_connection, a future that only the select of task_tcp_listener
\* polls; a check that fails makes it give up the branch, see other_check_fails.
check_incoming_connection ==
    /\ dir = "incoming" /\ phase = "accepted"
    /\ listener = "both"
    /\ read_handshake("checked")
    /\ listener' = IF phase' = "closed" THEN "accept_only" ELSE listener
    /\ UNCHANGED <<dir, remote, writing, peer_interested, peer_has, torrent, others>>

\* The select of task_tcp_listener takes the check that succeeded.
add_incoming_peer ==
    /\ phase = "checked"
    /\ listener = "both"
    /\ phase' = "added"
    /\ UNCHANGED <<dir, remote, reading, writing, peer_interested, peer_has, torrent, accepting>>

\* manage_peer_incoming: our handshake is the answer.
write_handshake_incoming ==
    /\ phase = "added"
    /\ wire' = <<[kind |-> "handshake"]>>
    /\ phase' = "handshaken"
    /\ UNCHANGED <<dir, remote, reading, outgoing_chan, writer, peer_interested, peer_has,
                   torrent, accepting>>

\* Another connection is accepted: the loop of the listener starts over and its
\* select polls both branches again.
accept_other ==
    /\ others.accepted < MaxOthers
    /\ others' = [accepted |-> others.accepted + 1, checks |-> others.checks + 1]
    /\ listener' = "both"
    /\ UNCHANGED <<dir, remote, phase, reading, writing, peer_interested, peer_has, torrent>>

\* A check of another connection fails: the pattern Some(Ok(..)) does not match and
\* select waits for its other branch alone.
other_check_fails ==
    /\ listener = "both"
    /\ others.checks > 0
    /\ others' = [others EXCEPT !.checks = @ - 1]
    /\ listener' = "accept_only"
    /\ UNCHANGED <<dir, remote, phase, reading, writing, peer_interested, peer_has, torrent>>

\* on_handshake: set_peer_live, and the first message is queued.
on_handshake ==
    /\ phase = "handshaken"
    /\ phase' = "live"
    /\ outgoing_chan' = <<[kind |-> "unchoke"]>>
    /\ writer' = "extended"
    /\ UNCHANGED <<dir, remote, reading, wire, peer_interested, peer_has, torrent, accepting>>

-----------------------------------------------------------------------------
(* The reader *)

\* on_download_request: a chunk of a piece we have is queued for the writer, a
\* request for any other piece ends the connection.
on_download_request(p) ==
    IF p \in have
      THEN /\ outgoing_chan' = Append(outgoing_chan, [kind |-> "read_chunk", piece |-> p])
           /\ UNCHANGED phase
      ELSE phase' = "closed" /\ UNCHANGED outgoing_chan

\* What the handler does with a message.
OnMessage(m) ==
    /\ peer_interested' = (peer_interested \/ m.kind = "interested")
    /\ peer_has' = CASE m.kind = "bitfield" -> m.pieces
                     [] m.kind = "have" -> peer_has \cup m.pieces
                     [] OTHER -> peer_has
    /\ IF m.kind = "request" THEN on_download_request(m.piece)
                              ELSE UNCHANGED <<outgoing_chan, phase>>

Parsed == deserialize(Unprocessed)
NeedsRead == Unprocessed = <<>> \/ Parsed.res = "not_enough"

\* read_message: a complete message is in the buffer.
on_message ==
    /\ phase = "live" /\ writer # "extended"
    /\ ~NeedsRead
    /\ IF Parsed.res = "message"
         THEN /\ rb' = [rb EXCEPT !.processed = @ + Parsed.size]
              /\ delivered' = Append(delivered, Parsed.index)
              /\ OnMessage(remote.stream[Parsed.index])
         ELSE /\ phase' = "closed"
              /\ UNCHANGED <<rb, delivered, peer_interested, peer_has, outgoing_chan>>
    /\ UNCHANGED <<dir, remote, taken, writer, wire, torrent, accepting>>

\* read_message: more bytes are needed.
Prepared == prepare_for_read(rb, IF Unprocessed = <<>> THEN IntLen ELSE Parsed.need)

read_message ==
    /\ phase = "live" /\ writer # "extended"
    /\ NeedsRead
    /\ ReadSome(Prepared)
    /\ UNCHANGED <<dir, remote, phase, delivered, writing, peer_interested, peer_has,
                   torrent, accepting>>

-----------------------------------------------------------------------------
(* The writer *)

\* The flag of the peer's handshake; manage_peer_incoming looks at our own.
supports_extended == dir = "incoming" \/ remote.extended

\* manage_peer: the extended handshake, before reader and writer start.
write_extended_handshake ==
    /\ phase = "live" /\ writer = "extended"
    /\ wire' = IF supports_extended THEN Append(wire, [kind |-> "extended"]) ELSE wire
    /\ writer' = "bitfield"
    /\ UNCHANGED <<dir, remote, phase, reading, outgoing_chan, peer_interested, peer_has, torrent,
                   accepting>>

\* The bit field, if we have anything; the bits are read when it is written.
write_bitfield ==
    /\ phase = "live" /\ writer = "bitfield"
    /\ wire' = IF have_bytes THEN Append(wire, [kind |-> "bitfield", pieces |-> have]) ELSE wire
    /\ writer' = "loop"
    /\ UNCHANGED <<dir, remote, phase, reading, outgoing_chan, peer_interested, peer_has, torrent,
                   accepting>>

\* Mutant: the queue is served before the bit field went out.
write_message_eager ==
    /\ phase = "live" /\ writer # "extended"
    /\ outgoing_chan # <<>>
    /\ outgoing_chan' = Tail(outgoing_chan)
    /\ wire' = Append(wire, Head(outgoing_chan))
    /\ UNCHANGED <<dir, remote, phase, reading, writer, peer_interested, peer_has, torrent, accepting>>

\* The loop of the writer: the next request, or a keep-alive when there is none.
write_message ==
    /\ phase = "live" /\ writer = "loop"
    /\ outgoing_chan # <<>>
    /\ outgoing_chan' = Tail(outgoing_chan)
    /\ wire' = Append(wire, Head(outgoing_chan))
    /\ UNCHANGED <<dir, remote, phase, reading, writer, peer_interested, peer_has, torrent, accepting>>

\* The connection ends: an error, a timeout of a read or a write, the end of the
\* stream, Disconnect, or a chunk that cannot be read.  Before the connection is
\* handed over only the select of the listener can notice; a check that fails this
\* way is a failed check.
close ==
    /\ phase # "closed"
    /\ phase \in {"accepted", "checked"} => listener = "both"
    /\ phase' = "closed"
    /\ listener' = IF phase = "accepted" THEN "accept_only" ELSE listener
    /\ UNCHANGED <<dir, remote, reading, writing, peer_interested, peer_has, torrent, others>>

-----------------------------------------------------------------------------
(* Pieces that other peers complete *)

mark_piece_downloaded(p) ==
    /\ p \notin have
    /\ have' = have \cup {p}
    /\ finishing' = finishing \cup {p}
    /\ UNCHANGED <<dir, remote, phase, reading, writing, peer_interested, peer_has, have_bytes,
                   haves, untold, accepting>>

count_have_bytes(p) ==
    /\ p \in finishing /\ ~have_bytes
    /\ have_bytes' = TRUE
    /\ UNCHANGED <<dir, remote, phase, reading, writing, peer_interested, peer_has, have,
                   finishing, haves, untold, accepting>>

\* Mutant: the peers are told before the bytes are counted.
maybe_transmit_haves_uncounted(p) ==
    /\ p \in finishing
    /\ finishing' = finishing \ {p}
    /\ IF phase = "live" /\ peer_interested /\ p \notin peer_has
         THEN haves' = haves \cup {p} /\ UNCHANGED untold
         ELSE /\ UNCHANGED haves
              /\ untold' = IF phase = "live" THEN untold \cup {p} ELSE untold
    /\ UNCHANGED <<dir, remote, phase, reading, writing, peer_interested, peer_has, have,
                   have_bytes, accepting>>

\* maybe_transmit_haves, after the bytes were counted.
maybe_transmit_haves(p) ==
    /\ p \in finishing /\ have_bytes
    /\ finishing' = finishing \ {p}
    /\ IF phase = "live" /\ peer_interested /\ p \notin peer_has
         THEN haves' = haves \cup {p} /\ UNCHANGED untold
         ELSE /\ UNCHANGED haves
              /\ untold' = IF phase = "live" THEN untold \cup {p} ELSE untold
    /\ UNCHANGED <<dir, remote, phase, reading, writing, peer_interested, peer_has, have,
                   have_bytes, accepting>>

\* The task transmit_haves sends to the channel of a peer that is still there.
transmit_have(p) ==
    /\ p \in haves
    /\ haves' = haves \ {p}
    /\ outgoing_chan' = IF phase = "live" THEN Append(outgoing_chan, [kind |-> "have", piece |-> p])
                                          ELSE outgoing_chan
    /\ UNCHANGED <<dir, remote, phase, reading, writer, wire, peer_interested, peer_has, have,
                   have_bytes, finishing, untold, accepting>>

-----------------------------------------------------------------------------

Init ==
    /\ dir \in Directions
    /\ \E v, x \in BOOLEAN, s \in Streams :
          remote = [valid |-> v, extended |-> x, stream |-> s, bytes |-> Bytes(s)]
    /\ phase = IF dir = "incoming" THEN "accepted" ELSE "connected"
    /\ rb = [len |-> BufLen, processed |-> 0, data |-> <<>>]
    /\ taken = 0
    /\ delivered = <<>>
    /\ outgoing_chan = <<>>
    /\ writer = "extended"
    /\ wire = <<>>
    /\ peer_interested = FALSE /\ peer_has = {}
    /\ have \in SUBSET Pieces
    /\ have_bytes = (have # {})
    /\ finishing = {} /\ haves = {} /\ untold = {}
    /\ listener = "both"
    /\ others = [accepted |-> 0, checks |-> 0]

Next ==
    \/ write_handshake_outgoing \/ read_handshake_outgoing
    \/ check_incoming_connection \/ add_incoming_peer \/ write_handshake_incoming
    \/ accept_other \/ other_check_fails
    \/ on_handshake
    \/ on_message \/ read_message
    \/ write_extended_handshake \/ write_bitfield \/ write_message
    \/ close
    \/ \E p \in Pieces : \/ mark_piece_downloaded(p) \/ count_have_bytes(p)
                         \/ maybe_transmit_haves(p) \/ transmit_have(p)

Spec == Init /\ [][Next]_vars

\* The tasks of the connection are polled until they end; a read or a write that
\* makes no progress for read_write_timeout closes the connection.
FairSpec ==
    /\ Spec
    /\ WF_vars(write_handshake_outgoing) /\ WF_vars(read_handshake_outgoing)
    /\ WF_vars(check_incoming_connection) /\ WF_vars(add_incoming_peer)
    /\ WF_vars(write_handshake_incoming) /\ WF_vars(on_handshake)
    /\ WF_vars(write_extended_handshake)
    /\ WF_vars(on_message) /\ WF_vars(read_message)

-----------------------------------------------------------------------------
(* Properties *)

\* What the handler and the tasks of other peers queue, and what the writer sends.
Queued == [kind : {"unchoke"}] \cup [kind : {"have", "read_chunk"}, piece : Pieces]
Sent == Queued \cup [kind : {"handshake", "extended"}]
               \cup [kind : {"bitfield"}, pieces : SUBSET Pieces]
SentOK ==
    /\ outgoing_chan \in Seq(Queued) /\ wire \in Seq(Sent)
    /\ have \subseteq Pieces /\ haves \cup finishing \subseteq have

\* Every piece of state has its type, and the buffer holds what it says it holds.
TypeOK ==
    /\ SentOK
    /\ dir \in Directions
    /\ phase \in {"connected", "handshake_sent", "accepted", "checked", "added", "handshaken",
                  "live", "closed"}
    /\ writer \in {"extended", "bitfield", "loop"}
    /\ rb.processed \in 0..Len(rb.data) /\ Len(rb.data) <= rb.len
    /\ taken \in 0..Len(remote.bytes)
    /\ peer_interested \in BOOLEAN /\ have_bytes \in BOOLEAN
    /\ peer_has \subseteq Pieces /\ untold \subseteq have
    /\ listener \in {"both", "accept_only"}
    /\ others.checks <= others.accepted /\ others.accepted <= MaxOthers

\* However the bytes of the peer are cut into reads, the handler gets its messages
\* whole, in order, each once, up to the first the protocol does not know
\* (ReadBuf::read_message, prepare_for_read, Message::deserialize): what is left in
\* the buffer is exactly what was read and not yet handed over.
MessagesIntact ==
    /\ delivered = [i \in 1..Len(delivered) |-> i]
    /\ \A i \in 1..Len(delivered) : remote.stream[i].kind # "unsupported"
    /\ phase = "live" =>
          /\ Len(delivered) <= Len(remote.stream)
          /\ Unprocessed = SubSeq(remote.bytes, Ends(remote.stream)[Len(delivered)] + 1, taken)

\* The buffer always has room for the message that is being read: a read into an
\* empty slice would return 0, which is taken for the end of the stream.
RoomToRead ==
    phase = "live" /\ NeedsRead =>
        Prepared.len >= Len(Prepared.data) + (IF Unprocessed = <<>> THEN IntLen ELSE Parsed.need)

\* The peer gets the bit field, if at all, before any other message but the
\* extended handshake, although unchoke is queued before it and haves may be.
BitfieldFirst ==
    /\ \A i \in 1..Len(wire) : wire[i].kind = "bitfield" =>
          \A j \in 1..(i - 1) : wire[j].kind \in {"handshake", "extended"}
    /\ writer # "loop" => \A i \in 1..Len(wire) : wire[i].kind \in {"handshake", "extended"}
    /\ phase \notin {"live", "closed"} => writer = "extended"

\* A live peer learns of every piece we have, by the bit field or by a Have: no
\* piece that is completed while the connection comes up falls between the two.
\* The exceptions are the code's: a piece that is completed while the peer is not
\* interested, or while its bit field has it, which is never announced.
Announced(p) ==
    \/ \E i \in 1..Len(wire) : \/ wire[i].kind = "bitfield" /\ p \in wire[i].pieces
                               \/ wire[i] = [kind |-> "have", piece |-> p]
    \/ \E i \in 1..Len(outgoing_chan) : outgoing_chan[i] = [kind |-> "have", piece |-> p]
PieceAnnounced ==
    /\ phase = "live" /\ writer = "loop" =>
          \A p \in have \ (finishing \cup haves \cup untold) : Announced(p)
    /\ have_bytes \/ have \subseteq finishing

\* Everything a peer sends reaches the handler unless the connection ends, except
\* that a connection that was accepted, checked or not, waits in the listener while
\* its select has given up that branch (after the failed check of another
\* connection) until yet another connection comes in.
AllRead ==
    []<>(\/ phase = "closed"
         \/ Len(delivered) = Len(remote.stream)
         \/ phase \in {"accepted", "checked"} /\ listener = "accept_only")

\* The buffer neither loses nor mixes bytes, nor runs full: see MessagesIntact and
\* RoomToRead.
ReadsSound == TypeOK /\ MessagesIntact /\ RoomToRead
=============================================================================
