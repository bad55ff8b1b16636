------------------------ MODULE PeerConnectionProofs ------------------------
(***************************************************************************)
(* What PeerConnection writes and reads, for every stream of the peer,     *)
(* every cut of it into reads, every set of pieces and every interleaving  *)
(* with the pieces other peers complete: the bit field comes first, no     *)
(* piece falls between it and the Haves, and the messages of the peer      *)
(* reach the handler whole and in order.                                   *)
(***************************************************************************)
EXTENDS PeerConnection, SequenceTheorems, NaturalsInduction, WellFoundedInduction, TLAPS

Inv == SentOK /\ BitfieldFirst /\ PieceAnnounced

-----------------------------------------------------------------------------
(* What is queued and written *)

\* Adding at the end keeps what is there.
LEMMA AppendFacts ==
    ASSUME NEW S, NEW s \in Seq(S), NEW e \in S
    PROVE  /\ Append(s, e) \in Seq(S) /\ Len(Append(s, e)) = Len(s) + 1 /\ Len(s) \in Nat
           /\ \A i \in 1..Len(s) : Append(s, e)[i] = s[i]
           /\ Append(s, e)[Len(s) + 1] = e
OBVIOUS

\* Taking from the front leaves the rest.
LEMMA TailFacts ==
    ASSUME NEW S, NEW s \in Seq(S), s # <<>>
    PROVE  /\ Tail(s) \in Seq(S) /\ Len(s) \in Nat \ {0} /\ Len(Tail(s)) = Len(s) - 1
           /\ Head(s) = s[1] /\ Head(s) \in S
           /\ \A i \in 2..Len(s) : Tail(s)[i - 1] = s[i]
OBVIOUS

\* The messages have their kinds.
LEMMA KindFacts ==
    /\ Queued \subseteq Sent
    /\ \A m \in Queued : m.kind \in {"unchoke", "have", "read_chunk"}
    /\ [kind |-> "unchoke"] \in Queued
    /\ \A p \in Pieces : /\ [kind |-> "have", piece |-> p] \in Queued
                         /\ [kind |-> "read_chunk", piece |-> p] \in Queued
    /\ [kind |-> "handshake"] \in Sent /\ [kind |-> "extended"] \in Sent
    /\ \A S \in SUBSET Pieces : [kind |-> "bitfield", pieces |-> S] \in Sent
BY DEF Queued, Sent

\* A piece that was announced stays so when more is queued ...
LEMMA AnnouncedQueue ==
    ASSUME SentOK, NEW p, Announced(p), wire' = wire, NEW e \in Queued,
           outgoing_chan' = Append(outgoing_chan, e)
    PROVE  Announced(p)'
<1>1. /\ Len(outgoing_chan') = Len(outgoing_chan) + 1 /\ Len(outgoing_chan) \in Nat
      /\ \A i \in 1..Len(outgoing_chan) : outgoing_chan'[i] = outgoing_chan[i]
  BY AppendFacts DEF SentOK
<1> QED BY <1>1 DEF Announced

\* ... and when more is written.
LEMMA AnnouncedWire ==
    ASSUME SentOK, NEW p, Announced(p), outgoing_chan' = outgoing_chan, NEW e \in Sent,
           wire' = Append(wire, e)
    PROVE  Announced(p)'
<1>1. /\ Len(wire') = Len(wire) + 1 /\ Len(wire) \in Nat
      /\ \A i \in 1..Len(wire) : wire'[i] = wire[i]
  BY AppendFacts DEF SentOK
<1> QED BY <1>1 DEF Announced

\* The writer moves the first message of the queue: it is one or the other.
LEMMA AnnouncedMoved ==
    ASSUME SentOK, NEW p, Announced(p), outgoing_chan # <<>>,
           outgoing_chan' = Tail(outgoing_chan),
           wire' = Append(wire, Head(outgoing_chan))
    PROVE  Announced(p)'
<1>1. /\ Len(outgoing_chan) \in Nat \ {0} /\ Len(outgoing_chan') = Len(outgoing_chan) - 1
      /\ Head(outgoing_chan) = outgoing_chan[1] /\ Head(outgoing_chan) \in Queued
      /\ \A i \in 2..Len(outgoing_chan) : outgoing_chan'[i - 1] = outgoing_chan[i]
  BY TailFacts DEF SentOK
<1>2. /\ Len(wire') = Len(wire) + 1 /\ Len(wire) \in Nat
      /\ \A i \in 1..Len(wire) : wire'[i] = wire[i]
      /\ wire'[Len(wire) + 1] = outgoing_chan[1]
  BY <1>1, AppendFacts, KindFacts DEF SentOK
<1>3. CASE \E i \in 1..Len(wire) : \/ wire[i].kind = "bitfield" /\ p \in wire[i].pieces
                                   \/ wire[i] = [kind |-> "have", piece |-> p]
  BY <1>2, <1>3 DEF Announced
<1>4. CASE \E i \in 1..Len(outgoing_chan) : outgoing_chan[i] = [kind |-> "have", piece |-> p]
  <2>1. PICK i \in 1..Len(outgoing_chan) : outgoing_chan[i] = [kind |-> "have", piece |-> p]
    BY <1>4
  <2>2. CASE i = 1
    BY <1>2, <2>1, <2>2 DEF Announced
  <2>3. CASE i # 1
    <3>1. i \in 2..Len(outgoing_chan) /\ i - 1 \in 1..Len(outgoing_chan')
      BY <1>1, <2>3
    <3>2. outgoing_chan'[i - 1] = [kind |-> "have", piece |-> p]
      BY <1>1, <2>1, <3>1
    <3> QED BY <3>1, <3>2 DEF Announced
  <2> QED BY <2>2, <2>3
<1> QED BY <1>3, <1>4 DEF Announced

-----------------------------------------------------------------------------
(* One lemma per group of actions *)

\* Nothing is written when a connection starts, and only pieces that count are had.
LEMMA InitInv == Init => Inv
<1> SUFFICES ASSUME Init PROVE Inv
  OBVIOUS
<1>1. /\ outgoing_chan = <<>> /\ wire = <<>> /\ writer = "extended"
      /\ finishing = {} /\ haves = {} /\ have \in SUBSET Pieces
  BY DEF Init
<1>2. phase \in {"accepted", "connected"}
  BY DEF Init
<1>3. have_bytes \/ have = {}
  BY DEF Init
<1>4. <<>> \in Seq(Queued) /\ <<>> \in Seq(Sent) /\ Len(<<>>) = 0
  OBVIOUS
<1>5. SentOK
  BY <1>1, <1>4 DEF SentOK
<1>6. BitfieldFirst
  BY <1>1, <1>4 DEF BitfieldFirst
<1>7. PieceAnnounced
  BY <1>1, <1>2, <1>3 DEF PieceAnnounced
<1> QED BY <1>5, <1>6, <1>7 DEF Inv

\* A step that neither writes nor completes pieces, nor makes the connection live.
LEMMA QuietKeeps ==
    ASSUME Inv, UNCHANGED <<writing, torrent>>,
           \/ phase' = phase
           \/ phase' = "closed"
           \/ phase' # "live" /\ phase \notin {"live", "closed"}
    PROVE  Inv'
<1>1. SentOK'
  BY DEF Inv, SentOK, writing, torrent
<1>2. BitfieldFirst'
  BY DEF Inv, BitfieldFirst, writing
<1>3. PieceAnnounced'
  BY DEF Inv, PieceAnnounced, Announced, writing, torrent
<1> QED BY <1>1, <1>2, <1>3 DEF Inv

\* Handshakes are read, connections accepted, bytes read, and the connection ends.
LEMMA ReadingKeeps ==
    ASSUME Inv, \/ read_handshake_outgoing \/ check_incoming_connection \/ add_incoming_peer
                \/ accept_other \/ other_check_fails \/ read_message \/ close
    PROVE  Inv'
<1>1. /\ UNCHANGED <<writing, torrent>>
      /\ \/ phase' = phase
         \/ phase' = "closed"
         \/ phase' # "live" /\ phase \notin {"live", "closed"}
  BY DEF read_handshake_outgoing, check_incoming_connection, add_incoming_peer, accept_other,
         other_check_fails, read_message, close, read_handshake
<1> QED BY <1>1, QuietKeeps

\* Our handshake is the first thing that is written.
LEMMA HandshakeKeeps ==
    ASSUME Inv, write_handshake_outgoing \/ write_handshake_incoming
    PROVE  Inv'
<1>1. /\ wire' = <<[kind |-> "handshake"]>> /\ phase' # "live" /\ phase \notin {"live", "closed"}
      /\ UNCHANGED <<outgoing_chan, writer, torrent>>
  BY DEF write_handshake_outgoing, write_handshake_incoming
<1>2. SentOK'
  BY <1>1, KindFacts DEF Inv, SentOK, torrent
<1>3. BitfieldFirst'
  BY <1>1 DEF Inv, BitfieldFirst
<1>4. PieceAnnounced'
  BY <1>1 DEF Inv, PieceAnnounced, torrent
<1> QED BY <1>2, <1>3, <1>4 DEF Inv

\* The connection is live, and unchoke is queued.
LEMMA OnHandshakeKeeps ==
    ASSUME Inv, on_handshake
    PROVE  Inv'
<1>1. SentOK'
  BY KindFacts DEF on_handshake, Inv, SentOK, torrent
<1>2. BitfieldFirst'
  BY DEF on_handshake, Inv, BitfieldFirst
<1>3. PieceAnnounced'
  BY DEF on_handshake, Inv, PieceAnnounced, torrent
<1> QED BY <1>1, <1>2, <1>3 DEF Inv

\* More is queued: a chunk that was asked for, or a Have for a piece p.
LEMMA QueueKeeps ==
    ASSUME Inv, NEW e \in Queued, outgoing_chan' = Append(outgoing_chan, e),
           UNCHANGED <<writer, wire, phase, have, have_bytes, finishing, untold>>,
           \/ haves' = haves
           \/ \E p \in haves : haves' = haves \ {p} /\ e = [kind |-> "have", piece |-> p]
    PROVE  Inv'
<1>1. /\ outgoing_chan' \in Seq(Queued) /\ Len(outgoing_chan) \in Nat
      /\ Len(outgoing_chan') = Len(outgoing_chan) + 1
      /\ outgoing_chan'[Len(outgoing_chan) + 1] = e
  BY AppendFacts DEF Inv, SentOK
<1>2. SentOK' /\ BitfieldFirst'
  BY <1>1 DEF Inv, SentOK, BitfieldFirst
<1>3. \A p : Announced(p) => Announced(p)'
  BY AnnouncedQueue DEF Inv
<1>4. \A p : e = [kind |-> "have", piece |-> p] => Announced(p)'
  BY <1>1 DEF Announced
<1>5. PieceAnnounced'
  BY <1>3, <1>4 DEF Inv, PieceAnnounced
<1> QED BY <1>2, <1>5 DEF Inv

\* A message of the peer: a request is queued, or ends the connection.
LEMMA OnMessageKeeps ==
    ASSUME Inv, on_message
    PROVE  Inv'
<1>1. UNCHANGED <<writer, wire, torrent>>
  BY DEF on_message, OnMessage
<1>2. CASE UNCHANGED outgoing_chan
  <2>1. phase' \in {phase, "closed"}
    BY DEF on_message, OnMessage, on_download_request
  <2> QED BY <1>1, <1>2, <2>1, QuietKeeps DEF writing
<1>3. CASE \E p \in have : outgoing_chan' = Append(outgoing_chan, [kind |-> "read_chunk", piece |-> p])
                           /\ UNCHANGED phase
  <2>1. PICK p \in have :
           outgoing_chan' = Append(outgoing_chan, [kind |-> "read_chunk", piece |-> p])
           /\ UNCHANGED phase
    BY <1>3
  <2>2. [kind |-> "read_chunk", piece |-> p] \in Queued
    BY <2>1, KindFacts DEF Inv, SentOK
  <2> QED BY <1>1, <2>1, <2>2, QueueKeeps DEF torrent
<1> QED BY <1>2, <1>3 DEF on_message, OnMessage, on_download_request

\* The extended handshake follows our handshake.
LEMMA ExtendedKeeps ==
    ASSUME Inv, write_extended_handshake
    PROVE  Inv'
<1> DEFINE e == [kind |-> "extended"]
<1>0. e \in Sent /\ e.kind = "extended"
  BY KindFacts
<1>1. /\ phase = "live" /\ writer' = "bitfield" /\ writer = "extended"
      /\ UNCHANGED <<outgoing_chan, phase, torrent>>
      /\ wire' \in {wire, Append(wire, e)}
  BY DEF write_extended_handshake
<1> HIDE DEF e
<1>2. wire' = wire \/
        /\ wire' \in Seq(Sent) /\ Len(wire') = Len(wire) + 1 /\ Len(wire) \in Nat
        /\ \A i \in 1..Len(wire) : wire'[i] = wire[i]
        /\ wire'[Len(wire) + 1] = e
  <2>1. CASE wire' = wire
    BY <2>1
  <2>2. CASE wire' = Append(wire, e)
    <3>1. wire \in Seq(Sent)
      BY DEF Inv, SentOK
    <3> QED BY <1>0, <2>2, <3>1, AppendFacts
  <2> QED BY <1>1, <2>1, <2>2
<1>3. SentOK' /\ PieceAnnounced'
  BY <1>1, <1>2 DEF Inv, SentOK, PieceAnnounced, torrent
<1>4. \A i \in 1..Len(wire') : wire'[i].kind \in {"handshake", "extended"}
  BY <1>0, <1>1, <1>2 DEF Inv, BitfieldFirst
<1>5. BitfieldFirst'
  BY <1>1, <1>4 DEF BitfieldFirst
<1> QED BY <1>3, <1>5 DEF Inv

\* The bit field holds every piece we have when it is written.  Without it, every
\* piece we have is still to be announced.
LEMMA BitfieldKeeps ==
    ASSUME Inv, write_bitfield
    PROVE  Inv'
<1> DEFINE b == [kind |-> "bitfield", pieces |-> have]
<1>1. /\ phase = "live" /\ writer' = "loop" /\ writer = "bitfield"
      /\ UNCHANGED <<outgoing_chan, phase, torrent>>
      /\ wire' = IF have_bytes THEN Append(wire, b) ELSE wire
  BY DEF write_bitfield
<1>2. b \in Sent /\ b.kind = "bitfield" /\ b.pieces = have
  BY KindFacts DEF Inv, SentOK
<1> HIDE DEF b
<1>3. CASE have_bytes
  <2>1. /\ wire' \in Seq(Sent) /\ Len(wire') = Len(wire) + 1 /\ Len(wire) \in Nat
        /\ \A i \in 1..Len(wire) : wire'[i] = wire[i]
        /\ wire'[Len(wire) + 1] = b
    BY <1>1, <1>2, <1>3, AppendFacts DEF Inv, SentOK
  <2>2. SentOK'
    BY <1>1, <2>1 DEF Inv, SentOK, torrent
  <2>3. BitfieldFirst'
    BY <1>1, <2>1 DEF Inv, BitfieldFirst
  <2>4. PieceAnnounced'
    BY <1>1, <1>2, <1>3, <2>1 DEF PieceAnnounced, Announced, torrent
  <2> QED BY <2>2, <2>3, <2>4 DEF Inv
<1>4. CASE ~have_bytes
  BY <1>1, <1>4 DEF Inv, SentOK, BitfieldFirst, PieceAnnounced, torrent
<1> QED BY <1>3, <1>4

\* The writer serves the queue, in which there is no bit field.
LEMMA WriteKeeps ==
    ASSUME Inv, write_message
    PROVE  Inv'
<1>1. /\ outgoing_chan # <<>> /\ outgoing_chan' = Tail(outgoing_chan)
      /\ wire' = Append(wire, Head(outgoing_chan))
      /\ UNCHANGED <<writer, phase, peer_has, torrent>> /\ writer = "loop"
  BY DEF write_message
<1>2. /\ outgoing_chan' \in Seq(Queued) /\ Head(outgoing_chan) \in Queued
      /\ Head(outgoing_chan) \in Sent /\ Head(outgoing_chan).kind # "bitfield"
  BY <1>1, TailFacts, KindFacts DEF Inv, SentOK
<1>3. /\ wire' \in Seq(Sent) /\ Len(wire') = Len(wire) + 1 /\ Len(wire) \in Nat
      /\ \A i \in 1..Len(wire) : wire'[i] = wire[i]
      /\ wire'[Len(wire) + 1].kind # "bitfield"
  <2>1. PICK e \in Sent : e = Head(outgoing_chan) /\ e.kind # "bitfield"
    BY <1>2
  <2>2. wire \in Seq(Sent) /\ wire' = Append(wire, e)
    BY <1>1, <2>1 DEF Inv, SentOK
  <2>3. /\ Append(wire, e) \in Seq(Sent) /\ Len(Append(wire, e)) = Len(wire) + 1
        /\ Len(wire) \in Nat /\ \A i \in 1..Len(wire) : Append(wire, e)[i] = wire[i]
        /\ Append(wire, e)[Len(wire) + 1] = e
    BY <2>2, AppendFacts
  <2> QED BY <2>1, <2>2, <2>3
<1>4. SentOK'
  BY <1>1, <1>2, <1>3 DEF Inv, SentOK, torrent
<1>5. BitfieldFirst'
  <2>1. BitfieldFirst /\ writer = "loop" /\ writer' = writer /\ phase' = phase
    BY <1>1 DEF Inv
  <2>2. PICK n \in Nat : n = Len(wire) /\ Len(wire') = n + 1
    BY <1>3
  <2>3. \A i \in 1..n : wire[i].kind = "bitfield"
            => \A j \in 1..(i - 1) : wire[j].kind \in {"handshake", "extended"}
    BY <2>1, <2>2 DEF BitfieldFirst
  <2>4. ASSUME NEW i \in 1..(n + 1), wire'[i].kind = "bitfield", NEW j \in 1..(i - 1)
        PROVE  wire'[j].kind \in {"handshake", "extended"}
    <3>1. i \in 1..n /\ j \in 1..n
      BY <1>3, <2>2, <2>4
    <3> QED BY <1>3, <2>2, <2>3, <2>4, <3>1
  <2>5. phase' \notin {"live", "closed"} => writer' = "extended"
    BY <2>1 DEF BitfieldFirst
  <2> QED BY <2>1, <2>2, <2>4, <2>5 DEF BitfieldFirst
<1>6. \A p : Announced(p) => Announced(p)'
  BY <1>1, AnnouncedMoved DEF Inv
<1>7. PieceAnnounced'
  BY <1>1, <1>6 DEF Inv, PieceAnnounced, torrent
<1> QED BY <1>4, <1>5, <1>7 DEF Inv

\* Other peers complete pieces: each is on its way to be announced, or need not be.
LEMMA PiecesKeep ==
    ASSUME Inv, NEW p \in Pieces,
           mark_piece_downloaded(p) \/ count_have_bytes(p) \/ maybe_transmit_haves(p)
    PROVE  Inv'
<1>1. UNCHANGED <<phase, outgoing_chan, writer, wire, peer_has>>
  BY DEF mark_piece_downloaded, count_have_bytes, maybe_transmit_haves, writing
<1>2. BitfieldFirst'
  BY <1>1 DEF Inv, BitfieldFirst
<1>3. \A q : Announced(q)' <=> Announced(q)
  BY <1>1 DEF Announced
<1>4. CASE mark_piece_downloaded(p)
  BY <1>1, <1>2, <1>3, <1>4 DEF mark_piece_downloaded, Inv, SentOK, PieceAnnounced
<1>5. CASE count_have_bytes(p)
  BY <1>1, <1>2, <1>3, <1>5 DEF count_have_bytes, Inv, SentOK, PieceAnnounced
<1>6. CASE maybe_transmit_haves(p)
  BY <1>1, <1>2, <1>3, <1>6 DEF maybe_transmit_haves, Inv, SentOK, PieceAnnounced
<1> QED BY <1>4, <1>5, <1>6

\* A Have is queued, if the connection is still there.
LEMMA TransmitKeeps ==
    ASSUME Inv, NEW p \in Pieces, transmit_have(p)
    PROVE  Inv'
<1>1. /\ p \in haves /\ haves' = haves \ {p}
      /\ UNCHANGED <<writer, wire, phase, have, have_bytes, finishing, untold, peer_has>>
  BY DEF transmit_have
<1>2. CASE phase = "live"
  <2>1. outgoing_chan' = Append(outgoing_chan, [kind |-> "have", piece |-> p])
    BY <1>2 DEF transmit_have
  <2>2. [kind |-> "have", piece |-> p] \in Queued
    BY KindFacts
  <2> QED BY <1>1, <2>1, <2>2, QueueKeeps
<1>3. CASE phase # "live"
  <2>1. outgoing_chan' = outgoing_chan
    BY <1>3 DEF transmit_have
  <2> QED BY <1>1, <1>3, <2>1 DEF Inv, SentOK, BitfieldFirst, PieceAnnounced
<1> QED BY <1>2, <1>3

-----------------------------------------------------------------------------
(* The bytes of the peer *)

\* k elements of a sequence, from the one after n.
LEMMA CutFacts ==
    ASSUME NEW S, NEW x \in Seq(S), NEW n \in Nat, NEW k \in Nat, n + k <= Len(x)
    PROVE  /\ SubSeq(x, n + 1, n + k) \in Seq(S) /\ Len(SubSeq(x, n + 1, n + k)) = k
           /\ \A j \in 1..k : SubSeq(x, n + 1, n + k)[j] = x[n + j]
<1>1. PICK lo \in Int, hi \in Int : lo = n + 1 /\ hi = n + k
  OBVIOUS
<1>2. \A i \in lo..hi : x[i] \in S
  <2> SUFFICES ASSUME NEW i \in lo..hi PROVE x[i] \in S
    OBVIOUS
  <2>1. i \in 1..Len(x)
    BY <1>1, LenProperties
  <2> QED BY <2>1, ElementOfSeq
<1>3. /\ SubSeq(x, lo, hi) \in Seq(S)
      /\ Len(SubSeq(x, lo, hi)) = IF lo <= hi THEN hi - lo + 1 ELSE 0
      /\ \A i \in 1..(hi - lo + 1) : SubSeq(x, lo, hi)[i] = x[lo + i - 1]
  BY <1>2, SubSeqProperties
<1>4. hi - lo + 1 = k /\ (lo <= hi \/ k = 0) /\ \A j \in 1..k : lo + j - 1 = n + j
  BY <1>1
<1> QED BY <1>1, <1>3, <1>4

\* Every non-empty set of naturals has a least element.
LEMMA LeastNat ==
    ASSUME NEW T \in SUBSET Nat, T # {}
    PROVE  \E n \in T : \A m \in T : n <= m
<1> DEFINE R == OpToRel(<, Nat)
<1>1. \A m, n \in Nat : <<m, n>> \in R <=> m < n
  BY DEF OpToRel
<1>2. IsWellFoundedOn(R, Nat)
  BY NatLessThanWellFounded
<1> HIDE DEF R
<1>3. PICK x \in T : \A y \in T : ~(<<y, x>> \in R)
  BY <1>2, WFMin
<1>4. ASSUME NEW y \in T PROVE x <= y
  <2>1. x \in Nat /\ y \in Nat
    OBVIOUS
  <2>2. ~(y < x)
    BY <1>1, <1>3, <2>1
  <2> QED BY <2>1, <2>2
<1> QED BY <1>4

\* No message is empty.
LEMMA LengthFacts ==
    ASSUME NEW s \in Streams
    PROVE  Len(s) \in Nat /\ \A i \in 1..Len(s) : MsgLen(s[i]) \in Nat \ {0}
<1> SUFFICES ASSUME NEW i \in 1..Len(s) PROVE MsgLen(s[i]) \in Nat \ {0}
  BY ConnectionAssumption
<1>1. s[i].kind \in DOMAIN Payload \cup {"keepalive"}
  BY ConnectionAssumption DEF KnownMessage
<1>2. IntLen \in Nat \ {0} /\ \A k \in DOMAIN Payload : Payload[k] \in Nat
  BY ConnectionAssumption
<1> QED BY <1>1, <1>2 DEF MsgLen

\* e[i] is where message i ends, for i up to n.
IsEnds(s, e, n) ==
    /\ e \in [0..n -> Nat]
    /\ e[0] = HandshakeLen
    /\ \A i \in 1..n : e[i] = e[i - 1] + MsgLen(s[i])

\* The ends exist for every number of messages.
LEMMA EndsExist ==
    ASSUME NEW s \in Streams
    PROVE  \E e : IsEnds(s, e, Len(s))
<1> DEFINE T == {n \in 0..Len(s) : ~\E e : IsEnds(s, e, n)}
<1>0. Len(s) \in Nat
  BY LengthFacts
<1> SUFFICES ASSUME T # {} PROVE FALSE
  BY <1>0
<1>1. T \in SUBSET Nat
  OBVIOUS
<1>2. PICK n \in T : \A m \in T : n <= m
  BY <1>1, LeastNat
<1>h. HandshakeLen \in Nat
  BY ConnectionAssumption
<1>3. n # 0
  <2>1. IsEnds(s, [i \in 0..0 |-> HandshakeLen], 0)
    BY <1>h DEF IsEnds
  <2> QED BY <2>1
<1>4. n - 1 \in 0..Len(s) /\ n - 1 \notin T /\ n \in Nat /\ n \in 1..Len(s)
  BY <1>0, <1>2, <1>3
<1>5. PICK e : IsEnds(s, e, n - 1)
  BY <1>4
<1> DEFINE h == [i \in 0..n |-> IF i = n THEN e[n - 1] + MsgLen(s[n]) ELSE e[i]]
<1>6. MsgLen(s[n]) \in Nat /\ n - 1 \in 0..(n - 1)
  BY <1>4, LengthFacts
<1>7. h \in [0..n -> Nat]
  BY <1>4, <1>5, <1>6 DEF IsEnds
<1>8. h[0] = HandshakeLen
  BY <1>3, <1>4, <1>5 DEF IsEnds
<1>9. ASSUME NEW i \in 1..n PROVE h[i] = h[i - 1] + MsgLen(s[i])
  <2>1. CASE i = n
    BY <1>4, <1>5, <2>1 DEF IsEnds
  <2>2. CASE i # n
    <3>1. i \in 1..(n - 1) /\ i - 1 \in 0..n /\ i - 1 # n /\ i \in 0..n
      BY <1>4, <2>2
    <3> QED BY <1>5, <2>2, <3>1 DEF IsEnds
  <2> QED BY <2>1, <2>2
<1>10. IsEnds(s, h, n)
  BY <1>7, <1>8, <1>9 DEF IsEnds
<1> QED BY <1>2, <1>10

\* Ends is what its recursion says.
LEMMA EndsAreEnds ==
    ASSUME NEW s \in Streams
    PROVE  IsEnds(s, Ends(s), Len(s))
<1> DEFINE D(f) == [i \in 0..Len(s) |->
                      IF i = 0 THEN HandshakeLen ELSE f[i - 1] + MsgLen(s[i])]
           x == CHOOSE f : f = D(f)
<1>0. Len(s) \in Nat
  BY LengthFacts
<1>1. Ends(s) = x
  BY Zenon DEF Ends
<1>2. PICK g : IsEnds(s, g, Len(s))
  BY EndsExist
<1>3. g = D(g)
  BY <1>0, <1>2 DEF IsEnds
<1>4. x = D(x)
  BY <1>3
<1> HIDE DEF x
<1>5. ASSUME NEW i \in 1..Len(s) PROVE x[i] = x[i - 1] + MsgLen(s[i])
  BY <1>0, <1>4
<1>6. x[0] = HandshakeLen
  BY <1>0, <1>4
<1>7. \A n \in 0..Len(s) : x[n] = g[n]
  <2> DEFINE T == {n \in 0..Len(s) : x[n] # g[n]}
  <2> SUFFICES ASSUME T # {} PROVE FALSE
    OBVIOUS
  <2>0. T \in SUBSET Nat
    OBVIOUS
  <2>1. PICK n \in T : \A m \in T : n <= m
    BY <2>0, LeastNat
  <2>2. n \in 1..Len(s)
    BY <1>0, <2>1, <1>6, <1>2 DEF IsEnds
  <2>3. n - 1 \in 0..Len(s) /\ n - 1 \notin T
    BY <1>0, <2>1, <2>2
  <2> QED BY <2>1, <2>2, <2>3, <1>5, <1>2 DEF IsEnds
<1>8. x \in [0..Len(s) -> Nat]
  BY <1>4, <1>7, <1>2 DEF IsEnds
<1> QED BY <1>1, <1>5, <1>6, <1>8 DEF IsEnds

\* Messages end in their order.
LEMMA EndsGrow ==
    ASSUME NEW s \in Streams, NEW i \in 0..Len(s), NEW j \in 0..Len(s), i < j
    PROVE  Ends(s)[i] < Ends(s)[j]
<1> DEFINE E == Ends(s)
           T == {n \in (i + 1)..Len(s) : ~(E[i] < E[n])}
<1>0. Len(s) \in Nat /\ IsEnds(s, E, Len(s)) /\ \A n \in 1..Len(s) : MsgLen(s[n]) \in Nat \ {0}
  BY LengthFacts, EndsAreEnds
<1> HIDE DEF E
<1> SUFFICES ASSUME T # {} PROVE FALSE
  BY <1>0 DEF E
<1>1. T \in SUBSET Nat
  BY <1>0
<1>2. PICK n \in T : \A m \in T : n <= m
  BY <1>1, LeastNat
<1>3. n \in 1..Len(s) /\ n - 1 \in 0..Len(s) /\ n - 1 \notin T /\ i <= n - 1
  <2>1. n \in Nat /\ i \in Nat /\ i + 1 <= n /\ n <= Len(s)
    BY <1>0, <1>2
  <2>2. ~(n <= n - 1)
    BY <2>1
  <2>3. n - 1 \notin T
    BY <1>2, <2>2
  <2> QED BY <1>0, <2>1, <2>3
<1>4. E[n] = E[n - 1] + MsgLen(s[n]) /\ E[n - 1] \in Nat /\ E[i] \in Nat /\ MsgLen(s[n]) \in Nat \ {0}
  BY <1>0, <1>3 DEF IsEnds
<1>5. E[i] <= E[n - 1]
  <2>1. CASE i = n - 1
    BY <1>4, <2>1
  <2>2. CASE i # n - 1
    <3>1. n - 1 \in (i + 1)..Len(s)
      BY <1>0, <1>3, <2>2
    <3>2. E[i] < E[n - 1]
      BY <1>3, <3>1
    <3> QED BY <1>4, <3>2
  <2> QED BY <2>1, <2>2
<1> QED BY <1>2, <1>4, <1>5

\* A byte is a message and an offset.
Pairs == Nat \X Nat

\* Byte o of message i is where it belongs.
LEMMA BytesFacts ==
    ASSUME NEW s \in Streams
    PROVE  /\ Bytes(s) \in Seq(Pairs)
           /\ Len(Bytes(s)) = Ends(s)[Len(s)]
           /\ \A i \in 1..Len(s) : \A o \in 1..MsgLen(s[i]) :
                 Bytes(s)[Ends(s)[i - 1] + o] = <<i, o>>
<1> DEFINE E == Ends(s)
           B == Bytes(s)
           Start(i) == IF i = 0 THEN 0 ELSE E[i - 1]
           At(p) == CHOOSE i \in 0..Len(s) : Start(i) < p /\ p <= E[i]
<1>0. Len(s) \in Nat /\ IsEnds(s, E, Len(s)) /\ \A n \in 1..Len(s) : MsgLen(s[n]) \in Nat \ {0}
  BY LengthFacts, EndsAreEnds
<1>1. B = [p \in 1..E[Len(s)] |-> <<At(p), p - Start(At(p))>>]
  BY DEF Bytes
<1>2. \A i, j \in 0..Len(s) : i < j => E[i] < E[j]
  BY EndsGrow
<1> HIDE DEF E, B
<1>3. ASSUME NEW i \in 0..Len(s)
      PROVE  E[i] \in Nat /\ Start(i) \in Nat /\ E[i] <= E[Len(s)]
  <2>1. E \in [0..Len(s) -> Nat] /\ Len(s) \in 0..Len(s)
    BY <1>0 DEF IsEnds
  <2>2. E[i] \in Nat /\ E[Len(s)] \in Nat
    BY <2>1
  <2>3. i = Len(s) \/ E[i] < E[Len(s)]
    BY <1>0, <1>2, <2>1
  <2>4. i # 0 => i - 1 \in 0..Len(s)
    BY <1>0
  <2>5. Start(i) \in Nat
    BY <2>1, <2>4
  <2> QED BY <2>2, <2>3, <2>5
\* Every position is in some message ...
<1>4. ASSUME NEW p \in 1..E[Len(s)]
      PROVE  At(p) \in 0..Len(s) /\ Start(At(p)) < p /\ p <= E[At(p)]
  <2> DEFINE T == {i \in 0..Len(s) : p <= E[i]}
  <2>1. T \in SUBSET Nat /\ Len(s) \in T
    BY <1>0, <1>3
  <2>2. PICK i \in T : \A j \in T : i <= j
    BY <2>1, LeastNat
  <2>3. Start(i) < p
    <3>1. CASE i = 0
      BY <1>3, <3>1
    <3>2. CASE i # 0
      <4>1. i - 1 \in 0..Len(s) /\ i - 1 \notin T
        BY <1>0, <2>2, <3>2
      <4> QED BY <4>1, <3>2, <1>3
    <3> QED BY <3>1, <3>2
  <2> QED BY <2>2, <2>3
\* ... and in one only.
<1>5. ASSUME NEW p \in 1..E[Len(s)], NEW i \in 0..Len(s), Start(i) < p, p <= E[i]
      PROVE  At(p) = i
  <2>1. PICK j : j = At(p)
    OBVIOUS
  <2>2. j \in 0..Len(s) /\ Start(j) < p /\ p <= E[j]
    BY <1>4, <2>1
  <2>3. ~(j < i)
    <3> SUFFICES ASSUME j < i PROVE FALSE
      OBVIOUS
    <3>1. i - 1 \in 0..Len(s) /\ (j = i - 1 \/ j < i - 1) /\ i # 0
      BY <1>0, <2>2
    <3>2. E[j] <= E[i - 1]
      BY <1>2, <1>3, <2>2, <3>1
    <3> QED BY <1>3, <1>5, <2>2, <3>1, <3>2
  <2>4. ~(i < j)
    <3> SUFFICES ASSUME i < j PROVE FALSE
      OBVIOUS
    <3>1. j - 1 \in 0..Len(s) /\ (i = j - 1 \/ i < j - 1) /\ j # 0
      BY <1>0, <2>2
    <3>2. E[i] <= E[j - 1]
      BY <1>2, <1>3, <2>2, <3>1
    <3> QED BY <1>3, <1>5, <2>2, <3>1, <3>2
  <2> QED BY <1>0, <2>1, <2>2, <2>3, <2>4
<1>6. ASSUME NEW p \in 1..E[Len(s)] PROVE B[p] \in Pairs
  <2>1. PICK j : j = At(p)
    OBVIOUS
  <2>2. j \in 0..Len(s) /\ Start(j) < p
    BY <1>4, <2>1
  <2>3. Start(j) \in Nat
    BY <1>3, <2>2
  <2>4. B[p] = <<j, p - Start(j)>>
    BY <1>1, <2>1
  <2>5. p \in Nat /\ j \in Nat /\ p - Start(j) \in Nat
    BY <1>3, <1>0, <2>2, <2>3
  <2> QED BY <2>4, <2>5 DEF Pairs
<1>7. B \in Seq(Pairs) /\ Len(B) = E[Len(s)]
  <2>1. E[Len(s)] \in Nat /\ DOMAIN B = 1..E[Len(s)]
    BY <1>0, <1>1, <1>3
  <2> DEFINE Val(p) == <<At(p), p - Start(At(p))>>
  <2>a. B = [p \in 1..E[Len(s)] |-> Val(p)]
    BY <1>1
  <2> HIDE DEF Val
  <2>2. B = [p \in 1..E[Len(s)] |-> B[p]]
    BY <2>a
  <2>3. B \in [1..E[Len(s)] -> Pairs]
    BY <1>6, <2>2
  <2> QED BY <2>1, <2>3
<1>8. ASSUME NEW i \in 1..Len(s), NEW o \in 1..MsgLen(s[i])
      PROVE  B[E[i - 1] + o] = <<i, o>>
  <2>1. E[i] = E[i - 1] + MsgLen(s[i]) /\ E[i - 1] \in Nat /\ MsgLen(s[i]) \in Nat
    BY <1>0 DEF IsEnds
  <2>2. PICK p : p = E[i - 1] + o
    OBVIOUS
  <2>n. Len(s) \in Nat
    BY <1>0
  <2>a. i \in 0..Len(s) /\ i - 1 \in 0..Len(s)
    BY <2>n
  <2>b. E[i] \in Nat /\ E[i] <= E[Len(s)] /\ E[Len(s)] \in Nat /\ Start(i) = E[i - 1]
    BY <1>0, <1>3, <2>a
  <2>c. PICK d, e, x \in Nat : d = E[i - 1] /\ e = E[i] /\ x = E[Len(s)]
    BY <2>1, <2>b
  <2>d. PICK m \in Nat : m = MsgLen(s[i]) /\ o \in 1..m
    BY <2>1
  <2>e. e = d + m /\ e <= x /\ p = d + o /\ Start(i) = d
    BY <2>1, <2>2, <2>b, <2>c, <2>d
  <2>f. p \in 1..x /\ d < p /\ p <= e /\ p - d = o
    BY <2>d, <2>e
  <2>3. p \in 1..E[Len(s)] /\ Start(i) < p /\ p <= E[i] /\ p - Start(i) = o /\ i \in 0..Len(s)
    BY <2>a, <2>c, <2>e, <2>f
  <2>4. At(p) = i
    BY <1>5, <2>3
  <2>5. B[p] = <<At(p), p - Start(At(p))>>
    BY <1>1, <2>3
  <2> QED BY <2>2, <2>3, <2>4, <2>5
<1> QED BY <1>7, <1>8 DEF E, B

-----------------------------------------------------------------------------
(* The read buffer *)

Buffers == [len : Nat, processed : Nat, data : Seq(Pairs)]

\* After d messages of s, the buffer b holds what was read of the others, up to
\* byte t of the peer's.
Holds(b, s, d, t) ==
    /\ b \in Buffers /\ b.processed <= Len(b.data) /\ Len(b.data) <= b.len
    /\ d \in 0..Len(s) /\ t \in Nat /\ Ends(s)[d] <= t /\ t <= Len(Bytes(s))
    /\ Len(b.data) = b.processed + (t - Ends(s)[d])
    /\ \A j \in 1..(t - Ends(s)[d]) : b.data[b.processed + j] = Bytes(s)[Ends(s)[d] + j]

\* What is left in the buffer.
Rest(b) == SubSeq(b.data, b.processed + 1, Len(b.data))

\* The rest of the buffer, byte by byte.
LEMMA RestFacts ==
    ASSUME NEW s \in Streams, NEW b, NEW d, NEW t, Holds(b, s, d, t)
    PROVE  /\ Rest(b) \in Seq(Pairs) /\ Len(Rest(b)) = t - Ends(s)[d]
           /\ Ends(s)[d] \in Nat
           /\ \A j \in 1..(t - Ends(s)[d]) : Rest(b)[j] = Bytes(s)[Ends(s)[d] + j]
           /\ Rest(b) = SubSeq(Bytes(s), Ends(s)[d] + 1, t)
<1>1. IsEnds(s, Ends(s), Len(s)) /\ Len(s) \in Nat
  BY EndsAreEnds, LengthFacts
<1>2. PICK e : e = Ends(s)[d]
  OBVIOUS
<1>3. e \in Nat /\ t \in Nat /\ e <= t /\ t <= Len(Bytes(s))
  BY <1>1, <1>2 DEF IsEnds, Holds
<1>4. Bytes(s) \in Seq(Pairs)
  BY BytesFacts
<1>5. PICK n \in Nat, x \in Seq(Pairs) :
        /\ n = b.processed /\ x = b.data /\ Len(x) = n + (t - e)
        /\ \A j \in 1..(t - e) : x[n + j] = Bytes(s)[e + j]
  BY <1>2 DEF Holds, Buffers
<1>6. PICK y \in Seq(Pairs) : y = Bytes(s)
  BY <1>4
<1>a. PICK k \in Nat : k = t - e
  BY <1>3
<1>b. Len(x) = n + k /\ t = e + k /\ t <= Len(y)
  BY <1>3, <1>5, <1>6, <1>a
<1>7. /\ SubSeq(x, n + 1, Len(x)) \in Seq(Pairs)
      /\ Len(SubSeq(x, n + 1, Len(x))) = t - e
      /\ \A j \in 1..(t - e) : SubSeq(x, n + 1, Len(x))[j] = x[n + j]
  <2>1. n + k <= Len(x) /\ Len(x) = n + k
    BY <1>b
  <2> QED BY <1>a, <2>1, CutFacts
<1>8. /\ SubSeq(y, e + 1, t) \in Seq(Pairs)
      /\ Len(SubSeq(y, e + 1, t)) = t - e
      /\ \A j \in 1..(t - e) : SubSeq(y, e + 1, t)[j] = y[e + j]
  <2>1. e + k <= Len(y) /\ t = e + k /\ e \in Nat
    BY <1>3, <1>b
  <2> QED BY <1>a, <2>1, CutFacts
<1>9. SubSeq(x, n + 1, Len(x)) = SubSeq(y, e + 1, t)
  <2>1. PICK u \in Seq(Pairs), v \in Seq(Pairs) :
           u = SubSeq(x, n + 1, Len(x)) /\ v = SubSeq(y, e + 1, t)
    BY <1>7, <1>8
  <2>2. Len(u) = Len(v) /\ Len(u) = t - e /\ \A j \in 1..(t - e) : u[j] = v[j]
    BY <1>5, <1>6, <1>7, <1>8, <2>1
  <2>3. u = v
    BY <2>2, SeqEqual
  <2> QED BY <2>1, <2>3
<1>10. Rest(b) = SubSeq(x, n + 1, Len(x))
  BY <1>5 DEF Rest
<1> QED BY <1>2, <1>3, <1>5, <1>6, <1>7, <1>9, <1>10

\* A message that is complete in the buffer is handed over.
LEMMA HandedOver ==
    ASSUME NEW s \in Streams, NEW b, NEW d, NEW t, Holds(b, s, d, t),
           d + 1 \in 1..Len(s), Ends(s)[d + 1] <= t,
           NEW c, c = [b EXCEPT !.processed = @ + MsgLen(s[d + 1])]
    PROVE  Holds(c, s, d + 1, t)
<1>1. IsEnds(s, Ends(s), Len(s)) /\ Len(s) \in Nat
  BY EndsAreEnds, LengthFacts
<1>2. PICK e, m : e = Ends(s)[d] /\ m = MsgLen(s[d + 1])
  OBVIOUS
<1>3. d \in 0..Len(s) /\ d + 1 \in 0..Len(s) /\ (d + 1) - 1 = d
  BY <1>1 DEF Holds
<1>4. e \in Nat /\ m \in Nat /\ Ends(s)[d + 1] = e + m
  <2>1. Ends(s)[d + 1] = Ends(s)[(d + 1) - 1] + MsgLen(s[d + 1])
    BY <1>1 DEF IsEnds
  <2>2. Ends(s)[d] \in Nat
    BY <1>1, <1>3 DEF IsEnds
  <2> QED BY <1>2, <1>3, <2>1, <2>2, LengthFacts
<1>5. PICK f : f = e + m /\ f \in Nat
  BY <1>4
<1>6. /\ b \in Buffers /\ b.processed <= Len(b.data) /\ Len(b.data) <= b.len
      /\ t \in Nat /\ e <= t /\ t <= Len(Bytes(s)) /\ f <= t
      /\ Len(b.data) = b.processed + (t - e)
      /\ \A j \in 1..(t - e) : b.data[b.processed + j] = Bytes(s)[e + j]
  BY <1>2, <1>4, <1>5 DEF Holds
<1>7. b.processed \in Nat /\ b.len \in Nat /\ b.data \in Seq(Pairs)
  BY <1>6 DEF Buffers
<1>8. c.processed = b.processed + m /\ c.len = b.len /\ c.data = b.data /\ c \in Buffers
  <2>1. b.processed + m \in Nat
    BY <1>4, <1>7
  <2> QED BY <1>2, <1>6, <1>7, <2>1 DEF Buffers
<1>9. ASSUME NEW j \in 1..(t - f) PROVE c.data[c.processed + j] = Bytes(s)[f + j]
  <2>0. t \in Nat /\ e \in Nat /\ m \in Nat /\ f = e + m /\ f <= t
    BY <1>4, <1>5, <1>6
  <2>1. m + j \in 1..(t - e) /\ f + j = e + (m + j)
    BY <2>0
  <2>2. PICK n \in Nat : n = b.processed
    BY <1>7
  <2>3. (n + m) + j = n + (m + j)
    BY <2>0
  <2> QED BY <1>6, <1>8, <2>1, <2>2, <2>3
<1>10. Len(c.data) = c.processed + (t - f) /\ c.processed <= Len(c.data) /\ Len(c.data) <= c.len
  BY <1>4, <1>5, <1>6, <1>7, <1>8
<1> QED BY <1>3, <1>4, <1>5, <1>6, <1>8, <1>9, <1>10 DEF Holds

\* prepare_for_read moves what is left to the front and makes room.
LEMMA PreparedFacts ==
    ASSUME NEW s \in Streams, NEW b, NEW d, NEW t, Holds(b, s, d, t), NEW need \in Nat,
           NEW c, c = prepare_for_read(b, need)
    PROVE  Holds(c, s, d, t) /\ c.len >= Len(c.data) + need
<1>1. PICK e, r : e = Ends(s)[d] /\ r = Rest(b)
  OBVIOUS
<1>2. /\ r \in Seq(Pairs) /\ Len(r) = t - e /\ e \in Nat
      /\ \A j \in 1..(t - e) : r[j] = Bytes(s)[e + j]
  BY <1>1, RestFacts
<1>3. /\ b \in Buffers /\ b.processed <= Len(b.data) /\ Len(b.data) <= b.len
      /\ t \in Nat /\ e <= t /\ t <= Len(Bytes(s)) /\ d \in 0..Len(s)
      /\ Len(b.data) = b.processed + (t - e)
  BY <1>1 DEF Holds
<1>4. b.processed \in Nat /\ b.len \in Nat /\ Len(r) \in Nat /\ Len(r) <= b.len
  BY <1>2, <1>3 DEF Buffers
<1>5. PICK n \in Nat : /\ c = [b EXCEPT !.data = r, !.processed = 0, !.len = n]
                       /\ n >= Len(r) + need /\ n >= b.len
  <2> DEFINE grown == IF 2 * b.len > b.len + need THEN 2 * b.len ELSE b.len + need
             n == IF b.len < Len(r) + need THEN grown ELSE b.len
  <2>1. c = [b EXCEPT !.data = r, !.processed = 0, !.len = n]
    BY <1>1 DEF prepare_for_read, Rest
  <2>2. n \in Nat /\ n >= Len(r) + need /\ n >= b.len
    BY <1>4
  <2> QED BY <2>1, <2>2
<1>6. c.data = r /\ c.processed = 0 /\ c.len = n /\ c \in Buffers
  <2>1. c.data = r /\ c.processed = 0 /\ c.len = n
    BY <1>3, <1>5 DEF Buffers
  <2>2. c = [len |-> n, processed |-> 0, data |-> r]
    BY <1>3, <1>5 DEF Buffers
  <2> QED BY <1>2, <2>1, <2>2 DEF Buffers
<1>7. ASSUME NEW j \in 1..(t - e) PROVE c.data[c.processed + j] = Bytes(s)[e + j]
  <2>1. c.processed + j = j
    BY <1>2, <1>3, <1>6
  <2> QED BY <1>2, <1>6, <2>1
<1>8. Len(c.data) = c.processed + (t - e) /\ c.processed <= Len(c.data) /\ Len(c.data) <= c.len
  BY <1>2, <1>4, <1>5, <1>6
<1> QED BY <1>1, <1>3, <1>5, <1>6, <1>7, <1>8 DEF Holds

\* The m bytes of x behind n are those of y behind e.
Agree(x, n, y, e, m) == \A j \in 1..m : x[n + j] = y[e + j]

\* More bytes of y, behind an x that ends with the bytes of y before them.
LEMMA GlueFacts ==
    ASSUME NEW x \in Seq(Pairs), NEW y, NEW r \in Seq(Pairs),
           NEW n \in Nat, NEW e \in Nat, NEW m \in Nat, NEW k \in Nat,
           Len(x) = n + m, Len(r) = k,
           Agree(x, n, y, e, m), Agree(r, 0, y, e + m, k)
    PROVE  /\ x \o r \in Seq(Pairs) /\ Len(x \o r) = n + (m + k)
           /\ Agree(x \o r, n, y, e, m + k)
<1>1. /\ x \o r \in Seq(Pairs) /\ Len(x \o r) = Len(x) + Len(r)
      /\ \A i \in 1..(Len(x) + Len(r)) :
            (x \o r)[i] = IF i <= Len(x) THEN x[i] ELSE r[i - Len(x)]
  BY ConcatProperties
<1>2. PICK z : z = x \o r
  OBVIOUS
<1>3. \A i \in 1..((n + m) + k) : z[i] = IF i <= n + m THEN x[i] ELSE r[i - (n + m)]
  BY <1>1, <1>2
<1>4. ASSUME NEW j \in 1..(m + k) PROVE z[n + j] = y[e + j]
  <2>1. CASE j <= m
    <3>1. j \in 1..m /\ n + j \in 1..((n + m) + k) /\ n + j <= n + m
      BY <2>1
    <3> QED BY <1>3, <3>1 DEF Agree
  <2>2. CASE j > m
    <3>1. PICK i \in 1..k : i = j - m
      BY <2>2
    <3>2. /\ n + j \in 1..((n + m) + k) /\ ~(n + j <= n + m) /\ (n + j) - (n + m) = i
          /\ (e + m) + i = e + j
      BY <2>2, <3>1
    <3>3. z[n + j] = r[0 + i]
      BY <1>3, <3>2
    <3>4. r[0 + i] = y[(e + m) + i]
      BY <3>1 DEF Agree
    <3> QED BY <3>2, <3>3, <3>4
  <2> QED BY <2>1, <2>2
<1>5. (n + m) + k = n + (m + k)
  OBVIOUS
<1>6. Agree(z, n, y, e, m + k)
  BY <1>4 DEF Agree
<1> QED BY <1>1, <1>2, <1>5, <1>6

\* A buffer with more data in it.
LEMMA MoreData ==
    ASSUME NEW b \in Buffers, NEW z \in Seq(Pairs)
    PROVE  /\ [b EXCEPT !.data = z] \in Buffers /\ [b EXCEPT !.data = z].data = z
           /\ [b EXCEPT !.data = z].len = b.len
           /\ [b EXCEPT !.data = z].processed = b.processed
           /\ b.len \in Nat /\ b.processed \in Nat /\ b.data \in Seq(Pairs)
BY DEF Buffers

\* The sums behind a read of k bytes, of which m others wait at n.
LEMMA ReadSums ==
    ASSUME NEW e \in Nat, NEW m \in Nat, NEW k \in Nat, NEW n \in Nat, NEW l \in Nat,
           k <= l - (n + m)
    PROVE  /\ (e + m) + k \in Nat /\ e <= (e + m) + k /\ ((e + m) + k) - e = m + k
           /\ n <= n + (m + k) /\ n + (m + k) <= l
OBVIOUS

\* More bytes of the stream, behind those that are there.
LEMMA HoldsMore ==
    ASSUME NEW s \in Streams, NEW b, NEW d, NEW t, NEW k \in Nat, NEW r \in Seq(Pairs)
    PROVE  /\ Holds(b, s, d, t) /\ k <= b.len - Len(b.data)
           /\ t + k <= Len(Bytes(s)) /\ Len(r) = k /\ \A j \in 1..k : r[j] = Bytes(s)[t + j]
           => Holds([b EXCEPT !.data = b.data \o r], s, d, t + k)
<1>0. SUFFICES ASSUME Holds(b, s, d, t), k <= b.len - Len(b.data), t + k <= Len(Bytes(s)),
                      Len(r) = k, \A j \in 1..k : r[j] = Bytes(s)[t + j]
               PROVE  Holds([b EXCEPT !.data = b.data \o r], s, d, t + k)
  OBVIOUS
<1>1. PICK e \in Nat, y \in Seq(Pairs) : e = Ends(s)[d] /\ y = Bytes(s)
  BY <1>0, BytesFacts, RestFacts
<1>2. /\ b \in Buffers /\ Len(b.data) <= b.len
      /\ t \in Nat /\ e <= t /\ d \in 0..Len(s)
      /\ Len(b.data) = b.processed + (t - e)
      /\ \A j \in 1..(t - e) : b.data[b.processed + j] = y[e + j]
  BY <1>0, <1>1 DEF Holds
<1>3. PICK m \in Nat : m = t - e /\ t = e + m
  BY <1>2
<1>4. b.len \in Nat /\ b.processed \in Nat /\ b.data \in Seq(Pairs)
  BY <1>2, MoreData
<1>5. PICK x \in Seq(Pairs), n \in Nat, l \in Nat : x = b.data /\ n = b.processed /\ l = b.len
  BY <1>4
<1>6. Len(x) = n + m /\ k <= l - (n + m) /\ Agree(x, n, y, e, m)
  BY <1>0, <1>2, <1>3, <1>5 DEF Agree
<1>7. Len(r) = k /\ Agree(r, 0, y, e + m, k)
  <2>1. \A j \in 1..k : 0 + j = j
    OBVIOUS
  <2> QED BY <1>0, <1>1, <1>3, <2>1 DEF Agree
<1>8. PICK z : z = x \o r
  OBVIOUS
<1>9. z \in Seq(Pairs) /\ Len(z) = n + (m + k) /\ Agree(z, n, y, e, m + k)
  <2>1. /\ x \o r \in Seq(Pairs) /\ Len(x \o r) = n + (m + k)
        /\ Agree(x \o r, n, y, e, m + k)
    BY <1>6, <1>7, GlueFacts
  <2> QED BY <1>8, <2>1
<1>10. PICK c : c = [b EXCEPT !.data = z]
  OBVIOUS
<1>11. c \in Buffers /\ c.data = z /\ c.len = l /\ c.processed = n
  BY <1>2, <1>5, <1>9, <1>10, MoreData
<1>12. /\ t + k \in Nat /\ e <= t + k /\ (t + k) - e = m + k
       /\ n <= n + (m + k) /\ n + (m + k) <= l
  BY <1>3, <1>6, ReadSums
<1>13. Holds(c, s, d, t + k)
  BY <1>0, <1>1, <1>2, <1>9, <1>11, <1>12 DEF Holds, Agree
<1> QED BY <1>5, <1>8, <1>10, <1>13

\* A read puts the next bytes behind those that are there.
LEMMA ReadFacts ==
    ASSUME NEW s \in Streams, NEW b, NEW d, NEW t, Holds(b, s, d, t),
           NEW k \in Nat, k <= b.len - Len(b.data), t + k <= Len(Bytes(s)),
           NEW c, c = [b EXCEPT !.data = @ \o SubSeq(Bytes(s), t + 1, t + k)]
    PROVE  Holds(c, s, d, t + k)
<1>1. t \in Nat /\ Bytes(s) \in Seq(Pairs)
  BY BytesFacts DEF Holds
<1>2. PICK r : r = SubSeq(Bytes(s), t + 1, t + k)
  OBVIOUS
<1>3. r \in Seq(Pairs) /\ Len(r) = k /\ \A j \in 1..k : r[j] = Bytes(s)[t + j]
  BY <1>1, <1>2, CutFacts
<1>4. Holds([b EXCEPT !.data = b.data \o r], s, d, t + k)
  BY <1>3, HoldsMore
<1> QED BY <1>2, <1>4

\* What is at the front of a buffer that holds the rest of the stream is the next
\* message, and deserialize takes it for that.
LEMMA ParsedFacts ==
    ASSUME remote.stream \in Streams, NEW d, NEW t, Holds(rb, remote.stream, d, t),
           Unprocessed # <<>>
    PROVE  /\ d + 1 \in 1..Len(remote.stream)
           /\ Parsed.res = "message" =>
                 /\ Parsed.index = d + 1 /\ Parsed.size = MsgLen(remote.stream[d + 1])
                 /\ Ends(remote.stream)[d + 1] <= t
                 /\ remote.stream[d + 1].kind # "unsupported"
           /\ Parsed.res = "not_enough" => Parsed.need \in Nat
<1>1. PICK s \in Streams : s = remote.stream
  OBVIOUS
<1>2. PICK e, u : e = Ends(s)[d] /\ u = Unprocessed
  OBVIOUS
<1>3. u = Rest(rb) /\ Holds(rb, s, d, t)
  BY <1>1, <1>2 DEF Unprocessed, Rest
<1>4. /\ u \in Seq(Pairs) /\ Len(u) = t - e /\ e \in Nat
      /\ \A j \in 1..(t - e) : u[j] = Bytes(s)[e + j]
  BY <1>2, <1>3, RestFacts
<1>5. t \in Nat /\ e <= t /\ t <= Ends(s)[Len(s)] /\ d \in 0..Len(s) /\ Len(s) \in Nat
  BY <1>2, <1>3, BytesFacts, LengthFacts DEF Holds
<1>6. PICK n \in Nat : n = Len(u) /\ t = e + n /\ n > 0
  <2>1. Len(u) \in Nat /\ u # <<>>
    BY <1>2, <1>4, LenProperties
  <2>2. Len(u) # 0
    BY <1>4, <2>1, EmptySeq
  <2> QED BY <1>4, <1>5, <2>1, <2>2
<1>7. d + 1 \in 1..Len(s) /\ (d + 1) - 1 = d
  <2>1. d # Len(s)
    BY <1>2, <1>4, <1>5, <1>6
  <2> QED BY <1>5, <2>1
<1>8. PICK m \in Nat \ {0} : m = MsgLen(s[d + 1]) /\ Ends(s)[d + 1] = e + m
  <2>1. IsEnds(s, Ends(s), Len(s)) /\ MsgLen(s[d + 1]) \in Nat \ {0}
    BY <1>7, EndsAreEnds, LengthFacts
  <2>2. Ends(s)[d + 1] = Ends(s)[(d + 1) - 1] + MsgLen(s[d + 1])
    BY <1>7, <2>1 DEF IsEnds
  <2> QED BY <1>2, <1>7, <2>1, <2>2
<1>9. ASSUME NEW o \in 1..n, o <= m PROVE u[o] = <<d + 1, o>>
  <2>1. o \in 1..(t - e) /\ o \in 1..MsgLen(s[d + 1])
    BY <1>4, <1>6, <1>8, <1>9
  <2>2. u[o] = Bytes(s)[e + o]
    BY <1>4, <2>1
  <2>3. Bytes(s)[Ends(s)[(d + 1) - 1] + o] = <<d + 1, o>>
    BY <1>7, <2>1, BytesFacts
  <2> QED BY <1>2, <1>7, <2>2, <2>3
<1>10. u[1][1] = d + 1
  <2>1. 1 \in 1..n /\ 1 <= m
    BY <1>6, <1>8
  <2>2. u[1] = <<d + 1, 1>>
    BY <1>9, <2>1
  <2> QED BY <2>2
<1>11. ~Garbled(u, d + 1)
  BY <1>1, <1>6, <1>8, <1>9 DEF Garbled
<1>12. IntLen \in Nat
  BY ConnectionAssumption
<1>13. Parsed = IF n < IntLen THEN [res |-> "not_enough", need |-> IntLen]
                ELSE IF m > IntLen /\ n = IntLen THEN [res |-> "not_enough", need |-> 1]
                ELSE IF s[d + 1].kind = "unsupported" THEN [res |-> "error"]
                ELSE IF n < m THEN [res |-> "not_enough", need |-> m - n]
                ELSE [res |-> "message", index |-> d + 1, size |-> m]
  <2>1. d + 1 # 0
    BY <1>7
  <2> QED BY <1>1, <1>2, <1>6, <1>8, <1>10, <1>11, <2>1 DEF Parsed, deserialize
<1>14. Parsed.res = "message" => /\ Parsed.index = d + 1 /\ Parsed.size = m /\ ~(n < m)
                                 /\ s[d + 1].kind # "unsupported"
  BY <1>13
<1>15. Parsed.res = "not_enough" => Parsed.need \in Nat
  BY <1>12, <1>13
<1>16. ~(n < m) => e + m <= t
  BY <1>4, <1>6
<1> QED BY <1>1, <1>7, <1>8, <1>14, <1>15, <1>16

-----------------------------------------------------------------------------
(* The reader, one lemma per group of actions *)

Fresh == {"connected", "handshake_sent", "accepted"}
Greeted == {"checked", "added", "handshaken"}

\* The messages that were handed over are the first of the stream, all known.
InSequence(l, s) ==
    l \in Seq(Nat) /\ \A i \in 1..Len(l) : l[i] = i /\ s[i].kind # "unsupported"

ReadInv ==
    /\ remote.stream \in Streams /\ remote.bytes = Bytes(remote.stream)
    /\ rb \in Buffers /\ rb.processed <= Len(rb.data) /\ Len(rb.data) <= rb.len
    /\ taken \in Nat /\ taken <= Len(remote.bytes)
    /\ InSequence(delivered, remote.stream)
    /\ phase \in Fresh => taken = 0 /\ rb.len = BufLen
    /\ phase \in Fresh \cup Greeted => delivered = <<>>
    /\ phase \in Greeted \cup {"live"} => Holds(rb, remote.stream, Len(delivered), taken)

\* Nothing is read when a connection starts.
LEMMA ReadInit == Init => ReadInv
<1> SUFFICES ASSUME Init PROVE ReadInv
  OBVIOUS
<1>1. remote.stream \in Streams /\ remote.bytes = Bytes(remote.stream)
  BY DEF Init
<1>2. phase \in {"accepted", "connected"} /\ taken = 0 /\ delivered = <<>>
  BY DEF Init
<1>3. rb = [len |-> BufLen, processed |-> 0, data |-> <<>>] /\ BufLen \in Nat
  BY ConnectionAssumption DEF Init
<1>4. <<>> \in Seq(Pairs) /\ <<>> \in Seq(Nat) /\ Len(<<>>) = 0
  OBVIOUS
<1>5. rb \in Buffers /\ rb.processed <= Len(rb.data) /\ Len(rb.data) <= rb.len /\ rb.len = BufLen
  BY <1>3, <1>4 DEF Buffers
<1>6. InSequence(delivered, remote.stream)
  BY <1>2, <1>4 DEF InSequence
<1>7. Len(remote.bytes) \in Nat
  <2>1. remote.bytes \in Seq(Pairs)
    BY <1>1, BytesFacts
  <2> QED BY <2>1, LenProperties
<1> QED BY <1>1, <1>2, <1>5, <1>6, <1>7 DEF ReadInv, Fresh, Greeted

\* A step that reads nothing.
LEMMA NotReading ==
    ASSUME ReadInv, UNCHANGED <<remote, reading>>,
           \/ phase' = phase
           \/ phase' = "closed"
           \/ phase' \in Fresh /\ phase \in Fresh
           \/ phase' \in Greeted /\ phase \in Greeted
           \/ phase' = "live" /\ phase \in Greeted
    PROVE  ReadInv'
<1>1. remote' = remote /\ rb' = rb /\ taken' = taken /\ delivered' = delivered
  BY DEF reading
<1>2. "closed" \notin Fresh \cup Greeted \cup {"live"} /\ "live" \notin Fresh \cup Greeted
  BY DEF Fresh, Greeted
<1>3. phase' \in Fresh => phase \in Fresh
  BY <1>2 DEF Fresh, Greeted
<1>4. phase' \in Fresh \cup Greeted => phase \in Fresh \cup Greeted
  BY <1>2
<1>5. phase' \in Greeted \cup {"live"} => phase \in Greeted \cup {"live"}
  BY <1>2 DEF Fresh, Greeted
<1> QED BY <1>1, <1>3, <1>4, <1>5, Zenon DEF ReadInv

\* read_handshake: the buffer keeps what came behind the handshake.
LEMMA HandshakeRead ==
    ASSUME ReadInv, phase \in Fresh, NEW next \in Greeted, read_handshake(next), remote' = remote
    PROVE  ReadInv'
<1>1. PICK s \in Streams : s = remote.stream /\ remote.bytes = Bytes(s)
  BY DEF ReadInv
<1>2. PICK k \in 1..BufLen :
         /\ taken + k <= Len(remote.bytes)
         /\ taken' = taken + k
         /\ rb' = [rb EXCEPT !.data = SubSeq(remote.bytes, 1, k),
                             !.processed = IF k < HandshakeLen THEN 0 ELSE HandshakeLen]
         /\ phase' = IF k < HandshakeLen \/ ~remote.valid THEN "closed" ELSE next
  BY DEF read_handshake
<1>3. BufLen \in Nat /\ HandshakeLen \in Nat /\ k \in Nat
  BY ConnectionAssumption
<1>4. PICK y \in Seq(Pairs) : y = Bytes(s)
  BY BytesFacts
<1>5. taken' = k /\ k <= Len(y)
  BY <1>1, <1>2, <1>3, <1>4 DEF ReadInv
<1>6. PICK x \in Seq(Pairs) : /\ x = SubSeq(y, 1, k) /\ Len(x) = k
                              /\ \A j \in 1..k : x[j] = y[j]
  <2>1. 0 + k <= Len(y) /\ 0 + 1 = 1 /\ 0 + k = k /\ \A j \in 1..k : 0 + j = j
    BY <1>3, <1>5
  <2>2. /\ SubSeq(y, 0 + 1, 0 + k) \in Seq(Pairs) /\ Len(SubSeq(y, 0 + 1, 0 + k)) = k
        /\ \A j \in 1..k : SubSeq(y, 0 + 1, 0 + k)[j] = y[0 + j]
    BY <1>3, <2>1, CutFacts
  <2> QED BY <2>1, <2>2
<1>7. PICK n \in Nat : n = IF k < HandshakeLen THEN 0 ELSE HandshakeLen
  BY <1>3
<1>8. rb' = [len |-> BufLen, processed |-> n, data |-> x]
  <2>1. rb \in Buffers /\ rb.len = BufLen
    BY DEF ReadInv
  <2>2. rb' = [rb EXCEPT !.data = x, !.processed = n]
    BY <1>1, <1>2, <1>4, <1>6, <1>7
  <2> QED BY <2>1, <2>2 DEF Buffers
<1>9. rb' \in Buffers /\ rb'.processed = n /\ rb'.data = x /\ rb'.len = BufLen
  BY <1>3, <1>8 DEF Buffers
<1>10. n <= k /\ k <= BufLen
  BY <1>3, <1>7
<1>11. delivered' = <<>> /\ delivered = <<>> /\ Len(<<>>) = 0
  BY DEF read_handshake, ReadInv
<1>12. ASSUME ~(k < HandshakeLen) PROVE Holds(rb', s, 0, k)
  <2>1. IsEnds(s, Ends(s), Len(s)) /\ Len(s) \in Nat
    BY EndsAreEnds, LengthFacts
  <2>2. Ends(s)[0] = HandshakeLen
    BY <2>1 DEF IsEnds
  <2>3. 0 \in 0..Len(s) /\ HandshakeLen <= k /\ n = HandshakeLen
    BY <1>3, <1>7, <1>12, <2>1
  <2>4. ASSUME NEW j \in 1..(k - HandshakeLen)
        PROVE  rb'.data[rb'.processed + j] = Bytes(s)[HandshakeLen + j]
    <3>1. HandshakeLen + j \in 1..k
      BY <1>3, <2>3
    <3> QED BY <1>4, <1>6, <1>9, <2>3, <3>1
  <2>5. Len(rb'.data) = rb'.processed + (k - HandshakeLen) /\ k <= Len(Bytes(s))
    BY <1>3, <1>4, <1>5, <1>6, <1>9, <2>3
  <2> QED BY <1>3, <1>6, <1>9, <1>10, <2>2, <2>3, <2>4, <2>5 DEF Holds
<1>13. phase' = "closed" \/ (phase' \in Greeted /\ ~(k < HandshakeLen))
  BY <1>2
<1>14. "closed" \notin Fresh \cup Greeted \cup {"live"} /\ Fresh \cap Greeted = {}
  BY DEF Fresh, Greeted
<1>15. InSequence(delivered', remote'.stream)
  BY <1>11 DEF ReadInv
<1>16. rb'.processed <= Len(rb'.data) /\ Len(rb'.data) <= rb'.len /\ taken' \in Nat
  BY <1>3, <1>5, <1>6, <1>9, <1>10
<1>17. remote'.stream = s /\ remote'.bytes = Bytes(s) /\ taken' <= Len(remote'.bytes)
  BY <1>1, <1>4, <1>5
<1> QED BY <1>5, <1>9, <1>11, <1>12, <1>13, <1>14, <1>15, <1>16, <1>17 DEF ReadInv

\* What the buffer holds bounds it.
LEMMA HoldsBounds ==
    ASSUME NEW b, NEW s, NEW d, NEW t, Holds(b, s, d, t)
    PROVE  /\ b \in Buffers /\ b.processed <= Len(b.data) /\ Len(b.data) <= b.len
           /\ t \in Nat /\ t <= Len(Bytes(s))
BY DEF Holds

\* read_message, when a message is complete: it is the next one.
LEMMA OnMessageRead ==
    ASSUME ReadInv, on_message
    PROVE  ReadInv'
<1>1. PICK s \in Streams, d \in Nat : s = remote.stream /\ d = Len(delivered)
  <2>1. delivered \in Seq(Nat)
    BY DEF ReadInv, InSequence
  <2> QED BY <2>1, LenProperties DEF ReadInv
<1>2. /\ phase = "live" /\ remote' = remote /\ taken' = taken /\ Unprocessed # <<>>
      /\ Parsed.res # "not_enough"
  BY DEF on_message, NeedsRead
<1>3. Holds(rb, s, d, taken)
  BY <1>1, <1>2 DEF ReadInv
<1>4. CASE Parsed.res = "message"
  <2>1. /\ rb' = [rb EXCEPT !.processed = @ + Parsed.size]
        /\ delivered' = Append(delivered, Parsed.index)
        /\ phase' = "live" \/ phase' = "closed"
    BY <1>2, <1>4 DEF on_message, OnMessage, on_download_request
  <2>2. /\ d + 1 \in 1..Len(s) /\ Parsed.index = d + 1 /\ Parsed.size = MsgLen(s[d + 1])
        /\ Ends(s)[d + 1] <= taken /\ s[d + 1].kind # "unsupported"
    BY <1>1, <1>2, <1>3, <1>4, ParsedFacts
  <2>3. PICK c : c = [rb EXCEPT !.processed = @ + MsgLen(s[d + 1])]
    OBVIOUS
  <2>4. Holds(c, s, d + 1, taken) /\ rb' = c
    BY <1>3, <2>1, <2>2, <2>3, HandedOver
  <2>5. PICK l \in Seq(Nat) : l = delivered
    BY DEF ReadInv, InSequence
  <2>6. /\ delivered' \in Seq(Nat) /\ Len(delivered') = d + 1
        /\ \A i \in 1..d : delivered'[i] = l[i]
        /\ delivered'[d + 1] = d + 1
    BY <1>1, <2>1, <2>2, <2>5, AppendFacts
  <2>7. InSequence(delivered', s)
    <3> SUFFICES ASSUME NEW i \in 1..(d + 1)
                 PROVE  delivered'[i] = i /\ s[i].kind # "unsupported"
      BY <2>6 DEF InSequence
    <3>1. CASE i = d + 1
      BY <2>2, <2>6, <3>1
    <3>2. CASE i # d + 1
      <4>1. i \in 1..d
        BY <3>2
      <4> QED BY <1>1, <2>5, <2>6, <4>1 DEF ReadInv, InSequence
    <3> QED BY <3>1, <3>2
  <2>8. "closed" \notin Fresh \cup Greeted \cup {"live"} /\ "live" \notin Fresh \cup Greeted
    BY DEF Fresh, Greeted
  <2>9. /\ rb' \in Buffers /\ rb'.processed <= Len(rb'.data) /\ Len(rb'.data) <= rb'.len
    BY <2>4, HoldsBounds
  <2>10. Holds(rb', remote'.stream, Len(delivered'), taken')
    BY <1>1, <1>2, <2>4, <2>6
  <2>11. InSequence(delivered', remote'.stream)
    BY <1>1, <1>2, <2>7
  <2> QED BY <1>2, <2>1, <2>8, <2>9, <2>10, <2>11 DEF ReadInv
<1>5. CASE Parsed.res # "message"
  <2>1. UNCHANGED <<remote, reading>> /\ phase' = "closed"
    BY <1>2, <1>5 DEF on_message, reading
  <2> QED BY <2>1, NotReading
<1> QED BY <1>4, <1>5

\* read_message, when bytes are missing: there is room for them, and they are the
\* next ones.
LEMMA PreparedHolds ==
    ASSUME ReadInv, phase = "live", NeedsRead
    PROVE  /\ Holds(Prepared, remote.stream, Len(delivered), taken)
           /\ Prepared.len >= Len(Prepared.data) + (IF Unprocessed = <<>> THEN IntLen ELSE Parsed.need)
<1>0. PICK d : d = Len(delivered)
  OBVIOUS
<1>1. PICK s \in Streams : s = remote.stream /\ d = Len(delivered)
  BY <1>0 DEF ReadInv
<1>2. Holds(rb, s, d, taken)
  BY <1>1 DEF ReadInv
<1>3. PICK need \in Nat : need = IF Unprocessed = <<>> THEN IntLen ELSE Parsed.need
  <2>1. CASE Unprocessed = <<>>
    BY <2>1, ConnectionAssumption
  <2>2. CASE Unprocessed # <<>>
    <3>1. Parsed.res = "not_enough"
      BY <2>2 DEF NeedsRead
    <3>2. Parsed.need \in Nat
      BY <1>1, <1>2, <2>2, <3>1, ParsedFacts
    <3> QED BY <2>2, <3>2
  <2> QED BY <2>1, <2>2
<1>4. PICK c : c = prepare_for_read(rb, need)
  OBVIOUS
<1>5. Prepared = c
  BY <1>3, <1>4 DEF Prepared
<1>6. Holds(c, s, d, taken) /\ c.len >= Len(c.data) + need
  BY <1>2, <1>4, PreparedFacts
<1> QED BY <1>1, <1>3, <1>5, <1>6

\* The bytes that are read are kept in their order.
LEMMA ReadMessageRead ==
    ASSUME ReadInv, read_message
    PROVE  ReadInv'
<1>0. PICK d : d = Len(delivered)
  OBVIOUS
<1>1. PICK s \in Streams : s = remote.stream /\ d = Len(delivered) /\ remote.bytes = Bytes(s)
  BY <1>0 DEF ReadInv
<1>2. phase = "live" /\ NeedsRead /\ ReadSome(Prepared) /\ UNCHANGED <<remote, phase, delivered>>
  BY DEF read_message
<1>3. PICK b : b = Prepared
  OBVIOUS
<1>4. Holds(b, s, d, taken)
  BY <1>1, <1>2, <1>3, PreparedHolds
<1>5. PICK k \in 1..(b.len - Len(b.data)) :
         /\ taken + k <= Len(Bytes(s)) /\ taken' = taken + k
         /\ rb' = [b EXCEPT !.data = @ \o SubSeq(Bytes(s), taken + 1, taken + k)]
  BY <1>1, <1>2, <1>3 DEF ReadSome
<1>6. k \in Nat /\ k <= b.len - Len(b.data)
  <2>1. b.len \in Nat /\ b.data \in Seq(Pairs)
    BY <1>4, HoldsBounds DEF Buffers
  <2>2. Len(b.data) \in Nat
    BY <2>1, LenProperties
  <2> QED BY <2>1, <2>2
<1>7. PICK c : c = [b EXCEPT !.data = @ \o SubSeq(Bytes(s), taken + 1, taken + k)]
  OBVIOUS
<1>8. Holds(c, s, d, taken + k)
  BY <1>4, <1>5, <1>6, <1>7, ReadFacts
<1>9. Holds(rb', s, d, taken')
  BY <1>5, <1>7, <1>8
<1>10. /\ rb' \in Buffers /\ rb'.processed <= Len(rb'.data) /\ Len(rb'.data) <= rb'.len
       /\ taken' \in Nat /\ taken' <= Len(Bytes(s))
  BY <1>9, HoldsBounds
<1>11. "live" \notin Fresh \cup Greeted
  BY DEF Fresh, Greeted
<1>12. InSequence(delivered', remote'.stream) /\ Holds(rb', remote'.stream, Len(delivered'), taken')
  BY <1>1, <1>2, <1>9 DEF ReadInv
<1> QED BY <1>1, <1>2, <1>10, <1>11, <1>12 DEF ReadInv

\* The rest of the state.
OtherTypes ==
    /\ dir \in Directions
    /\ phase \in {"connected", "handshake_sent", "accepted", "checked", "added", "handshaken",
                  "live", "closed"}
    /\ writer \in {"extended", "bitfield", "loop"}
    /\ peer_interested \in BOOLEAN /\ have_bytes \in BOOLEAN
    /\ peer_has \subseteq Pieces /\ untold \subseteq have
    /\ listener \in {"both", "accept_only"}
    /\ others \in [accepted : Nat, checks : Nat]
    /\ others.checks <= others.accepted /\ others.accepted <= MaxOthers

\* The initial values have their types.
LEMMA OtherInit == Init => OtherTypes
<1> SUFFICES ASSUME Init PROVE OtherTypes
  OBVIOUS
<1>1. others = [accepted |-> 0, checks |-> 0] /\ MaxOthers \in Nat
  BY ConnectionAssumption DEF Init
<1>2. have_bytes \in BOOLEAN
  BY DEF Init
<1>3. /\ dir \in Directions /\ phase \in {"connected", "accepted"} /\ writer = "extended"
      /\ peer_interested = FALSE /\ peer_has = {} /\ untold = {} /\ listener = "both"
  BY DEF Init
<1>4. /\ others \in [accepted : Nat, checks : Nat]
      /\ others.checks <= others.accepted /\ others.accepted <= MaxOthers
  BY <1>1
<1> QED BY <1>2, <1>3, <1>4 DEF OtherTypes

\* A message names pieces of the torrent.
LEMMA OtherOnMessage ==
    ASSUME Inv, ReadInv, OtherTypes, on_message
    PROVE  OtherTypes'
<1>1. /\ UNCHANGED <<dir, writer, have_bytes, untold, have, listener, others>>
      /\ phase = "live"
  BY DEF on_message, torrent, accepting
<1>2. CASE Parsed.res # "message"
  BY <1>1, <1>2 DEF on_message, OtherTypes
<1>3. CASE Parsed.res = "message"
  <2>1. PICK m : m = remote.stream[Parsed.index]
    OBVIOUS
  <2>2. KnownMessage(m)
    <3>0. PICK d : d = Len(delivered)
      OBVIOUS
    <3>1. remote.stream \in Streams /\ Holds(rb, remote.stream, d, taken) /\ Unprocessed # <<>>
      BY <1>1, <3>0 DEF ReadInv, on_message, NeedsRead
    <3>2. Parsed.index = d + 1 /\ d + 1 \in 1..Len(remote.stream)
      BY <1>3, <3>1, ParsedFacts
    <3> QED BY <2>1, <3>1, <3>2, ConnectionAssumption
  <2>3. /\ peer_interested' = (peer_interested \/ m.kind = "interested")
        /\ \/ peer_has' = peer_has
           \/ m.kind \in {"have", "bitfield"} /\ peer_has' \subseteq peer_has \cup m.pieces
        /\ phase' = phase \/ phase' = "closed"
    BY <1>3, <2>1 DEF on_message, OnMessage, on_download_request
  <2>4. peer_has' \subseteq Pieces
    BY <2>2, <2>3 DEF KnownMessage, OtherTypes
  <2>5. peer_interested' \in BOOLEAN
    BY <2>3
  <2> QED BY <1>1, <2>3, <2>4, <2>5 DEF OtherTypes
<1> QED BY <1>2, <1>3

\* The counts of the listener.
LEMMA OtherAccept ==
    ASSUME OtherTypes, accept_other \/ other_check_fails
    PROVE  OtherTypes'
<1>1. /\ UNCHANGED <<dir, phase, writer, peer_interested, peer_has, have_bytes, untold, have>>
      /\ listener' \in {"both", "accept_only"}
  BY DEF accept_other, other_check_fails, writing, torrent
<1>2. PICK x \in Nat, y \in Nat : others = [accepted |-> x, checks |-> y]
  BY DEF OtherTypes
<1>3. y <= x /\ x <= MaxOthers /\ MaxOthers \in Nat
  BY <1>2, ConnectionAssumption DEF OtherTypes
<1>4. CASE accept_other
  <2>1. others' = [accepted |-> x + 1, checks |-> y + 1] /\ x < MaxOthers
    BY <1>2, <1>4 DEF accept_other
  <2> QED BY <1>1, <1>3, <2>1 DEF OtherTypes
<1>5. CASE other_check_fails
  <2>1. others' = [accepted |-> x, checks |-> y - 1] /\ y > 0
    BY <1>2, <1>5 DEF other_check_fails
  <2> QED BY <1>1, <1>3, <2>1 DEF OtherTypes
<1> QED BY <1>4, <1>5

\* Every step keeps what was read in order, and the types of the rest.
LEMMA ReadNext ==
    ASSUME Inv, ReadInv, OtherTypes, [Next]_vars
    PROVE  ReadInv' /\ OtherTypes'
<1> USE DEF Fresh, Greeted
<1>1. CASE UNCHANGED vars
  <2>1. UNCHANGED <<remote, reading, phase>>
    BY <1>1 DEF vars
  <2>2. ReadInv'
    BY <2>1, NotReading
  <2>3. OtherTypes'
    BY <1>1 DEF vars, OtherTypes, writing, torrent, accepting
  <2> QED BY <2>2, <2>3
<1>2. CASE on_message
  BY <1>2, OnMessageRead, OtherOnMessage
<1>3. CASE read_message
  <2>1. OtherTypes'
    BY <1>3 DEF read_message, OtherTypes, writing, torrent, accepting
  <2> QED BY <1>3, <2>1, ReadMessageRead
<1>4. CASE read_handshake_outgoing \/ check_incoming_connection
  <2>1. PICK next \in Greeted : read_handshake(next) /\ remote' = remote /\ phase \in Fresh
    BY <1>4 DEF read_handshake_outgoing, check_incoming_connection
  <2>2. phase' = "closed" \/ phase' = next
    BY <2>1 DEF read_handshake
  <2>3. OtherTypes'
    BY <1>4, <2>2 DEF read_handshake_outgoing, check_incoming_connection, OtherTypes,
                      writing, torrent, accepting
  <2> QED BY <2>1, <2>3, HandshakeRead
<1>5. CASE accept_other \/ other_check_fails
  <2>1. UNCHANGED <<remote, reading, phase>>
    BY <1>5 DEF accept_other, other_check_fails
  <2> QED BY <1>5, <2>1, NotReading, OtherAccept
<1>6. CASE \/ write_handshake_outgoing \/ add_incoming_peer \/ write_handshake_incoming
           \/ on_handshake \/ write_extended_handshake \/ write_bitfield \/ write_message \/ close
  <2>1. /\ UNCHANGED <<remote, reading>>
        /\ \/ phase' = phase
           \/ phase' = "closed"
           \/ phase' \in Fresh /\ phase \in Fresh
           \/ phase' \in Greeted /\ phase \in Greeted
           \/ phase' = "live" /\ phase \in Greeted
    BY <1>6 DEF write_handshake_outgoing, add_incoming_peer, write_handshake_incoming, on_handshake,
                write_extended_handshake, write_bitfield, write_message, close
  <2>2. OtherTypes'
    BY <1>6 DEF write_handshake_outgoing, add_incoming_peer, write_handshake_incoming, on_handshake,
                write_extended_handshake, write_bitfield, write_message, close, OtherTypes,
                writing, torrent, accepting
  <2> QED BY <2>1, <2>2, NotReading
<1>7. ASSUME NEW p \in Pieces, \/ mark_piece_downloaded(p) \/ count_have_bytes(p)
                               \/ maybe_transmit_haves(p) \/ transmit_have(p)
      PROVE  ReadInv' /\ OtherTypes'
  <2>1. UNCHANGED <<remote, reading, phase>>
    BY <1>7 DEF mark_piece_downloaded, count_have_bytes, maybe_transmit_haves, transmit_have
  <2>2. /\ UNCHANGED <<dir, writer, peer_interested, peer_has, listener, others>>
        /\ have_bytes' \in BOOLEAN
    BY <1>7 DEF mark_piece_downloaded, count_have_bytes, maybe_transmit_haves, transmit_have,
                OtherTypes, writing, accepting
  <2>3. untold' \subseteq have'
    <3>1. CASE maybe_transmit_haves(p)
      <4>1. p \in have
        BY <3>1 DEF maybe_transmit_haves, Inv, SentOK
      <4> QED BY <3>1, <4>1 DEF maybe_transmit_haves, OtherTypes
    <3>2. CASE mark_piece_downloaded(p) \/ count_have_bytes(p) \/ transmit_have(p)
      BY <3>2 DEF mark_piece_downloaded, count_have_bytes, transmit_have, OtherTypes
    <3> QED BY <1>7, <3>1, <3>2
  <2>4. OtherTypes'
    BY <2>1, <2>2, <2>3 DEF OtherTypes
  <2> QED BY <2>1, <2>4, NotReading
<1> QED BY <1>1, <1>2, <1>3, <1>4, <1>5, <1>6, <1>7 DEF Next

\* The invariant says what ReadsSound says.
LEMMA ReadInvIsSound == Inv /\ ReadInv /\ OtherTypes => ReadsSound
<1> SUFFICES ASSUME Inv, ReadInv, OtherTypes PROVE ReadsSound
  OBVIOUS
<1>1. TypeOK
  <2>1. rb.processed \in 0..Len(rb.data) /\ Len(rb.data) <= rb.len
    <3>1. rb.processed \in Nat /\ rb.data \in Seq(Pairs)
      BY DEF ReadInv, Buffers
    <3>2. Len(rb.data) \in Nat
      BY <3>1, LenProperties
    <3> QED BY <3>1, <3>2 DEF ReadInv
  <2>2. taken \in 0..Len(remote.bytes)
    <3>1. remote.bytes \in Seq(Pairs)
      BY BytesFacts DEF ReadInv
    <3>2. Len(remote.bytes) \in Nat
      BY <3>1, LenProperties
    <3> QED BY <3>2 DEF ReadInv
  <2> QED BY <2>1, <2>2 DEF TypeOK, OtherTypes, Inv
<1>2. MessagesIntact
  <2>1. delivered \in Seq(Nat) /\ Len(delivered) \in Nat
    BY LenProperties DEF ReadInv, InSequence
  <2>2. \A i \in 1..Len(delivered) : delivered[i] = i /\ remote.stream[i].kind # "unsupported"
    BY DEF ReadInv, InSequence
  <2>3. delivered = [i \in 1..Len(delivered) |-> i]
    BY <2>1, <2>2
  <2>4. ASSUME phase = "live"
        PROVE  /\ Len(delivered) <= Len(remote.stream)
               /\ Unprocessed = SubSeq(remote.bytes, Ends(remote.stream)[Len(delivered)] + 1, taken)
    <3>1. PICK s \in Streams : s = remote.stream /\ remote.bytes = Bytes(s)
      BY DEF ReadInv
    <3>2. PICK d : d = Len(delivered)
      OBVIOUS
    <3>3. Holds(rb, s, d, taken)
      BY <2>4, <3>1, <3>2 DEF ReadInv
    <3>4. Rest(rb) = SubSeq(Bytes(s), Ends(s)[d] + 1, taken)
      BY <3>3, RestFacts
    <3>5. d <= Len(s)
      BY <3>3, LengthFacts DEF Holds
    <3> QED BY <3>1, <3>2, <3>4, <3>5 DEF Unprocessed, Rest
  <2> QED BY <2>2, <2>3, <2>4 DEF MessagesIntact
<1>3. RoomToRead
  BY PreparedHolds DEF RoomToRead
<1> QED BY <1>1, <1>2, <1>3 DEF ReadsSound

-----------------------------------------------------------------------------
(* Theorems *)

\* The invariant of what is written.
LEMMA InvHolds == Spec => []Inv
<1>1. ASSUME Inv, [Next]_vars PROVE Inv'
  <2>1. CASE UNCHANGED vars
    BY <1>1, <2>1, QuietKeeps DEF vars
  <2>2. CASE \E p \in Pieces : \/ mark_piece_downloaded(p) \/ count_have_bytes(p)
                               \/ maybe_transmit_haves(p) \/ transmit_have(p)
    BY <1>1, <2>2, PiecesKeep, TransmitKeeps
  <2> QED BY <1>1, <2>1, <2>2, ReadingKeeps, HandshakeKeeps, OnHandshakeKeeps, OnMessageKeeps,
             ExtendedKeeps, BitfieldKeeps, WriteKeeps DEF Next
<1> QED BY <1>1, InitInv, PTL DEF Spec

\* The bit field, if there is one, precedes every message but the handshakes,
\* whatever was queued before it was written.
THEOREM BitfieldComesFirst == Spec => []BitfieldFirst
<1>1. Inv => BitfieldFirst
  BY DEF Inv
<1> QED BY <1>1, InvHolds, PTL

\* A live peer is told of every piece we have, but for the exceptions of the code,
\* however the completion of pieces and the start of the writer interleave.
THEOREM EveryPieceAnnounced == Spec => []PieceAnnounced
<1>1. Inv => PieceAnnounced
  BY DEF Inv
<1> QED BY <1>1, InvHolds, PTL

\* However the bytes of a peer are cut into reads, and whatever its messages are, the
\* handler gets them whole and in order, the buffer keeps the rest, and there is room
\* for what is missing (ReadBuf::read_message, prepare_for_read, Message::deserialize).
THEOREM MessagesReadWhole == Spec => []ReadsSound
<1>1. Spec => [](ReadInv /\ OtherTypes)
  <2>1. Init => ReadInv /\ OtherTypes
    BY ReadInit, OtherInit
  <2>2. Inv /\ ReadInv /\ OtherTypes /\ [Next]_vars => ReadInv' /\ OtherTypes'
    BY ReadNext
  <2> QED BY <2>1, <2>2, InvHolds, PTL DEF Spec
<1> QED BY <1>1, InvHolds, ReadInvIsSound, PTL
=============================================================================
