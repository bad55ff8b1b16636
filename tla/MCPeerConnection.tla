-------------------------- MODULE MCPeerConnection --------------------------
(* Two integers' worth of bytes are enough to cut a message anywhere; a piece *)
(* message is longer than the initial buffer. *)
EXTENDS PeerConnection

MCPayload == [interested |-> 0, have |-> 1, bitfield |-> 1, request |-> 2, piece |-> 5, unsupported |-> 0]
Msg(k) == [kind |-> k]
MCStreams ==
    {<<Msg("interested"), [kind |-> "have", pieces |-> {1}],
       [kind |-> "bitfield", pieces |-> {2}]>>,
     <<Msg("piece"), Msg("interested"), [kind |-> "request", piece |-> 1]>>,
     <<Msg("keepalive"), Msg("unsupported"), Msg("interested")>>}
=============================================================================
