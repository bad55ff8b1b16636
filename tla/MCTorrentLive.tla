--------------------------- MODULE MCTorrentLive ---------------------------
(***************************************************************************)
(* Two peers that have the whole torrent, two pieces: the first has two    *)
(* chunks, the second, the shorter last piece, has one.                    *)
(***************************************************************************)
EXTENDS TorrentLive, TLC

MCNChunks == 0 :> 2 @@ 1 :> 1
MCPieceLen == 0 :> 2 @@ 1 :> 1
MCRemotePieces == [a \in Peers |-> Pieces]
MCSelected == Pieces
\* The first piece begins in a file that is not selected.
MCUnsized == {<<0, 0>>}

Symmetry == Permutations(Peers)
=============================================================================
