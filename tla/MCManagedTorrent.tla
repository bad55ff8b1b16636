-------------------------- MODULE MCManagedTorrent --------------------------
(***************************************************************************)
(* One torrent, a few calls of start() and a few fatal errors.             *)
(***************************************************************************)
EXTENDS ManagedTorrent
=============================================================================
