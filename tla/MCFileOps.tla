------------------------------ MODULE MCFileOps ------------------------------
(***************************************************************************)
(* Torrents of up to three small files, cut into small pieces.             *)
(***************************************************************************)
EXTENDS FileOps
=============================================================================
