------------------------------ MODULE MCSession ------------------------------
(***************************************************************************)
(* Two torrents, the files of one of them there before it is added, and    *)
(* three sessions on the same file.                                        *)
(***************************************************************************)
EXTENDS Session

EitherOptions == [paused : {FALSE}, overwrite : BOOLEAN]
=============================================================================
