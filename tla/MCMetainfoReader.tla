-------------------------- MODULE MCMetainfoReader --------------------------
(* An info of a full and a short piece, one permit for three peers. *)
EXTENDS MetainfoReader

CONSTANTS a, b, c
MCInitial == <<a>>
=============================================================================
