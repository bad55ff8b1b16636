---------------------------- MODULE MCDhtLookup ----------------------------
(***************************************************************************)
(* Three nodes, two of them behind one address, in answers of one or two;  *)
(* three transaction ids.                                                  *)
(***************************************************************************)
EXTENDS DhtLookup, TLC

MCAddrOf == 1 :> 1 @@ 2 :> 2 @@ 3 :> 1
MCHostAddrs == <<1, 2>>
MCRoots == <<2>>
MCAnswers == {<<1>>, <<3, 2>>}
=============================================================================
