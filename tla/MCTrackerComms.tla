--------------------------- MODULE MCTrackerComms ---------------------------
(* The longer answer does not fit into the channel. *)
EXTENDS TrackerComms

CONSTANTS u1, u2, h1
MCAnswers == {<<>>, <<"p", "q">>}
MCSets == {{u1, u2}, {u1, h1}}
=============================================================================
