----------------------------- MODULE PieceStore -----------------------------
(***************************************************************************)
(* What the download of a torrent promises to the rest of the client: the  *)
(* set of pieces we have.  Peers, requests, locks and files are hidden.    *)
(* TorrentLive implements this specification.                              *)
(***************************************************************************)
CONSTANTS
    AllPieces,      \* the pieces of the torrent
    ToDownload      \* the pieces of the selected files

VARIABLES
    state,          \* "live", "paused" or "error"
    pieces,         \* the pieces we have
    missing         \* the pieces the current live state counts down

storeVars == <<state, pieces, missing>>

StoreInit ==
    /\ state = "live"
    /\ pieces \subseteq AllPieces
    /\ missing = ToDownload \ pieces

\* One piece at a time becomes ours, and only one that is missing.
Complete(p) ==
    /\ state = "live"
    /\ p \in missing \ pieces
    /\ pieces' = pieces \cup {p}
    /\ UNCHANGED <<state, missing>>

\* Pausing keeps the pieces; the next live state asks for nothing that this one
\* was not asked for.
Pause ==
    /\ state = "live"
    /\ state' = "paused"
    /\ missing' \subseteq missing
    /\ UNCHANGED pieces

Resume ==
    /\ state = "paused"
    /\ state' = "live"
    /\ UNCHANGED <<pieces, missing>>

Fail ==
    /\ state = "live"
    /\ state' = "error"
    /\ UNCHANGED <<pieces, missing>>

\* After an error the files are checked again.
Recheck ==
    /\ state = "error"
    /\ state' = "live"
    /\ pieces' \subseteq AllPieces
    /\ missing' = ToDownload \ pieces'

StoreNext ==
    \/ \E p \in AllPieces : Complete(p)
    \/ Pause \/ Resume \/ Fail \/ Recheck

StoreSpec == StoreInit /\ [][StoreNext]_storeVars
=============================================================================
