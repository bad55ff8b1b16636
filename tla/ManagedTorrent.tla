--------------------------- MODULE ManagedTorrent ---------------------------
(***************************************************************************)
(* The life of one torrent (crates/librqbit/src/torrent_state/mod.rs,      *)
(* initializing.rs, paused.rs): it is checked, then paused or live, and an *)
(* error ends either.  start() may be called at any time by the user; each *)
(* call on a torrent that is initializing spawns one more task that checks *)
(* the files and moves the state when it is done.                          *)
(*                                                                         *)
(* A live state is a number, given when it is made.  It owns a token that  *)
(* stops its tasks, and a receiver task that stops the torrent when the    *)
(* live state reports a fatal error.  The receiver selects between the     *)
(* token and the error at random when both are there.                      *)
(***************************************************************************)
EXTENDS Naturals, FiniteSets

CONSTANTS
    Overwrite,      \* ManagedTorrentOptions.overwrite
    FilesExist,     \* the files are there when the torrent is added
    CheckFails,     \* TRUE: opening or checking the files may fail
    MaxStarts,      \* bound: calls of start(), the first one included
    MaxErrors       \* bound: fatal errors

ASSUME ManagedAssumption ==
    /\ {Overwrite, FilesExist, CheckFails} \subseteq BOOLEAN
    /\ MaxStarts \in Nat \ {0}
    /\ MaxErrors \in Nat

Calls == 1..MaxStarts       \* calls of start()
Lives == Calls              \* a call makes at most one live state

VARIABLES
    state,          \* ManagedTorrentState
    current,        \* the live state in it, or 0
    init,           \* per call, the task "initialize_and_start"
    restarting,     \* calls that left Error and are about to recurse
    token,          \* the live states whose token is not cancelled
    fatal,          \* live states whose fatal error was sent
    receiver,       \* live states whose receiver task has not ended
    files,          \* the files exist
    calls,          \* calls of start() so far
    errors,         \* fatal errors so far
    asked           \* what the last call that was not refused asked for: a
                    \* start() asks again when it recurses; the option "paused"
                    \* counts only if no call came before

vars == <<state, current, init, restarting, token, fatal, receiver, files,
          calls, errors, asked>>

InitTasks == {"none", "open", "check", "done", "failed"}
NoTask == [st |-> "none", start_paused |-> FALSE]

Init ==
    /\ state = "initializing"
    /\ current = 0
    /\ init = [c \in Calls |-> NoTask]
    /\ restarting = {}
    /\ token = {} /\ fatal = {} /\ receiver = {}
    /\ files = FilesExist
    /\ calls = 0 /\ errors = 0
    /\ asked = "nothing"

-----------------------------------------------------------------------------
(* start() *)

\* TorrentStateLive::new for call c, with its receiver.
NewLive(c) ==
    /\ state' = "live"
    /\ current' = c
    /\ token' = token \cup {c}
    /\ receiver' = receiver \cup {c}

\* Mutant: the torrent that was in error is left to itself: nothing recurses.
StartArm_no_recursion(c, start_paused) ==
    \/ /\ state = "initializing"
       /\ init' = [init EXCEPT ![c] = [st |-> "open", start_paused |-> start_paused]]
       /\ asked' = IF ~start_paused THEN "live" ELSE IF c = 1 THEN "paused" ELSE asked
       /\ UNCHANGED <<state, current, restarting, token, receiver>>
    \/ /\ state = "paused"
       /\ NewLive(c)
       /\ asked' = "live"
       /\ UNCHANGED <<init, restarting>>
    \/ /\ state = "error"
       /\ state' = "initializing"
       /\ asked' = "live"
       /\ UNCHANGED <<current, init, restarting, token, receiver>>

\* One arm per state.  start_paused is looked at by the init task only.
StartArm(c, start_paused) ==
    \/ /\ state = "initializing"
       /\ init' = [init EXCEPT ![c] = [st |-> "open", start_paused |-> start_paused]]
       /\ asked' = IF ~start_paused THEN "live" ELSE IF c = 1 THEN "paused" ELSE asked
       /\ UNCHANGED <<state, current, restarting, token, receiver>>
    \/ /\ state = "paused"
       /\ NewLive(c)
       /\ asked' = "live"
       /\ UNCHANGED <<init, restarting>>
    \/ /\ state = "error"
       /\ state' = "initializing"
       /\ restarting' = restarting \cup {c}
       /\ asked' = "live"
       /\ UNCHANGED <<current, init, token, receiver>>

\* Session::add_torrent calls it once, with the option "paused"; Session::unpause at
\* any time, even before: the torrent is in the database by then, and the user's
\* word is later than the option.  A torrent that is live refuses.
start(start_paused) ==
    /\ calls < MaxStarts
    /\ start_paused => \A c \in Calls : ~init[c].start_paused
    /\ calls' = calls + 1
    /\ StartArm(calls + 1, start_paused)
    /\ UNCHANGED <<fatal, files, errors>>

\* "Recurse": the lock was released in between.
start_again(c) ==
    /\ c \in restarting
    /\ IF state = "live"
         THEN /\ restarting' = restarting \ {c}
              /\ UNCHANGED <<state, current, init, token, receiver, asked>>
         ELSE \/ /\ state # "error"
                 /\ restarting' = restarting \ {c}
                 /\ \/ /\ state = "initializing"
                       /\ init' = [init EXCEPT ![c] =
                                     [st |-> "open", start_paused |-> FALSE]]
                       /\ UNCHANGED <<state, current, token, receiver>>
                    \/ /\ state = "paused"
                       /\ NewLive(c)
                       /\ UNCHANGED init
                 /\ asked' = "live"
              \/ /\ state = "error"
                 /\ state' = "initializing"
                 /\ asked' = "live"
                 /\ UNCHANGED <<current, init, restarting, token, receiver>>
    /\ UNCHANGED <<fatal, files, calls, errors>>

-----------------------------------------------------------------------------
(* TorrentStateInitializing::check and what follows it *)

InitAt(c, st) == init[c].st = st
InitTo(c, st) == init' = [init EXCEPT ![c].st = st]

\* Without overwrite the files are created, which fails if they exist.
OpenSucceeds == Overwrite \/ ~files

open_files(c) ==
    /\ InitAt(c, "open")
    /\ OpenSucceeds
    /\ files' = TRUE
    /\ InitTo(c, "check")
    /\ UNCHANGED <<state, current, restarting, token, fatal, receiver, calls,
                   errors, asked>>

check_ok(c) ==
    /\ InitAt(c, "check")
    /\ InitTo(c, "done")
    /\ \/ /\ state # "initializing"
          /\ UNCHANGED <<state, current, token, receiver>>
       \/ /\ state = "initializing"
          /\ init[c].start_paused
          /\ state' = "paused"
          /\ UNCHANGED <<current, token, receiver>>
       \/ /\ state = "initializing"
          /\ ~init[c].start_paused
          /\ NewLive(c)
    /\ UNCHANGED <<restarting, fatal, files, calls, errors, asked>>

\* The error replaces the state, whatever it is by now.
check_err(c) ==
    /\ \/ InitAt(c, "open") /\ (~OpenSucceeds \/ CheckFails)
       \/ InitAt(c, "check") /\ CheckFails
    /\ InitTo(c, "failed")
    /\ state' = "error"
    /\ current' = 0
    /\ UNCHANGED <<restarting, token, fatal, receiver, files, calls, errors, asked>>

-----------------------------------------------------------------------------
(* Pausing and errors *)

\* Mutant: the token of the live state is not cancelled.
pause_not_cancelled ==
    /\ state = "live"
    /\ state' = "paused"
    /\ current' = 0
    /\ asked' = "paused"
    /\ UNCHANGED <<init, restarting, token, fatal, receiver, files, calls, errors>>

pause ==
    /\ state = "live"
    /\ state' = "paused"
    /\ token' = token \ {current}
    /\ current' = 0
    /\ asked' = "paused"
    /\ UNCHANGED <<init, restarting, fatal, receiver, files, calls, errors>>

\* on_fatal_error of live state l: a write failed.  After a pause the writes that
\* are under way fail too, on the dummy files.
on_fatal_error(l) ==
    /\ l \in receiver \ fatal
    /\ errors < MaxErrors
    /\ errors' = errors + 1
    /\ fatal' = fatal \cup {l}
    /\ UNCHANGED <<state, current, init, restarting, token, receiver, files, calls,
                   asked>>

\* Mutant: the torrent could not be upgraded, the error is lost.
stop_with_error_lost(l) ==
    /\ l \in receiver \cap fatal
    /\ receiver' = receiver \ {l}
    /\ UNCHANGED <<state, current, init, restarting, token, fatal, files, calls,
                   errors, asked>>

\* The receiver of l got its error: stop_with_error.
stop_with_error(l) ==
    /\ l \in receiver \cap fatal
    /\ receiver' = receiver \ {l}
    /\ token' = token \ {current}
    /\ state' = "error"
    /\ current' = 0
    /\ UNCHANGED <<init, restarting, fatal, files, calls, errors, asked>>

\* The receiver of l saw the token.
receiver_cancelled(l) ==
    /\ l \in receiver \ token
    /\ receiver' = receiver \ {l}
    /\ UNCHANGED <<state, current, init, restarting, token, fatal, files, calls,
                   errors, asked>>

-----------------------------------------------------------------------------

InitStep(c) == open_files(c) \/ check_ok(c) \/ check_err(c) \/ start_again(c)

ReceiverStep(l) == stop_with_error(l) \/ receiver_cancelled(l)

Next ==
    \/ \E p \in BOOLEAN : start(p)
    \/ pause
    \/ \E c \in Calls : InitStep(c) \/ on_fatal_error(c) \/ ReceiverStep(c)

Spec == Init /\ [][Next]_vars

\* The runtime runs the tasks that were spawned, and the first start().
Fairness ==
    /\ WF_vars(calls = 0 /\ \E p \in BOOLEAN : start(p))
    /\ \A c \in Calls : WF_vars(InitStep(c)) /\ WF_vars(ReceiverStep(c))

FairSpec == Spec /\ Fairness

-----------------------------------------------------------------------------
(* Properties *)

\* Every variable has the type of its declaration.
TypeOK ==
    /\ state \in {"initializing", "paused", "live", "error"}
    /\ current \in Lives \cup {0}
    /\ init \in [Calls -> [st : InitTasks, start_paused : BOOLEAN]]
    /\ {restarting, token, fatal, receiver} \subseteq SUBSET Calls
    /\ files \in BOOLEAN
    /\ calls \in 0..MaxStarts
    /\ errors \in 0..MaxErrors
    /\ asked \in {"nothing", "paused", "live"}

\* Only the live state the torrent shows is running: its tasks write to the
\* files, so nobody else may.  This holds until a check fails: check_err puts a
\* live state aside without stopping it.
OnlyCurrentRuns ==
    (\A c \in Calls : init[c].st # "failed") =>
        token = IF state = "live" THEN {current} ELSE {}

\* A torrent never runs against the user's last word: neither a check that ends
\* late nor a start() that recurses late makes a torrent live that was paused
\* after the last call of start() took effect.
PausedStaysPaused == state = "live" => asked = "live"

\* Initialization ends, however many calls and errors race with it.
InitializationEnds == state = "initializing" ~> state # "initializing"

\* A fatal error of the live state on show is not forgotten: the torrent goes to
\* the error state, or was stopped before.
FatalErrorStops ==
    \A l \in Lives : (l \in fatal /\ current = l) ~> current # l

\* A torrent that shows a live state is live, and a call that was not made, or is
\* about to recurse, has no task.
ShowsItsState ==
    /\ current # 0 <=> state = "live"
    /\ \A c \in restarting : c <= calls
    /\ \A c \in Calls : c > calls \/ c \in restarting => init[c] = NoTask

\* While the user's last word is not to run, a torrent that is being checked has
\* nothing but the task of a first call that asked for a pause.
ChecksAsAsked ==
    state = "initializing" /\ asked # "live" =>
        /\ calls <= 1
        /\ calls = 1 => init[1].start_paused

\* What runs is what the torrent shows, and never against the user's last word,
\* however calls of start() and pause(), checks and errors overlap.
RunsAsAsked ==
    TypeOK /\ ShowsItsState /\ OnlyCurrentRuns /\ PausedStaysPaused /\ ChecksAsAsked
=============================================================================
