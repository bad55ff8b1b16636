------------------------------ MODULE Session ------------------------------
(***************************************************************************)
(* The session: the torrents by id, and the file that remembers them over  *)
(* restarts (crates/librqbit/src/session.rs).                              *)
(*                                                                         *)
(* A task restores the torrents of the file, then writes the file every    *)
(* ten seconds.  Users call the API from the first moment on, stop() may   *)
(* come at any time, and the process may be killed at any time.            *)
(*                                                                         *)
(* A torrent is its info hash.  Opening and checking its files is one step *)
(* here; the races of several start() calls are in ManagedTorrent.         *)
(***************************************************************************)
EXTENDS Naturals, FiniteSets

CONSTANTS
    Torrents,       \* info hashes
    Foreign,        \* the torrents whose files exist before they are added
    Options,        \* the options users add with: paused, overwrite
    Deletes,        \* FALSE: users forget torrents; TRUE: and their files
    MaxAdds,        \* bound: torrents added by users
    MaxBoots,       \* bound: sessions started on the same file
    MaxFaults       \* bound: dumps that fail, or that a full disk cuts short

ASSUME SessionAssumption ==
    /\ Foreign \subseteq Torrents
    /\ Options \subseteq [paused : BOOLEAN, overwrite : BOOLEAN]
    /\ Deletes \subseteq BOOLEAN
    /\ {MaxAdds, MaxBoots, MaxFaults} \subseteq Nat

VARIABLES
    process,        \* the session: down, running, stopping or stopped
    persistence,    \* task_persistence: none, populating or dumping
    torrents,       \* SessionDatabase.torrents
    next_id,        \* SessionDatabase.next_id
    file,           \* the persistence file
    dump,           \* what dump_to_disk serialized and has not yet renamed
    todo,           \* what populate_from_stored read and has still to add
    to_pause,       \* ids that stop() has still to pause
    files,          \* torrents whose files are on the disk
    orphans         \* init tasks of torrents deleted while initializing

\* History: what the users asked for.
VARIABLES
    promised,       \* torrents that were stored and not deleted since
    protected,      \* torrents added without overwrite on top of files, when no
                    \* task of an earlier add that asked to overwrite them is left
    clobbered       \* protected torrents whose files were opened for writing

VARIABLES adds, boots, faults

dbVars == <<torrents, next_id>>
fileVars == <<file, dump>>
taskVars == <<process, persistence, todo, to_pause>>
diskVars == <<files, orphans>>
historyVars == <<promised, protected, clobbered>>
boundVars == <<adds, boots, faults>>
vars == <<dbVars, fileVars, taskVars, diskVars, historyVars, boundVars>>

Managed == [hash : Torrents, state : {"initializing", "paused", "live", "error"},
            start_paused : BOOLEAN, overwrite : BOOLEAN]
Stored == [hash : Torrents, is_paused : BOOLEAN]      \* SerializedTorrent

NoEntries == [i \in {} |-> {}]
Nothing == [is |-> "absent", torrents |-> NoEntries]

Hashes(entries) == {entries[i].hash : i \in DOMAIN entries}

Insert(entries, id, e) ==
    [i \in DOMAIN entries \cup {id} |-> IF i = id THEN e ELSE entries[i]]
Remove(entries, id) == [i \in DOMAIN entries \ {id} |-> entries[i]]

\* Users reach the session from its first moment to its last.
Up == process \in {"running", "stopping"}

Init ==
    /\ process = "down" /\ persistence = "none"
    /\ torrents = NoEntries /\ next_id = 0
    /\ file = Nothing /\ dump = Nothing
    /\ todo = NoEntries /\ to_pause = {}
    /\ files = Foreign /\ orphans = {}
    /\ promised = {} /\ protected = {} /\ clobbered = {}
    /\ adds = 0 /\ boots = 0 /\ faults = 0

-----------------------------------------------------------------------------
(* Adding *)

\* Mutant: the preferred id is taken without looking whether it is free.
db_add_torrent_preferred(e, preferred) ==
    \E id \in (IF preferred = {} THEN {next_id} ELSE preferred) :
        /\ torrents' = Insert(torrents, id, e)
        /\ next_id' = (IF id > next_id THEN id ELSE next_id) + 1

\* SessionDatabase::add_torrent; preferred has one id or none.
db_add_torrent(e, preferred) ==
    \E id \in (IF preferred \subseteq DOMAIN torrents THEN {next_id} ELSE preferred) :
        /\ torrents' = Insert(torrents, id, e)
        /\ next_id' = (IF id > next_id THEN id ELSE next_id) + 1

\* Mutant: the torrent is not looked up first.
main_torrent_info_unchecked(h, paused, overwrite, preferred) ==
    db_add_torrent([hash |-> h, state |-> "initializing", start_paused |-> paused,
                    overwrite |-> overwrite], preferred)

\* Mutant: overwriting is the default.
main_torrent_info_overwrites(h, paused, overwrite, preferred) ==
    IF h \in Hashes(torrents)
      THEN UNCHANGED dbVars
      ELSE db_add_torrent([hash |-> h, state |-> "initializing",
                           start_paused |-> paused, overwrite |-> TRUE],
                          preferred)

\* main_torrent_info: AlreadyManaged, or a new torrent, whose start() spawns the
\* task that opens and checks its files.
main_torrent_info(h, paused, overwrite, preferred) ==
    IF h \in Hashes(torrents)
      THEN UNCHANGED dbVars
      ELSE db_add_torrent([hash |-> h, state |-> "initializing",
                           start_paused |-> paused, overwrite |-> overwrite],
                          preferred)

\* A user adds a torrent.
add_torrent(h, paused, overwrite) ==
    /\ Up
    /\ adds < MaxAdds
    /\ adds' = adds + 1
    /\ main_torrent_info(h, paused, overwrite, {})
    /\ protected' =
          IF h \in Hashes(torrents) THEN protected
          ELSE IF /\ ~overwrite /\ h \in files
                  /\ [hash |-> h, overwrite |-> TRUE] \notin orphans
                 THEN protected \cup {h}
          ELSE protected \ {h}
    /\ UNCHANGED <<fileVars, taskVars, diskVars, promised, clobbered, boots, faults>>

-----------------------------------------------------------------------------
(* The task "initialize_and_start" *)

\* TorrentStateInitializing::check opens the files for writing, and creates them.
Opens(h, overwrite) ==
    /\ overwrite \/ h \notin files
    /\ files' = files \cup {h}
    /\ clobbered' = IF h \in files \cap protected THEN clobbered \cup {h} ELSE clobbered

check_ok(i) ==
    /\ Up
    /\ torrents[i].state = "initializing"
    /\ Opens(torrents[i].hash, torrents[i].overwrite)
    /\ torrents' = [torrents EXCEPT ![i].state =
                        IF torrents[i].start_paused THEN "paused" ELSE "live"]
    /\ UNCHANGED <<next_id, fileVars, taskVars, orphans, promised, protected,
                   boundVars>>

check_err(i) ==
    /\ Up
    /\ torrents[i].state = "initializing"
    /\ ~torrents[i].overwrite
    /\ torrents[i].hash \in files
    /\ torrents' = [torrents EXCEPT ![i].state = "error"]
    /\ UNCHANGED <<next_id, fileVars, taskVars, diskVars, historyVars, boundVars>>

\* The same task of a torrent that was deleted: it does not find it initializing,
\* after it opened the files.
orphan_check(o) ==
    /\ Up
    /\ orphans' = orphans \ {o}
    /\ IF o.overwrite \/ o.hash \notin files
         THEN Opens(o.hash, o.overwrite)
         ELSE UNCHANGED <<files, clobbered>>
    /\ UNCHANGED <<dbVars, fileVars, taskVars, promised, protected, boundVars>>

-----------------------------------------------------------------------------
(* Pausing, resuming and deleting *)

pause(i) ==
    /\ Up
    /\ torrents[i].state = "live"
    /\ torrents' = [torrents EXCEPT ![i].state = "paused"]
    /\ UNCHANGED <<next_id, fileVars, taskVars, diskVars, historyVars,
                   boundVars>>

\* A torrent in error is initialized again.
unpause(i) ==
    /\ Up
    /\ \/ /\ torrents[i].state = "paused"
          /\ torrents' = [torrents EXCEPT ![i].state = "live"]
       \/ /\ torrents[i].state = "error"
          /\ torrents' = [torrents EXCEPT ![i].state = "initializing",
                                          ![i].start_paused = FALSE]
    /\ UNCHANGED <<next_id, fileVars, taskVars, diskVars, historyVars,
                   boundVars>>

\* Only a torrent that is paused or live knows the names of its files.
delete(i, delete_files) ==
    /\ Up
    /\ torrents' = Remove(torrents, i)
    /\ LET t == torrents[i]
           deletes == delete_files /\ t.state \in {"paused", "live"}
       IN /\ files' = IF deletes THEN files \ {t.hash} ELSE files
          /\ orphans' = IF t.state = "initializing"
                          THEN orphans \cup {[hash |-> t.hash, overwrite |-> t.overwrite]}
                          ELSE orphans
          /\ promised' = promised \ {t.hash}
    /\ UNCHANGED <<next_id, fileVars, taskVars, protected, clobbered, boundVars>>

-----------------------------------------------------------------------------
(* task_persistence *)

\* populate_from_stored adds one torrent of the file.
populate_from_stored(i) ==
    /\ persistence = "populating"
    /\ todo' = Remove(todo, i)
    /\ main_torrent_info(todo[i].hash, todo[i].is_paused, TRUE, {i})
    /\ UNCHANGED <<fileVars, process, persistence, to_pause, diskVars, historyVars, boundVars>>

\* Mutant: the task ends if the file cannot be read.
populated_or_failed ==
    /\ persistence = "populating"
    /\ todo = NoEntries
    /\ file.is # "corrupt"
    /\ persistence' = "dumping"
    /\ UNCHANGED <<dbVars, fileVars, process, todo, to_pause, diskVars, historyVars,
                   boundVars>>

\* All of them were added; a file that cannot be read is only logged.
populated ==
    /\ persistence = "populating"
    /\ todo = NoEntries
    /\ persistence' = "dumping"
    /\ UNCHANGED <<dbVars, fileVars, process, todo, to_pause, diskVars, historyVars,
                   boundVars>>

serialize ==
    [i \in DOMAIN torrents |->
        [hash |-> torrents[i].hash, is_paused |-> torrents[i].state = "paused"]]

\* Mutant: dumps start before the torrents are restored.
dump_at_once ==
    /\ persistence # "none"
    /\ dump = Nothing
    /\ dump' = [is |-> "valid", torrents |-> serialize]
    /\ UNCHANGED <<dbVars, file, taskVars, diskVars, historyVars, boundVars>>

\* dump_to_disk serializes under the lock and writes to a temporary file.
dump_to_disk ==
    /\ persistence = "dumping"
    /\ dump = Nothing
    /\ dump' = [is |-> "valid", torrents |-> serialize]
    /\ UNCHANGED <<dbVars, file, taskVars, diskVars, historyVars, boundVars>>

\* The temporary file is renamed.  An error before that leaves the old file; what is
\* left in the buffered writer is written when it is dropped, and an error of that
\* write is not seen.
dump_rename ==
    /\ dump # Nothing
    /\ dump' = Nothing
    /\ \/ /\ file' = dump
          /\ promised' = promised \cup (Hashes(dump.torrents) \cap Hashes(torrents))
          /\ UNCHANGED faults
       \/ /\ faults < MaxFaults
          /\ faults' = faults + 1
          /\ file' \in {file, [is |-> "corrupt", torrents |-> NoEntries]}
          /\ UNCHANGED promised
    /\ UNCHANGED <<dbVars, taskVars, diskVars, protected, clobbered, adds, boots>>

-----------------------------------------------------------------------------
(* Sessions *)

\* Session::new_with_opts, with persistence.
new_with_opts ==
    /\ process \in {"down", "stopped"}
    /\ dump = Nothing
    /\ boots < MaxBoots
    /\ boots' = boots + 1
    /\ process' = "running" /\ persistence' = "populating"
    /\ torrents' = NoEntries /\ next_id' = 0
    /\ todo' = file.torrents
    /\ UNCHANGED <<fileVars, to_pause, diskVars, historyVars, adds, faults>>

\* stop() takes the list of the torrents, ...
stop ==
    /\ process = "running"
    /\ process' = "stopping"
    /\ to_pause' = DOMAIN torrents
    /\ UNCHANGED <<dbVars, fileVars, persistence, todo, diskVars, historyVars, boundVars>>

\* ... pauses them one by one, ...
stop_pause(i) ==
    /\ i \in to_pause
    /\ to_pause' = to_pause \ {i}
    /\ torrents' = IF i \in DOMAIN torrents /\ torrents[i].state = "live"
                     THEN [torrents EXCEPT ![i].state = "paused"]
                     ELSE torrents
    /\ UNCHANGED <<next_id, fileVars, process, persistence, todo, diskVars, historyVars,
                   boundVars>>

\* ... and cancels every task.
stop_cancel ==
    /\ process = "stopping"
    /\ to_pause = {}
    /\ process' = "stopped" /\ persistence' = "none"
    /\ todo' = NoEntries
    /\ orphans' = {}
    /\ UNCHANGED <<dbVars, fileVars, to_pause, files, historyVars, boundVars>>

\* The process is killed.
crash ==
    /\ process # "down"
    /\ process' = "down" /\ persistence' = "none"
    /\ dump' = Nothing
    /\ todo' = NoEntries /\ to_pause' = {}
    /\ torrents' = NoEntries /\ next_id' = 0
    /\ orphans' = {}
    /\ UNCHANGED <<file, files, historyVars, boundVars>>

-----------------------------------------------------------------------------

User ==
    \/ \E h \in Torrents, o \in Options : add_torrent(h, o.paused, o.overwrite)
    \/ \E i \in DOMAIN torrents : \/ pause(i)
                                  \/ unpause(i)
                                  \/ \E b \in Deletes : delete(i, b)
    \/ stop

InitTask ==
    \/ \E i \in DOMAIN torrents : check_ok(i) \/ check_err(i)
    \/ \E o \in orphans : orphan_check(o)

Persistence ==
    \/ \E i \in DOMAIN todo : populate_from_stored(i)
    \/ populated
    \/ dump_to_disk
    \/ dump_rename

Next ==
    \/ User
    \/ InitTask
    \/ Persistence
    \/ new_with_opts
    \/ \E i \in to_pause : stop_pause(i)
    \/ stop_cancel
    \/ crash

Spec == Init /\ [][Next]_vars

\* The runtime runs the persistence task.  Kills, stops and users are free.
FairSpec == Spec /\ WF_vars(Persistence)

-----------------------------------------------------------------------------
(* Properties *)

\* Every variable has the type of its declaration.
TypeOK ==
    /\ process \in {"down", "running", "stopping", "stopped"}
    /\ persistence \in {"none", "populating", "dumping"}
    /\ DOMAIN torrents \subseteq Nat
    /\ \A i \in DOMAIN torrents : torrents[i] \in Managed
    /\ next_id \in Nat
    /\ \A f \in {file, dump} :
          /\ f.is \in {"absent", "valid", "corrupt"}
          /\ DOMAIN f.torrents \subseteq Nat
          /\ \A i \in DOMAIN f.torrents : f.torrents[i] \in Stored
    /\ DOMAIN todo \subseteq Nat
    /\ \A i \in DOMAIN todo : todo[i] \in Stored
    /\ to_pause \subseteq Nat
    /\ orphans \subseteq [hash : Torrents, overwrite : BOOLEAN]
    /\ {files, promised, protected, clobbered} \subseteq SUBSET Torrents
    /\ {adds, boots, faults} \subseteq Nat

\* Ids that come from the file, and ids given to users meanwhile, never meet: an
\* insertion replaces no torrent of the session.
NeverReplaced ==
    [][\A i \in DOMAIN torrents \cap DOMAIN torrents' :
          torrents[i].hash = torrents'[i].hash]_torrents

\* However restoring and adding interleave, a torrent has one id.
OneIdPerTorrent ==
    \A i, j \in DOMAIN torrents : torrents[i].hash = torrents[j].hash => i = j

\* A torrent that was stored once, and not deleted since, is in the file, and in
\* the session as soon as that has read the file, whenever the process is killed,
\* as long as no dump fails or is cut short: neither a dump under way nor a
\* torrent that is still to be restored lets go of it.
StoredIsKept ==
    faults = 0 =>
        /\ promised \subseteq Hashes(file.torrents)
        /\ dump # Nothing => promised \subseteq Hashes(dump.torrents)
        /\ persistence = "populating" => promised \subseteq Hashes(torrents) \cup Hashes(todo)
        /\ persistence = "dumping" => promised \subseteq Hashes(torrents)

\* A torrent of the session gets into the file, if it is not deleted and the
\* session goes on, also after a dump that failed or a file that was broken.
AddedIsStored ==
    \A h \in Torrents :
        (Up /\ h \in Hashes(torrents)) ~>
            (h \in Hashes(file.torrents) \/ h \notin Hashes(torrents) \/ ~Up)

\* session.rs on overwrite: "Allow writing on top of existing files, including when
\* resuming a torrent. You probably want to set it, however for safety it's not
\* default."  The session that refuses a torrent because its files exist does not
\* write to them, whatever is deleted and added again meanwhile: no task of the
\* first session may overwrite them.  A later session does: it restores every
\* torrent with overwrite.
ClobbersOnlyRestored ==
    boots <= 1 =>
        /\ clobbered = {}
        /\ \A i \in DOMAIN torrents : torrents[i].overwrite => torrents[i].hash \notin protected
        /\ \A o \in orphans : o.overwrite => o.hash \notin protected
        /\ DOMAIN todo = {}

\* Nothing is dumped while a session restores, nor stored before the first one.
DumpsAfterRestore ==
    /\ persistence = "populating" => dump = Nothing
    /\ boots = 0 => process = "down" /\ persistence = "none" /\ file = Nothing /\ dump = Nothing

\* The database is well-formed and has a torrent under one id, below the next one
\* that will be given; the file is written only by a session that has read it.
IdsSound ==
    /\ TypeOK
    /\ OneIdPerTorrent
    /\ \A i \in DOMAIN torrents : i < next_id
    /\ DumpsAfterRestore
=============================================================================
