---------------------------- MODULE SessionProofs ----------------------------
(***************************************************************************)
(* Session, for every set of torrents, every option and every number of    *)
(* sessions: ids never meet, what was stored is kept, and only a later     *)
(* session writes on top of files that were refused.                       *)
(***************************************************************************)
EXTENDS Session, TLAPS

Inv == IdsSound /\ StoredIsKept /\ ClobbersOnlyRestored

-----------------------------------------------------------------------------
(* The operations on the tables of torrents *)

\* Removing an id leaves every other torrent.
LEMMA RemoveFacts ==
    ASSUME NEW t, NEW id \in DOMAIN t
    PROVE  LET u == Remove(t, id) IN
           /\ DOMAIN u = DOMAIN t \ {id}
           /\ \A i \in DOMAIN u : u[i] = t[i]
           /\ Hashes(t) \subseteq Hashes(u) \cup {t[id].hash}
BY DEF Remove, Hashes

\* The empty tables.
LEMMA EmptyFacts ==
    /\ DOMAIN NoEntries = {}
    /\ Hashes(NoEntries) = {}
    /\ Nothing.is = "absent" /\ Nothing.torrents = NoEntries
BY DEF NoEntries, Hashes, Nothing

\* What a torrent is stored as has its hash.
LEMMA SerializeFacts ==
    ASSUME TypeOK
    PROVE  /\ DOMAIN serialize = DOMAIN torrents
           /\ \A i \in DOMAIN torrents : serialize[i] \in Stored
           /\ Hashes(serialize) = Hashes(torrents)
<1>1. /\ DOMAIN serialize = DOMAIN torrents
      /\ \A i \in DOMAIN torrents : serialize[i].hash = torrents[i].hash
      /\ \A i \in DOMAIN torrents : serialize[i] \in Stored
  BY DEF serialize, Stored, TypeOK, Managed
<1> QED BY <1>1 DEF Hashes

\* A step that adds h, unless it is there, with the given option to overwrite.
Adds(h, overwrite) ==
    /\ DOMAIN torrents \subseteq DOMAIN torrents'
    /\ \A i \in DOMAIN torrents : torrents'[i] = torrents[i]
    /\ DOMAIN torrents' \subseteq Nat
    /\ \A i \in DOMAIN torrents' : torrents'[i] \in Managed /\ i < next_id'
    /\ \A i \in DOMAIN torrents' \ DOMAIN torrents :
          /\ torrents'[i].hash = h /\ torrents'[i].overwrite = overwrite
          /\ h \notin Hashes(torrents)
    /\ next_id' \in Nat
    /\ Hashes(torrents') = Hashes(torrents) \cup {h}
    /\ OneIdPerTorrent'

\* Adding a torrent leaves the others alone: main_torrent_info either finds it, or
\* puts it under an id that is free and below the next one.
LEMMA MainFacts ==
    ASSUME Inv, NEW h \in Torrents, NEW p \in BOOLEAN, NEW o \in BOOLEAN,
           NEW pref \in SUBSET Nat,
           pref = {} \/ (\E i \in Nat : pref = {i}),
           main_torrent_info(h, p, o, pref)
    PROVE  Adds(h, o)
<1>0. IdsSound /\ TypeOK
  BY DEF Inv, IdsSound
<1>1. CASE h \in Hashes(torrents)
  BY <1>0, <1>1 DEF main_torrent_info, dbVars, IdsSound, TypeOK, OneIdPerTorrent, Adds
<1>2. CASE h \notin Hashes(torrents)
  <2> DEFINE e == [hash |-> h, state |-> "initializing", start_paused |-> p, overwrite |-> o]
  <2>1. e \in Managed /\ e.hash = h /\ e.overwrite = o
    BY DEF Managed
  <2>2. PICK id \in (IF pref \subseteq DOMAIN torrents THEN {next_id} ELSE pref) :
          /\ torrents' = Insert(torrents, id, e)
          /\ next_id' = (IF id > next_id THEN id ELSE next_id) + 1
    BY <1>2 DEF main_torrent_info, db_add_torrent
  <2> HIDE DEF e
  <2>3. id \in Nat /\ next_id \in Nat
    BY <1>0, <2>2 DEF TypeOK
  <2>4. id \notin DOMAIN torrents
    BY <1>0, <2>2, <2>3 DEF IdsSound
  <2>5. /\ DOMAIN torrents' = DOMAIN torrents \cup {id}
        /\ torrents'[id] = e
        /\ \A i \in DOMAIN torrents : torrents'[i] = torrents[i]
    BY <2>2, <2>4 DEF Insert
  <2>6. next_id' \in Nat /\ id < next_id' /\ next_id < next_id'
    BY <2>2, <2>3
  <2>7. \A i \in DOMAIN torrents : torrents[i].hash # h
    BY <1>2 DEF Hashes
  <2>8. OneIdPerTorrent'
    BY <1>0, <2>1, <2>5, <2>7 DEF IdsSound, OneIdPerTorrent
  <2>9. \A i \in DOMAIN torrents : i < next_id'
    BY <1>0, <2>3, <2>6 DEF IdsSound, TypeOK
  <2>10. Hashes(torrents') = Hashes(torrents) \cup {h}
    BY <2>1, <2>5 DEF Hashes
  <2> QED BY <1>0, <1>2, <2>1, <2>3, <2>5, <2>10, <2>6, <2>8, <2>9 DEF TypeOK, Adds
<1> QED BY <1>1, <1>2

\* A step that only moves states of torrents.
Moves ==
    /\ DOMAIN torrents' = DOMAIN torrents
    /\ \A j \in DOMAIN torrents :
          /\ torrents'[j] \in Managed
          /\ torrents'[j].hash = torrents[j].hash
          /\ torrents'[j].overwrite = torrents[j].overwrite
    /\ next_id' = next_id

\* The state of a torrent is not its hash, nor its id.
LEMMA MovesFacts ==
    ASSUME Inv, Moves
    PROVE  /\ DOMAIN torrents' \subseteq Nat
           /\ \A j \in DOMAIN torrents' : torrents'[j] \in Managed /\ j < next_id'
           /\ next_id' \in Nat
           /\ OneIdPerTorrent'
           /\ Hashes(torrents') = Hashes(torrents)
<1>1. Hashes(torrents') = Hashes(torrents)
  BY DEF Moves, Hashes
<1> QED BY <1>1 DEF Inv, IdsSound, TypeOK, OneIdPerTorrent, Moves

\* The next state of a torrent, as the actions write it.
LEMMA SetStateFacts ==
    ASSUME Inv, NEW i \in DOMAIN torrents,
           NEW st \in {"initializing", "paused", "live", "error"},
           \/ torrents' = [torrents EXCEPT ![i].state = st]
           \/ torrents' = [torrents EXCEPT ![i].state = st, ![i].start_paused = FALSE]
           \/ torrents' = torrents,
           next_id' = next_id
    PROVE  Moves
BY DEF Inv, IdsSound, TypeOK, Managed, Moves

-----------------------------------------------------------------------------
(* One lemma per group of actions *)

\* A session that was never started has stored nothing.
LEMMA InitInv == Init => Inv
BY EmptyFacts, SessionAssumption
   DEF Init, Inv, IdsSound, TypeOK, OneIdPerTorrent, DumpsAfterRestore, StoredIsKept,
       ClobbersOnlyRestored

\* A user adds a torrent.
LEMMA AddKeeps ==
    ASSUME Inv, NEW h \in Torrents, NEW o \in Options,
           add_torrent(h, o.paused, o.overwrite)
    PROVE  Inv'
<1> DEFINE ow == o.overwrite
<1>1. o.paused \in BOOLEAN /\ ow \in BOOLEAN
  BY SessionAssumption
<1>2. main_torrent_info(h, o.paused, ow, {})
  BY DEF add_torrent
<1>3. Adds(h, ow)
  BY <1>1, <1>2, MainFacts
<1>4. OneIdPerTorrent /\ TypeOK /\ DumpsAfterRestore /\ StoredIsKept /\ ClobbersOnlyRestored
  BY DEF Inv, IdsSound
<1>5. /\ UNCHANGED <<fileVars, taskVars, diskVars, promised, clobbered, boots, faults>>
      /\ protected' \in {protected, protected \cup {h}, protected \ {h}}
      /\ boots # 0
  BY <1>4 DEF add_torrent, Up, DumpsAfterRestore
<1>6. TypeOK' /\ DumpsAfterRestore'
  BY <1>3, <1>4, <1>5
     DEF TypeOK, DumpsAfterRestore, Adds, add_torrent, fileVars, taskVars, diskVars
<1>7. StoredIsKept'
  BY <1>3, <1>4, <1>5 DEF StoredIsKept, Adds, fileVars, taskVars
<1>8. ASSUME boots <= 1, NEW i \in DOMAIN torrents', torrents'[i].overwrite
      PROVE  torrents'[i].hash \notin protected'
  <2>1. CASE i \in DOMAIN torrents
    <3>1. torrents[i].hash \in Hashes(torrents) /\ torrents'[i] = torrents[i]
      BY <2>1, <1>3 DEF Hashes, Adds
    <3>2. torrents[i].hash \notin protected
      BY <1>4, <1>8, <2>1, <3>1 DEF ClobbersOnlyRestored
    <3> QED BY <3>1, <3>2 DEF add_torrent
  <2>2. CASE i \notin DOMAIN torrents
    <3>1. torrents'[i].hash = h /\ ow /\ h \notin Hashes(torrents)
      BY <2>2, <1>3, <1>8 DEF Adds
    <3> QED BY <3>1 DEF add_torrent
  <2> QED BY <2>1, <2>2
<1>9. ASSUME boots <= 1, NEW x \in orphans, x.overwrite
      PROVE  x.hash \notin protected'
  <2>1. x.hash \notin protected
    BY <1>4, <1>9 DEF ClobbersOnlyRestored
  <2>2. x.hash = h => x = [hash |-> h, overwrite |-> TRUE]
    BY <1>4, <1>9 DEF TypeOK
  <2> QED BY <2>1, <2>2, <1>9 DEF add_torrent
<1>10. ClobbersOnlyRestored'
  BY <1>4, <1>5, <1>8, <1>9 DEF ClobbersOnlyRestored, taskVars, diskVars
<1> QED BY <1>3, <1>6, <1>7, <1>10 DEF Inv, IdsSound, Adds

\* A step that moves states, and whatever it does to the disk and the list of
\* stop(), keeps the invariant if it clobbers nothing in the first session.
LEMMA MovesKeep ==
    ASSUME Inv, Moves,
           UNCHANGED <<fileVars, process, persistence, todo, orphans, promised,
                       protected, boundVars>>,
           to_pause' \subseteq to_pause,
           files' \in SUBSET Torrents, clobbered' \in SUBSET Torrents,
           boots <= 1 => clobbered' = clobbered
    PROVE  Inv'
<1>1. /\ DOMAIN torrents' \subseteq Nat
      /\ \A j \in DOMAIN torrents' : torrents'[j] \in Managed /\ j < next_id'
      /\ next_id' \in Nat
      /\ OneIdPerTorrent'
      /\ Hashes(torrents') = Hashes(torrents)
  BY MovesFacts
<1>2. TypeOK /\ DumpsAfterRestore /\ StoredIsKept /\ ClobbersOnlyRestored
  BY DEF Inv, IdsSound
<1>3. TypeOK' /\ DumpsAfterRestore'
  BY <1>1, <1>2 DEF TypeOK, DumpsAfterRestore, fileVars, boundVars
<1>4. StoredIsKept'
  BY <1>1, <1>2 DEF StoredIsKept, fileVars, boundVars
<1>5. ClobbersOnlyRestored'
  BY <1>2 DEF ClobbersOnlyRestored, Moves, boundVars
<1> QED BY <1>1, <1>3, <1>4, <1>5 DEF Inv, IdsSound

\* A check that ends well opens the files for writing: of a protected torrent it
\* does so only if they do not exist, in the first session.
LEMMA CheckOkKeeps ==
    ASSUME Inv, NEW i \in DOMAIN torrents, check_ok(i)
    PROVE  Inv'
<1>1. Moves
  BY SetStateFacts DEF check_ok
<1>2. torrents[i].hash \in Torrents /\ TypeOK
  BY DEF Inv, IdsSound, TypeOK, Managed
<1>3. files' \in SUBSET Torrents /\ clobbered' \in SUBSET Torrents
  BY <1>2 DEF check_ok, Opens, TypeOK
<1>4. boots <= 1 => clobbered' = clobbered
  BY DEF check_ok, Opens, Inv, ClobbersOnlyRestored
<1>5. /\ UNCHANGED <<fileVars, process, persistence, todo, orphans, promised,
                     protected, boundVars>>
      /\ to_pause' \subseteq to_pause
  BY DEF check_ok, taskVars
<1> QED BY <1>1, <1>3, <1>4, <1>5, MovesKeep

\* The other steps that only move a state: a failed check, pause, unpause, and
\* the pauses of stop().
LEMMA StateKeeps ==
    ASSUME Inv, NEW i,
           \/ i \in DOMAIN torrents /\ (check_err(i) \/ pause(i) \/ unpause(i))
           \/ stop_pause(i)
    PROVE  Inv'
<1>1. Moves
  <2>1. CASE i \in DOMAIN torrents
    BY <2>1, SetStateFacts DEF check_err, pause, unpause, stop_pause
  <2>2. CASE i \notin DOMAIN torrents
    BY <2>2 DEF stop_pause, Moves, Inv, IdsSound, TypeOK
  <2> QED BY <2>1, <2>2
<1>2. /\ UNCHANGED <<fileVars, process, persistence, todo, orphans, promised,
                     protected, boundVars>>
      /\ UNCHANGED <<files, clobbered>>
      /\ to_pause' \subseteq to_pause
  BY DEF check_err, pause, unpause, stop_pause, taskVars, diskVars, historyVars
<1>3. files' \in SUBSET Torrents /\ clobbered' \in SUBSET Torrents
  BY <1>2 DEF Inv, IdsSound, TypeOK
<1> QED BY <1>1, <1>2, <1>3, MovesKeep

\* The task that a deleted torrent left behind.
LEMMA OrphanKeeps ==
    ASSUME Inv, NEW o \in orphans, orphan_check(o)
    PROVE  Inv'
<1>1. TypeOK /\ DumpsAfterRestore /\ StoredIsKept /\ ClobbersOnlyRestored /\ o.hash \in Torrents
  BY DEF Inv, IdsSound, TypeOK
<1>2. UNCHANGED <<dbVars, fileVars, taskVars, promised, protected, boundVars>>
      /\ orphans' \subseteq orphans
  BY DEF orphan_check
<1>3. files' \in SUBSET Torrents /\ clobbered' \in SUBSET Torrents
  BY <1>1 DEF orphan_check, Opens, TypeOK
<1>4. boots <= 1 => clobbered' = clobbered
  BY <1>1 DEF orphan_check, Opens, ClobbersOnlyRestored
<1>5. TypeOK' /\ DumpsAfterRestore' /\ StoredIsKept'
  BY <1>1, <1>2, <1>3
     DEF TypeOK, DumpsAfterRestore, StoredIsKept, dbVars, fileVars, taskVars, boundVars
<1>6. ClobbersOnlyRestored'
  BY <1>1, <1>2, <1>4 DEF ClobbersOnlyRestored, dbVars, taskVars, boundVars
<1> QED BY <1>2, <1>5, <1>6 DEF Inv, IdsSound, OneIdPerTorrent, dbVars

\* A deleted torrent is no longer promised; its task keeps its option.
LEMMA DeleteKeeps ==
    ASSUME Inv, NEW i \in DOMAIN torrents, NEW b \in Deletes, delete(i, b)
    PROVE  Inv'
<1>1. TypeOK /\ DumpsAfterRestore /\ StoredIsKept /\ ClobbersOnlyRestored
  BY DEF Inv, IdsSound
<1>2. /\ UNCHANGED <<next_id, fileVars, taskVars, protected, clobbered, boundVars>>
      /\ files' \subseteq files
      /\ promised' = promised \ {torrents[i].hash}
      /\ orphans' \subseteq orphans \cup {[hash |-> torrents[i].hash,
                                          overwrite |-> torrents[i].overwrite]}
      /\ torrents' = Remove(torrents, i)
  BY DEF delete
<1>3. /\ DOMAIN torrents' = DOMAIN torrents \ {i}
      /\ \A j \in DOMAIN torrents' : torrents'[j] = torrents[j]
      /\ Hashes(torrents) \subseteq Hashes(torrents') \cup {torrents[i].hash}
  <2>1. LET u == Remove(torrents, i) IN
        /\ DOMAIN u = DOMAIN torrents \ {i}
        /\ \A j \in DOMAIN u : u[j] = torrents[j]
        /\ Hashes(torrents) \subseteq Hashes(u) \cup {torrents[i].hash}
    BY RemoveFacts
  <2> QED BY <2>1, <1>2
<1>4. torrents[i].hash \in Torrents /\ torrents[i].overwrite \in BOOLEAN
  BY <1>1 DEF TypeOK, Managed
<1>5. TypeOK' /\ DumpsAfterRestore'
  BY <1>1, <1>2, <1>3, <1>4 DEF TypeOK, DumpsAfterRestore, fileVars, taskVars, boundVars
<1>6. StoredIsKept'
  BY <1>1, <1>2, <1>3 DEF StoredIsKept, fileVars, taskVars, boundVars
<1>7. ClobbersOnlyRestored'
  BY <1>1, <1>2, <1>3 DEF ClobbersOnlyRestored, taskVars, boundVars
<1> QED BY <1>2, <1>3, <1>5, <1>6, <1>7 DEF Inv, IdsSound, OneIdPerTorrent

\* populate_from_stored restores one torrent: it leaves the list of those to be
\* restored and is in the session.
LEMMA PopulateKeeps ==
    ASSUME Inv, NEW i \in DOMAIN todo, populate_from_stored(i)
    PROVE  Inv'
<1>1. TypeOK /\ DumpsAfterRestore /\ StoredIsKept /\ ClobbersOnlyRestored
  BY DEF Inv, IdsSound
<1>2. i \in Nat /\ todo[i].hash \in Torrents /\ todo[i].is_paused \in BOOLEAN
  BY <1>1 DEF TypeOK, Stored
<1>3. Adds(todo[i].hash, TRUE)
  <2>1. main_torrent_info(todo[i].hash, todo[i].is_paused, TRUE, {i})
    BY DEF populate_from_stored
  <2>2. PICK h \in Torrents, p \in BOOLEAN : h = todo[i].hash /\ p = todo[i].is_paused
    BY <1>2
  <2>a. PICK pref \in SUBSET Nat : pref = {i} /\ \E j \in Nat : pref = {j}
    BY <1>2
  <2>3. Adds(h, TRUE)
    BY <2>1, <2>2, <2>a, MainFacts
  <2> QED BY <2>2, <2>3
<1>4. /\ persistence = "populating" /\ boots > 1
      /\ todo' = Remove(todo, i)
      /\ UNCHANGED <<fileVars, process, persistence, to_pause, diskVars, historyVars, boundVars>>
  BY <1>1 DEF populate_from_stored, ClobbersOnlyRestored, TypeOK
<1>5. /\ DOMAIN todo' = DOMAIN todo \ {i}
      /\ \A j \in DOMAIN todo' : todo'[j] = todo[j]
      /\ Hashes(todo) \subseteq Hashes(todo') \cup {todo[i].hash}
  <2>1. LET u == Remove(todo, i) IN
        /\ DOMAIN u = DOMAIN todo \ {i}
        /\ \A j \in DOMAIN u : u[j] = todo[j]
        /\ Hashes(todo) \subseteq Hashes(u) \cup {todo[i].hash}
    BY RemoveFacts
  <2> QED BY <2>1, <1>4
<1>6. TypeOK' /\ DumpsAfterRestore'
  BY <1>1, <1>3, <1>4, <1>5
     DEF TypeOK, DumpsAfterRestore, Adds, fileVars, diskVars, historyVars, boundVars
<1>7. StoredIsKept'
  BY <1>1, <1>3, <1>4, <1>5 DEF StoredIsKept, Adds, fileVars, historyVars, boundVars
<1>8. ClobbersOnlyRestored'
  BY <1>1, <1>4 DEF ClobbersOnlyRestored, TypeOK, boundVars
<1> QED BY <1>3, <1>6, <1>7, <1>8 DEF Inv, IdsSound, Adds

\* Restoring ends, and only then is the file written again.
LEMMA PopulatedKeeps ==
    ASSUME Inv, populated
    PROVE  Inv'
<1>1. Hashes(todo) = {}
  BY EmptyFacts DEF populated
<1> QED BY <1>1
     DEF populated, Inv, IdsSound, TypeOK, OneIdPerTorrent, DumpsAfterRestore, StoredIsKept,
         ClobbersOnlyRestored, dbVars, fileVars, diskVars, historyVars, boundVars

\* What is serialized has every torrent of the session.
LEMMA DumpKeeps ==
    ASSUME Inv, dump_to_disk
    PROVE  Inv'
<1>1. TypeOK /\ DumpsAfterRestore /\ StoredIsKept /\ ClobbersOnlyRestored /\ OneIdPerTorrent
  BY DEF Inv, IdsSound
<1>2. /\ dump'.is = "valid" /\ dump'.torrents = serialize
      /\ persistence = "dumping"
      /\ UNCHANGED <<dbVars, file, taskVars, diskVars, historyVars, boundVars>>
  BY DEF dump_to_disk
<1>3. /\ DOMAIN serialize = DOMAIN torrents
      /\ \A i \in DOMAIN torrents : serialize[i] \in Stored
      /\ Hashes(serialize) = Hashes(torrents)
  BY <1>1, SerializeFacts
<1>4. TypeOK'
  BY <1>1, <1>2, <1>3 DEF TypeOK, dbVars, taskVars, diskVars, historyVars, boundVars
<1>5. DumpsAfterRestore'
  BY <1>1, <1>2 DEF DumpsAfterRestore, taskVars, boundVars
<1>6. StoredIsKept'
  BY <1>1, <1>2, <1>3 DEF StoredIsKept, dbVars, taskVars, historyVars, boundVars
<1>7. ClobbersOnlyRestored'
  BY <1>1, <1>2 DEF ClobbersOnlyRestored, dbVars, taskVars, diskVars, historyVars, boundVars
<1> QED BY <1>1, <1>2, <1>4, <1>5, <1>6, <1>7 DEF Inv, IdsSound, OneIdPerTorrent, dbVars

\* The rename makes the dump the file: whatever was promised is in both.
LEMMA RenameKeeps ==
    ASSUME Inv, dump_rename
    PROVE  Inv'
<1>1. TypeOK /\ DumpsAfterRestore /\ StoredIsKept /\ ClobbersOnlyRestored /\ OneIdPerTorrent
  BY DEF Inv, IdsSound
<1>2. /\ dump # Nothing /\ dump' = Nothing /\ boots # 0 /\ persistence # "populating"
      /\ UNCHANGED <<dbVars, taskVars, diskVars, protected, clobbered, adds, boots>>
  BY <1>1 DEF dump_rename, DumpsAfterRestore
<1>3. CASE /\ file' = dump
           /\ promised' = promised \cup (Hashes(dump.torrents) \cap Hashes(torrents))
           /\ UNCHANGED faults
  <2>1. Hashes(torrents) \subseteq Torrents
    BY <1>1 DEF Hashes, TypeOK, Managed
  <2>2. TypeOK'
    BY <1>1, <1>2, <1>3, <2>1, EmptyFacts DEF TypeOK, dbVars, taskVars, diskVars
  <2>3. StoredIsKept'
    BY <1>1, <1>2, <1>3 DEF StoredIsKept, dbVars, taskVars
  <2> QED BY <1>1, <1>2, <2>2, <2>3
       DEF Inv, IdsSound, OneIdPerTorrent, DumpsAfterRestore, ClobbersOnlyRestored,
           dbVars, taskVars, diskVars
<1>4. CASE /\ faults' = faults + 1
           /\ file' \in {file, [is |-> "corrupt", torrents |-> NoEntries]}
           /\ UNCHANGED promised
  <2>1. TypeOK'
    BY <1>1, <1>2, <1>4, EmptyFacts DEF TypeOK, dbVars, taskVars, diskVars
  <2>2. faults' # 0
    BY <1>1, <1>4 DEF TypeOK
  <2> QED BY <1>1, <1>2, <1>4, <2>1, <2>2
       DEF Inv, IdsSound, OneIdPerTorrent, DumpsAfterRestore, ClobbersOnlyRestored,
           StoredIsKept, dbVars, taskVars, diskVars
<1> QED BY <1>3, <1>4 DEF dump_rename

\* A session starts with what the file holds, and the others end.
LEMMA SessionsKeep ==
    ASSUME Inv, new_with_opts \/ stop \/ stop_cancel \/ crash
    PROVE  Inv'
<1>1. TypeOK /\ DumpsAfterRestore /\ StoredIsKept /\ ClobbersOnlyRestored /\ OneIdPerTorrent
      /\ \A i \in DOMAIN torrents : i < next_id
  BY DEF Inv, IdsSound
<1>2. CASE new_with_opts
  <2>1. IdsSound'
    BY <1>1, <1>2, EmptyFacts
       DEF new_with_opts, IdsSound, TypeOK, DumpsAfterRestore, OneIdPerTorrent, fileVars,
           diskVars, historyVars
  <2>2. StoredIsKept'
    BY <1>1, <1>2, EmptyFacts DEF new_with_opts, StoredIsKept, fileVars, historyVars
  <2>3. boots' <= 1 => boots = 0
    BY <1>1, <1>2 DEF new_with_opts, TypeOK
  <2>4. ClobbersOnlyRestored'
    BY <1>1, <1>2, <2>3, EmptyFacts
       DEF new_with_opts, ClobbersOnlyRestored, DumpsAfterRestore, diskVars, historyVars
  <2> QED BY <2>1, <2>2, <2>4 DEF Inv
<1>3. CASE stop
  BY <1>1, <1>3
     DEF stop, Inv, IdsSound, TypeOK, OneIdPerTorrent, DumpsAfterRestore, StoredIsKept,
         ClobbersOnlyRestored, dbVars, fileVars, diskVars, historyVars, boundVars
<1>4. CASE stop_cancel
  BY <1>1, <1>4, EmptyFacts
     DEF stop_cancel, Inv, IdsSound, TypeOK, OneIdPerTorrent, DumpsAfterRestore, StoredIsKept,
         ClobbersOnlyRestored, dbVars, fileVars, historyVars, boundVars
<1>5. CASE crash
  BY <1>1, <1>5, EmptyFacts
     DEF crash, Inv, IdsSound, TypeOK, OneIdPerTorrent, DumpsAfterRestore, StoredIsKept,
         ClobbersOnlyRestored, historyVars, boundVars
<1> QED BY <1>2, <1>3, <1>4, <1>5

-----------------------------------------------------------------------------
(* Theorems *)

\* Every step keeps the invariant.
LEMMA NextKeeps ==
    ASSUME Inv, [Next]_vars
    PROVE  Inv'
<1>1. CASE User
  BY <1>1, AddKeeps, StateKeeps, DeleteKeeps, SessionsKeep DEF User
<1>2. CASE InitTask
  BY <1>2, CheckOkKeeps, StateKeeps, OrphanKeeps DEF InitTask
<1>3. CASE Persistence
  BY <1>3, PopulateKeeps, PopulatedKeeps, DumpKeeps, RenameKeeps DEF Persistence
<1>4. CASE \E i \in to_pause : stop_pause(i)
  BY <1>4, StateKeeps
<1>5. CASE new_with_opts \/ stop_cancel \/ crash
  BY <1>5, SessionsKeep
<1>6. CASE UNCHANGED vars
  BY <1>6
     DEF vars, Inv, IdsSound, TypeOK, OneIdPerTorrent, DumpsAfterRestore, StoredIsKept,
         ClobbersOnlyRestored, dbVars, fileVars, taskVars, diskVars, historyVars, boundVars
<1> QED BY <1>1, <1>2, <1>3, <1>4, <1>5, <1>6 DEF Next

\* The invariant of the session.
LEMMA InvHolds == Spec => []Inv
BY InitInv, NextKeeps, PTL DEF Spec

\* However users, restoring, dumps and kills interleave, a torrent of the session
\* has one id, below the next one that will be given.
THEOREM SessionIdsSound == Spec => []IdsSound
<1>1. Inv => IdsSound
  BY DEF Inv
<1> QED BY <1>1, InvHolds, PTL

\* A torrent that was stored and not deleted is never lost by a kill, a stop or a
\* restart, as long as no dump is cut short by a full disk.
THEOREM SessionKeepsStored == Spec => []StoredIsKept
<1>1. Inv => StoredIsKept
  BY DEF Inv
<1> QED BY <1>1, InvHolds, PTL

\* The first session on a file never writes on top of files it refused.
THEOREM FirstSessionClobbersNothing == Spec => []ClobbersOnlyRestored
<1>1. Inv => ClobbersOnlyRestored
  BY DEF Inv
<1> QED BY <1>1, InvHolds, PTL

\* No insertion replaces a torrent: ids that come from the file and ids given
\* meanwhile never meet.
THEOREM SessionNeverReplaces == Spec => NeverReplaced
<1> DEFINE Kept == \A i \in DOMAIN torrents \cap DOMAIN torrents' :
                      torrents[i].hash = torrents'[i].hash
<1>1. ASSUME NEW h \in Torrents, NEW ow, Adds(h, ow) PROVE Kept
  BY <1>1 DEF Adds
<1>2. ASSUME Moves PROVE Kept
  BY <1>2 DEF Moves
<1>3. ASSUME Inv, [Next]_vars PROVE [Kept]_torrents
  <2>1. CASE \E h \in Torrents, o \in Options : add_torrent(h, o.paused, o.overwrite)
    <3>1. PICK h \in Torrents, o \in Options : add_torrent(h, o.paused, o.overwrite)
      BY <2>1
    <3>2. /\ o.paused \in BOOLEAN /\ o.overwrite \in BOOLEAN
          /\ main_torrent_info(h, o.paused, o.overwrite, {})
      BY <3>1, SessionAssumption DEF add_torrent
    <3>3. Adds(h, o.overwrite)
      BY <1>3, <3>2, MainFacts
    <3> QED BY <3>3, <1>1
  <2>2. CASE \E i \in DOMAIN todo : populate_from_stored(i)
    <3>1. PICK i \in DOMAIN todo : populate_from_stored(i)
      BY <2>2
    <3>2. /\ i \in Nat /\ todo[i].hash \in Torrents /\ todo[i].is_paused \in BOOLEAN
          /\ main_torrent_info(todo[i].hash, todo[i].is_paused, TRUE, {i})
      BY <1>3, <3>1 DEF populate_from_stored, Inv, IdsSound, TypeOK, Stored
    <3>3. PICK h \in Torrents, p \in BOOLEAN : h = todo[i].hash /\ p = todo[i].is_paused
      BY <3>2
    <3>a. PICK pref \in SUBSET Nat : pref = {i} /\ \E j \in Nat : pref = {j}
      BY <3>2
    <3>4. Adds(h, TRUE)
      BY <1>3, <3>2, <3>3, <3>a, MainFacts
    <3> QED BY <3>2, <3>3, <3>4, <1>1
  <2>3. CASE \E i \in DOMAIN torrents :
                check_ok(i) \/ check_err(i) \/ pause(i) \/ unpause(i) \/ stop_pause(i)
    <3>1. PICK i \in DOMAIN torrents :
             check_ok(i) \/ check_err(i) \/ pause(i) \/ unpause(i) \/ stop_pause(i)
      BY <2>3
    <3>2. Moves
      BY <1>3, <3>1, SetStateFacts DEF check_ok, check_err, pause, unpause, stop_pause
    <3> QED BY <1>2, <3>2
  <2>4. CASE \E i \in DOMAIN torrents, b \in Deletes : delete(i, b)
    <3>1. PICK i \in DOMAIN torrents : torrents' = Remove(torrents, i)
      BY <2>4 DEF delete
    <3> QED BY <3>1 DEF Remove
  <2>5. CASE new_with_opts \/ crash
    BY <2>5, EmptyFacts DEF new_with_opts, crash
  <2>6. CASE UNCHANGED torrents
    BY <2>6
  <2>7. ASSUME NEW i \in to_pause, stop_pause(i), i \notin DOMAIN torrents
        PROVE  UNCHANGED torrents
    BY <2>7 DEF stop_pause
  <2>8. ASSUME \/ stop \/ stop_cancel \/ populated \/ dump_to_disk \/ dump_rename
               \/ (\E o \in orphans : orphan_check(o)) \/ UNCHANGED vars
        PROVE  UNCHANGED torrents
    BY <2>8 DEF stop, stop_cancel, populated, dump_to_disk, dump_rename, orphan_check,
                vars, dbVars
  <2> QED BY <1>3, <2>1, <2>2, <2>3, <2>4, <2>5, <2>6, <2>7, <2>8
       DEF Next, User, InitTask, Persistence
<1> QED BY <1>3, InvHolds, PTL DEF Spec, NeverReplaced
=============================================================================
