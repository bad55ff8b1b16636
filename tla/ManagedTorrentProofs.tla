------------------------ MODULE ManagedTorrentProofs ------------------------
(***************************************************************************)
(* A managed torrent but for its download: its life cycle                  *)
(* (ManagedTorrent), its table of peers (PeerStates), and the trackers     *)
(* that tell it of peers (TrackerComms), for every value of the constants. *)
(***************************************************************************)
EXTENDS ManagedTorrent, PeerStates, TrackerComms, FunctionTheorems, FiniteSetTheorems,
        SequenceTheorems, TLAPS

-----------------------------------------------------------------------------
(***************************************************************************)
(* ManagedTorrent, for every number of calls and errors: only the live     *)
(* state on show runs, and never against the user's last word.             *)
(***************************************************************************)


\* A torrent that was just added runs nothing.
LEMMA InitHolds == Init => RunsAsAsked
BY ManagedAssumption
   DEF Init, RunsAsAsked, TypeOK, ShowsItsState, OnlyCurrentRuns, PausedStaysPaused,
       ChecksAsAsked, Calls, Lives, NoTask, InitTasks

\* A call of start(), whatever state it finds.
LEMMA StartKeeps ==
    ASSUME RunsAsAsked, NEW p \in BOOLEAN, start(p)
    PROVE  RunsAsAsked'
<1> DEFINE c == calls + 1
<1>1. /\ calls \in Nat /\ c \in Calls /\ calls' = c
      /\ fatal' = fatal /\ files' = files /\ errors' = errors
      /\ p => \A d \in Calls : ~init[d].start_paused
      /\ init[c] = NoTask /\ c \notin restarting
  BY ManagedAssumption DEF RunsAsAsked, TypeOK, ShowsItsState, start, Calls
<1>2. CASE /\ state = "initializing"
           /\ init' = [init EXCEPT ![c] = [st |-> "open", start_paused |-> p]]
           /\ asked' = IF ~p THEN "live" ELSE IF c = 1 THEN "paused" ELSE asked
           /\ UNCHANGED <<state, current, restarting, token, receiver>>
  <2>1. TypeOK'
    BY <1>1, <1>2, ManagedAssumption DEF RunsAsAsked, TypeOK, Calls, InitTasks
  <2>2. ShowsItsState' /\ OnlyCurrentRuns' /\ PausedStaysPaused'
    BY <1>1, <1>2 DEF RunsAsAsked, TypeOK, ShowsItsState, OnlyCurrentRuns,
                      PausedStaysPaused, Calls, NoTask
  <2>3. ChecksAsAsked'
    BY <1>1, <1>2 DEF RunsAsAsked, TypeOK, ChecksAsAsked, Calls
  <2> QED BY <2>1, <2>2, <2>3 DEF RunsAsAsked
<1>3. CASE state = "paused" /\ NewLive(c) /\ asked' = "live"
           /\ UNCHANGED <<init, restarting>>
  BY <1>1, <1>3, ManagedAssumption
     DEF RunsAsAsked, TypeOK, ShowsItsState, OnlyCurrentRuns, PausedStaysPaused,
         ChecksAsAsked, NewLive, Calls, Lives
<1>4. CASE /\ state = "error" /\ state' = "initializing"
           /\ restarting' = restarting \cup {c}
           /\ asked' = "live"
           /\ UNCHANGED <<current, init, token, receiver>>
  BY <1>1, <1>4, ManagedAssumption
     DEF RunsAsAsked, TypeOK, ShowsItsState, OnlyCurrentRuns, PausedStaysPaused,
         ChecksAsAsked, Calls, Lives
<1> QED BY <1>2, <1>3, <1>4 DEF start, StartArm

\* A call that recurses: the state is whatever the others left meanwhile.
LEMMA StartAgainKeeps ==
    ASSUME RunsAsAsked, NEW c \in Calls, start_again(c)
    PROVE  RunsAsAsked'
<1>1. /\ fatal' = fatal /\ files' = files /\ calls' = calls /\ errors' = errors
      /\ c \in restarting /\ c <= calls /\ init[c] = NoTask
  BY DEF start_again, RunsAsAsked, ShowsItsState
<1>2. CASE /\ state = "live" /\ restarting' = restarting \ {c}
           /\ UNCHANGED <<state, current, init, token, receiver, asked>>
  BY <1>1, <1>2
     DEF RunsAsAsked, TypeOK, ShowsItsState, OnlyCurrentRuns, PausedStaysPaused,
         ChecksAsAsked
<1>3. CASE /\ state = "initializing" /\ asked' = "live"
           /\ restarting' = restarting \ {c}
           /\ init' = [init EXCEPT ![c] = [st |-> "open", start_paused |-> FALSE]]
           /\ UNCHANGED <<state, current, token, receiver>>
  <2>1. TypeOK'
    BY <1>1, <1>3 DEF RunsAsAsked, TypeOK, InitTasks
  <2>2. OnlyCurrentRuns'
    BY <1>1, <1>3 DEF RunsAsAsked, TypeOK, OnlyCurrentRuns, NoTask
  <2> QED BY <2>1, <2>2, <1>1, <1>3, ManagedAssumption
     DEF RunsAsAsked, TypeOK, ShowsItsState, PausedStaysPaused, ChecksAsAsked, Calls
<1>4. CASE /\ state = "paused" /\ asked' = "live" /\ restarting' = restarting \ {c}
           /\ NewLive(c)
           /\ UNCHANGED init
  BY <1>1, <1>4, ManagedAssumption
     DEF RunsAsAsked, TypeOK, ShowsItsState, OnlyCurrentRuns, PausedStaysPaused,
         ChecksAsAsked, NewLive, Calls, Lives
<1>5. CASE /\ state = "error" /\ state' = "initializing" /\ asked' = "live"
           /\ UNCHANGED <<current, init, restarting, token, receiver>>
  BY <1>1, <1>5
     DEF RunsAsAsked, TypeOK, ShowsItsState, OnlyCurrentRuns, PausedStaysPaused,
         ChecksAsAsked
<1> QED BY <1>2, <1>3, <1>4, <1>5 DEF start_again

\* A task that changes its own stage keeps what is known of the tasks.
LEMMA InitToFacts ==
    ASSUME RunsAsAsked, NEW c \in Calls, NEW st \in InitTasks, InitTo(c, st),
           init[c].st \notin {"none", "failed"}
    PROVE  /\ init' \in [Calls -> [st : InitTasks, start_paused : BOOLEAN]]
           /\ \A d \in Calls : init'[d].start_paused = init[d].start_paused
           /\ \A d \in Calls : d # c => init'[d] = init[d]
           /\ init'[c].st = st
           /\ c <= calls /\ c \notin restarting
BY ManagedAssumption DEF RunsAsAsked, TypeOK, ShowsItsState, InitTo, InitTasks, NoTask, Calls

\* The files are opened.
LEMMA OpenFilesKeeps ==
    ASSUME RunsAsAsked, NEW c \in Calls, open_files(c)
    PROVE  RunsAsAsked'
<1>1. "check" \in InitTasks /\ init[c].st \notin {"none", "failed"}
  BY DEF open_files, InitAt, InitTasks
<1>2. InitTo(c, "check")
  BY DEF open_files
<1>3. /\ init' \in [Calls -> [st : InitTasks, start_paused : BOOLEAN]]
      /\ \A d \in Calls : init'[d].start_paused = init[d].start_paused
      /\ \A d \in Calls : d # c => init'[d] = init[d]
      /\ init'[c].st = "check"
      /\ c <= calls /\ c \notin restarting
  BY <1>1, <1>2, InitToFacts
<1> QED BY <1>1, <1>3, ManagedAssumption
     DEF open_files, RunsAsAsked, TypeOK, ShowsItsState, OnlyCurrentRuns, PausedStaysPaused,
         ChecksAsAsked, Calls

\* A check that ends well moves the state only if it is still initializing.
LEMMA CheckOkKeeps ==
    ASSUME RunsAsAsked, NEW c \in Calls, check_ok(c)
    PROVE  RunsAsAsked'
<1>1. "done" \in InitTasks /\ init[c].st \notin {"none", "failed"}
  BY DEF check_ok, InitAt, InitTasks
<1>2. InitTo(c, "done")
  BY DEF check_ok
<1>3. /\ init' \in [Calls -> [st : InitTasks, start_paused : BOOLEAN]]
      /\ \A d \in Calls : init'[d].start_paused = init[d].start_paused
      /\ \A d \in Calls : d # c => init'[d] = init[d]
      /\ init'[c].st = "done"
      /\ c <= calls /\ c \notin restarting
  BY <1>1, <1>2, InitToFacts
<1>4. UNCHANGED <<restarting, fatal, files, calls, errors, asked>>
  BY DEF check_ok
<1>5. CASE state # "initializing" /\ UNCHANGED <<state, current, token, receiver>>
  BY <1>1, <1>3, <1>4, <1>5, ManagedAssumption
     DEF RunsAsAsked, TypeOK, ShowsItsState, OnlyCurrentRuns, PausedStaysPaused,
         ChecksAsAsked, Calls
<1>6. CASE state = "initializing" /\ state' = "paused"
           /\ UNCHANGED <<current, token, receiver>>
  BY <1>1, <1>3, <1>4, <1>6, ManagedAssumption
     DEF RunsAsAsked, TypeOK, ShowsItsState, OnlyCurrentRuns, PausedStaysPaused,
         ChecksAsAsked, Calls
<1>7. CASE state = "initializing" /\ ~init[c].start_paused /\ NewLive(c)
  <2>1. asked = "live"
    BY <1>3, <1>7, ManagedAssumption DEF RunsAsAsked, TypeOK, ChecksAsAsked, Calls
  <2> QED BY <2>1, <1>1, <1>3, <1>4, <1>7, ManagedAssumption
     DEF RunsAsAsked, TypeOK, ShowsItsState, OnlyCurrentRuns, PausedStaysPaused,
         ChecksAsAsked, NewLive, Calls, Lives
<1> QED BY <1>5, <1>6, <1>7 DEF check_ok

\* A check that fails replaces the state, and leaves a live state running.
LEMMA CheckErrKeeps ==
    ASSUME RunsAsAsked, NEW c \in Calls, check_err(c)
    PROVE  RunsAsAsked'
<1>1. "failed" \in InitTasks /\ init[c].st \notin {"none", "failed"}
  BY DEF check_err, InitAt, InitTasks
<1>2. InitTo(c, "failed")
  BY DEF check_err
<1>3. /\ init' \in [Calls -> [st : InitTasks, start_paused : BOOLEAN]]
      /\ \A d \in Calls : init'[d].start_paused = init[d].start_paused
      /\ \A d \in Calls : d # c => init'[d] = init[d]
      /\ init'[c].st = "failed"
      /\ c <= calls /\ c \notin restarting
  BY <1>1, <1>2, InitToFacts
<1> QED BY <1>1, <1>3, ManagedAssumption
     DEF check_err, RunsAsAsked, TypeOK, ShowsItsState, OnlyCurrentRuns, PausedStaysPaused,
         ChecksAsAsked, Calls

\* The user pauses a live torrent.
LEMMA PauseKeeps ==
    ASSUME RunsAsAsked, pause
    PROVE  RunsAsAsked'
BY DEF pause, RunsAsAsked, TypeOK, ShowsItsState, OnlyCurrentRuns, PausedStaysPaused,
         ChecksAsAsked

\* A fatal error and its receiver.
LEMMA ErrorsKeep ==
    ASSUME RunsAsAsked, NEW l \in Calls, on_fatal_error(l) \/ ReceiverStep(l)
    PROVE  RunsAsAsked'
<1>1. CASE on_fatal_error(l)
  BY <1>1, ManagedAssumption
     DEF on_fatal_error, RunsAsAsked, TypeOK, ShowsItsState, OnlyCurrentRuns, PausedStaysPaused,
         ChecksAsAsked
<1>2. CASE stop_with_error(l)
  BY <1>2 DEF stop_with_error, RunsAsAsked, TypeOK, ShowsItsState, OnlyCurrentRuns,
              PausedStaysPaused,
         ChecksAsAsked
<1>3. CASE receiver_cancelled(l)
  BY <1>3 DEF receiver_cancelled, RunsAsAsked, TypeOK, ShowsItsState, OnlyCurrentRuns,
              PausedStaysPaused,
         ChecksAsAsked
<1> QED BY <1>1, <1>2, <1>3 DEF ReceiverStep

\* However calls of start() and pause(), checks and errors overlap, only the live
\* state on show runs (until a check fails), and the torrent never runs against
\* the user's last word.
THEOREM TorrentRunsAsAsked == Spec => []RunsAsAsked
<1>1. ASSUME RunsAsAsked, [Next]_vars
      PROVE  RunsAsAsked'
  <2>1. CASE \E p \in BOOLEAN : start(p)
    BY <1>1, <2>1, StartKeeps
  <2>2. CASE pause
    BY <1>1, <2>2, PauseKeeps
  <2>3. CASE \E c \in Calls : InitStep(c) \/ on_fatal_error(c) \/ ReceiverStep(c)
    BY <1>1, <2>3, OpenFilesKeeps, CheckOkKeeps, CheckErrKeeps, StartAgainKeeps,
       ErrorsKeep DEF InitStep
  <2>4. CASE UNCHANGED vars
    BY <1>1, <2>4 DEF vars, RunsAsAsked, TypeOK, ShowsItsState, OnlyCurrentRuns,
                      PausedStaysPaused,
         ChecksAsAsked
  <2> QED BY <1>1, <2>1, <2>2, <2>3, <2>4 DEF Next
<1> QED BY <1>1, InitHolds, PTL DEF Spec

-----------------------------------------------------------------------------
(***************************************************************************)
(* PeerStates, for every set of addresses, every number of connections and *)
(* every limit: the counters and the permits add up, no entry is stranded, *)
(* and the warnings "bug: ..." need an exhausted backoff.                  *)
(***************************************************************************)


\* TaskFor, by the fields of the task.
Has(a, st) == \E t \in Tasks : task[t].st = st /\ task[t].addr = a

\* Address a waits in the queue of the adder.
Waiting(a) == a \in Range(peer_queue)

\* Who looks at an entry next: NoPeerStranded and the first half of
\* ActiveWithinLimit, whose second half follows from the permits.
Attended ==
    \A a \in Addrs :
        /\ states[a] \in Active => Has(a, "running")
        /\ states[a] = "queued" =>
              \/ sending[a] > 0 \/ Waiting(a) \/ adder = a
              \/ Has(a, "spawned") \/ Has(a, "dropping")
        /\ states[a] = "dead" => sleeping[a] > 0 \/ Has(a, "dropping")

PeersInv ==
    /\ PeersTypeOK /\ StatsMatch /\ PermitsMatch
    /\ Attended /\ EntryOfTask /\ OneTaskPerAddress

-----------------------------------------------------------------------------
(* Counting *)

\* The peers that are in state s.
In(s) == {a \in Addrs : states[a] = s}

\* Moving one entry of the table changes the number of peers in a state by what
\* PeerStateNoMut::set adds to its counter.
LEMMA CountMoved ==
    ASSUME NEW a \in Addrs, NEW new, NEW s,
           states'[a] = new, \A b \in Addrs \ {a} : states'[b] = states[b]
    PROVE  /\ Cardinality(In(s)) \in Nat
           /\ Cardinality(In(s))' =
                Cardinality(In(s)) - (IF s = states[a] THEN 1 ELSE 0) + (IF s = new THEN 1 ELSE 0)
<1>1. IsFiniteSet(In(s)) /\ IsFiniteSet(In(s) \ {a}) /\ IsFiniteSet(In(s) \cup {a})
  BY FS_Subset, FS_AddElement, FS_RemoveElement, PeersAssumption DEF In
<1>2. /\ Cardinality(In(s)) \in Nat
      /\ Cardinality(In(s) \ {a}) =
           IF a \in In(s) THEN Cardinality(In(s)) - 1 ELSE Cardinality(In(s))
      /\ Cardinality(In(s) \cup {a}) =
           IF a \in In(s) THEN Cardinality(In(s)) ELSE Cardinality(In(s)) + 1
  BY <1>1, FS_CardinalityType, FS_AddElement, FS_RemoveElement
<1>3. In(s)' = IF s = new THEN In(s) \cup {a} ELSE In(s) \ {a}
  BY DEF In
<1>4. a \in In(s) <=> s = states[a]
  BY DEF In
<1>5. CASE s = new
  BY <1>2, <1>3, <1>4, <1>5
<1>6. CASE s # new
  BY <1>2, <1>3, <1>4, <1>6
<1> QED BY <1>5, <1>6

\* PeerStateNoMut::set keeps the counters those of the table.
LEMMA SetFacts ==
    ASSUME PeersTypeOK, StatsMatch, NEW a \in Addrs, NEW new \in Entries \cup {"none"}, set(a,
    new)
    PROVE  /\ states' \in [Addrs -> Entries \cup {"none"}] /\ stats' \in [Entries -> Int]
           /\ states'[a] = new /\ \A b \in Addrs \ {a} : states'[b] = states[b]
           /\ StatsMatch'
<1>1. /\ states' \in [Addrs -> Entries \cup {"none"}]
      /\ states'[a] = new /\ \A b \in Addrs \ {a} : states'[b] = states[b]
  BY DEF set, PeersTypeOK
<1>2. stats' \in [Entries -> Int]
  BY DEF set, PeersTypeOK
<1>3. ASSUME NEW s \in Entries
      PROVE  stats'[s] = Cardinality(In(s))'
  <2>1. stats[s] = Cardinality(In(s))
    BY DEF StatsMatch, In
  <2>2. stats'[s] = stats[s] - (IF s = states[a] THEN 1 ELSE 0) + (IF s = new THEN 1 ELSE 0)
    BY DEF set
  <2>3. Cardinality(In(s))' =
          Cardinality(In(s)) - (IF s = states[a] THEN 1 ELSE 0) + (IF s = new THEN 1 ELSE 0)
    BY <1>1, CountMoved
  <2> QED BY <2>1, <2>2, <2>3
<1> QED BY <1>1, <1>2, <1>3 DEF StatsMatch, In

\* The tasks that hold a permit, when the state of one of them becomes st.
Holds(st) == st \in {"spawned", "running", "dropping"}

\* A permit is given back exactly when its task stops holding it.
LEMMA PermitsMoved ==
    ASSUME PeersTypeOK, PermitsMatch, NEW t \in Tasks, task' \in [Tasks -> [st : TaskStates,
    addr : Addrs \cup {NoAddr}]],
           \A u \in Tasks \ {t} : task'[u] = task[u],
           permits' = permits + (IF Holds(task[t].st) THEN 1 ELSE 0)
                              - (IF Holds(task'[t].st) THEN 1 ELSE 0)
    PROVE  PermitsMatch'
<1>1. IsFiniteSet(Holders) /\ IsFiniteSet(Holders \ {t}) /\ IsFiniteSet(Holders \cup {t})
  BY FS_Subset, FS_AddElement, FS_RemoveElement, PeersAssumption DEF Holders
<1>2. /\ Cardinality(Holders) \in Nat
      /\ Cardinality(Holders \ {t}) =
           IF t \in Holders THEN Cardinality(Holders) - 1 ELSE Cardinality(Holders)
      /\ Cardinality(Holders \cup {t}) =
           IF t \in Holders THEN Cardinality(Holders) ELSE Cardinality(Holders) + 1
  BY <1>1, FS_CardinalityType, FS_AddElement, FS_RemoveElement
<1>3. t \in Holders <=> Holds(task[t].st)
  BY DEF Holders, Holds
<1>4. Holders' = IF Holds(task'[t].st) THEN Holders \cup {t} ELSE Holders \ {t}
  BY DEF Holders, Holds
<1>5. permits \in Nat /\ Limit \in Nat
  BY PeersAssumption DEF PeersTypeOK
<1>6. CASE Holds(task'[t].st)
  BY <1>2, <1>3, <1>4, <1>5, <1>6 DEF PermitsMatch
<1>7. CASE ~Holds(task'[t].st)
  BY <1>2, <1>3, <1>4, <1>5, <1>7 DEF PermitsMatch
<1> QED BY <1>6, <1>7

\* Each active entry belongs to a task of its own that holds a permit.
LEMMA LimitHolds ==
    ASSUME PeersTypeOK, PermitsMatch, Attended
    PROVE  Cardinality({a \in Addrs : states[a] \in Active}) <= Limit
<1> DEFINE A == {a \in Addrs : states[a] \in Active}
           f == [a \in A |-> CHOOSE t \in Tasks : task[t].st = "running" /\ task[t].addr = a]
<1>1. \A a \in A : f[a] \in Tasks /\ task[f[a]].st = "running" /\ task[f[a]].addr = a
  BY DEF Attended, Has
<1>0. f = [a \in A |-> f[a]]
  OBVIOUS
<1> HIDE DEF f
<1>2. \A a \in A : f[a] \in Holders
  BY <1>1 DEF Holders
<1>3. \A a, b \in A : f[a] = f[b] => a = b
  BY <1>1
<1>4. f \in [A -> Holders]
  BY <1>0, <1>2
<1>5. f \in Injection(A, Holders)
  BY <1>3, <1>4, Fun_IsInj
<1>6. IsFiniteSet(Holders)
  BY FS_Subset, PeersAssumption DEF Holders
<1>7. IsFiniteSet(A) /\ Cardinality(A) <= Cardinality(Holders)
  BY <1>5, <1>6, FS_Injection
<1>8. Cardinality(A) \in Nat /\ Cardinality(Holders) \in Nat
  BY <1>6, <1>7, FS_CardinalityType
<1>9. permits \in Nat /\ Limit \in Nat /\ permits + Cardinality(Holders) = Limit
  BY PeersAssumption DEF PeersTypeOK, PermitsMatch
<1> QED BY <1>7, <1>8, <1>9

-----------------------------------------------------------------------------
(* What the steps change *)

\* The state of one task changes.
LEMMA TaskMoved ==
    ASSUME PeersTypeOK, NEW t \in Tasks, NEW st \in TaskStates,
           task' = [task EXCEPT ![t].st = st],
           task[t].addr \in Addrs
    PROVE  /\ task' \in [Tasks -> [st : TaskStates, addr : Addrs \cup {NoAddr}]]
           /\ \A u \in Tasks : task'[u].st = "unused" \/ task'[u].addr \in Addrs
           /\ task'[t].st = st /\ task'[t].addr = task[t].addr
           /\ \A u \in Tasks \ {t} : task'[u] = task[u]
BY DEF PeersTypeOK

\* A task starts.
LEMMA TaskStarted ==
    ASSUME PeersTypeOK, NEW t \in Tasks, NEW st \in TaskStates, NEW a \in Addrs,
           task' = [task EXCEPT ![t] = [st |-> st, addr |-> a]]
    PROVE  /\ task' \in [Tasks -> [st : TaskStates, addr : Addrs \cup {NoAddr}]]
           /\ \A u \in Tasks : task'[u].st = "unused" \/ task'[u].addr \in Addrs
           /\ task'[t].st = st /\ task'[t].addr = a
           /\ \A u \in Tasks \ {t} : task'[u] = task[u]
BY DEF PeersTypeOK

\* Only the task that moves stops being what it was.
LEMMA HasMoved ==
    ASSUME NEW t \in Tasks, \A u \in Tasks \ {t} : task'[u] = task[u]
    PROVE  /\ \A b, st : Has(b, st) => Has(b, st)' \/ (b = task[t].addr /\ st = task[t].st)
           /\ Has(task[t].addr, task[t].st)'
BY DEF Has

\* An address joins the queue at its end, or leaves it at its front.
LEMMA QueueFacts ==
    ASSUME peer_queue \in Seq(Addrs)
    PROVE  /\ \A a \in Addrs : /\ Append(peer_queue, a) \in Seq(Addrs)
                               /\ Range(Append(peer_queue, a)) = Range(peer_queue) \cup {a}
           /\ peer_queue # <<>> =>
                /\ Head(peer_queue) \in Addrs /\ Tail(peer_queue) \in Seq(Addrs)
                /\ Range(peer_queue) \subseteq Range(Tail(peer_queue)) \cup {Head(peer_queue)}
<1>1. ASSUME NEW a \in Addrs
      PROVE  /\ Append(peer_queue, a) \in Seq(Addrs)
             /\ Range(Append(peer_queue, a)) = Range(peer_queue) \cup {a}
  <2>1. /\ Append(peer_queue, a) \in Seq(Addrs) /\ Len(peer_queue) \in Nat
        /\ DOMAIN Append(peer_queue, a) = 1..(Len(peer_queue) + 1)
        /\ DOMAIN peer_queue = 1..Len(peer_queue)
        /\ Append(peer_queue, a)[Len(peer_queue) + 1] = a
        /\ \A i \in 1..Len(peer_queue) : Append(peer_queue, a)[i] = peer_queue[i]
    OBVIOUS
  <2> QED BY <2>1 DEF Range
<1>2. ASSUME peer_queue # <<>>
      PROVE  /\ Head(peer_queue) \in Addrs /\ Tail(peer_queue) \in Seq(Addrs)
             /\ Range(peer_queue) \subseteq Range(Tail(peer_queue)) \cup {Head(peer_queue)}
  <2>1. /\ Head(peer_queue) \in Addrs /\ Tail(peer_queue) \in Seq(Addrs)
        /\ Len(peer_queue) \in Nat \ {0} /\ Head(peer_queue) = peer_queue[1]
        /\ DOMAIN Tail(peer_queue) = 1..(Len(peer_queue) - 1)
        /\ DOMAIN peer_queue = 1..Len(peer_queue)
        /\ \A i \in 1..(Len(peer_queue) - 1) : Tail(peer_queue)[i] = peer_queue[i + 1]
    BY <1>2
  <2>2. ASSUME NEW i \in 1..Len(peer_queue), i # 1
        PROVE  peer_queue[i] \in Range(Tail(peer_queue))
    <3>1. i - 1 \in 1..(Len(peer_queue) - 1) /\ (i - 1) + 1 = i
      BY <2>1, <2>2
    <3> QED BY <2>1, <3>1 DEF Range
  <2> QED BY <2>1, <2>2 DEF Range
<1> QED BY <1>1, <1>2

-----------------------------------------------------------------------------
(* One lemma per action *)

\* The table is empty at the start.
LEMMA PeersInitInv == PeersInit => PeersInv
<1> SUFFICES ASSUME PeersInit PROVE PeersInv
  OBVIOUS
<1>1. PeersTypeOK
  <2>1. <<>> \in Seq(Addrs)
    OBVIOUS
  <2>2. Limit \in Nat
    BY PeersAssumption
  <2>3. [st |-> "unused", addr |-> NoAddr] \in [st : TaskStates, addr : Addrs \cup {NoAddr}]
    BY DEF TaskStates
  <2>4. /\ task \in [Tasks -> [st : TaskStates, addr : Addrs \cup {NoAddr}]]
        /\ \A t \in Tasks : task[t].st = "unused"
    BY <2>3 DEF PeersInit
  <2>5. states \in [Addrs -> Entries \cup {"none"}] /\ stats \in [Entries -> Int]
    BY DEF PeersInit
  <2>6. sending \in [Addrs -> Nat] /\ sleeping \in [Addrs -> Nat]
    BY DEF PeersInit
  <2>7. finished \in BOOLEAN
    BY DEF PeersInit
  <2> QED BY <2>1, <2>2, <2>4, <2>5, <2>6, <2>7 DEF PeersInit, PeersTypeOK
<1>2. StatsMatch
  <2>1. \A s \in Entries : {a \in Addrs : states[a] = s} = {}
    BY DEF PeersInit, Entries
  <2> QED BY <2>1, FS_EmptySet DEF PeersInit, StatsMatch
<1>3. PermitsMatch
  <2>1. Holders = {}
    BY DEF PeersInit, Holders
  <2> QED BY <2>1, FS_EmptySet, PeersAssumption DEF PeersInit, PermitsMatch
<1>4. Attended /\ EntryOfTask /\ OneTaskPerAddress
  BY DEF PeersInit, Attended, EntryOfTask, OneTaskPerAddress, Active
<1> QED BY <1>1, <1>2, <1>3, <1>4 DEF PeersInv

\* add_peer_if_not_seen.
LEMMA AddKeeps ==
    ASSUME PeersInv, NEW a \in Addrs, add_if_not_seen(a)
    PROVE  PeersInv'
<1>1. /\ states[a] = "none" /\ set(a, "queued") /\ adds' = adds + 1
      /\ sending' = [sending EXCEPT ![a] = @ + 1]
      /\ UNCHANGED <<peer_queue, adder, permits, task, sleeping, finished, sweep, bugs>>
  BY DEF add_if_not_seen
<1>2. /\ states' \in [Addrs -> Entries \cup {"none"}] /\ stats' \in [Entries -> Int]
      /\ states'[a] = "queued" /\ \A b \in Addrs \ {a} : states'[b] = states[b]
      /\ StatsMatch'
  BY <1>1, SetFacts DEF PeersInv, Entries
<1>3. sending' \in [Addrs -> Nat] /\ sending'[a] > 0 /\ \A b \in Addrs : sending'[b] >= sending[b]
  BY <1>1 DEF PeersInv, PeersTypeOK
<1>4. PeersTypeOK' /\ PermitsMatch'
  BY <1>1, <1>2, <1>3 DEF PeersInv, PeersTypeOK, PermitsMatch, Holders
<1>5. Attended'
  <2>1. \A b, st : (Has(b, st)' <=> Has(b, st)) /\ (Waiting(b)' <=> Waiting(b))
    BY <1>1 DEF Has, Waiting
  <2>2. \A b \in Addrs : sending[b] > 0 => sending'[b] > 0
    BY <1>3 DEF PeersInv, PeersTypeOK
  <2> QED BY <1>1, <1>2, <1>3, <2>1, <2>2 DEF PeersInv, Attended, Active
<1>6. EntryOfTask' /\ OneTaskPerAddress'
  BY <1>1, <1>2 DEF PeersInv, PeersTypeOK, EntryOfTask, OneTaskPerAddress, Exhausted, Active
<1> QED BY <1>2, <1>4, <1>5, <1>6 DEF PeersInv

\* The send to the queue.
LEMMA SendKeeps ==
    ASSUME PeersInv, NEW a \in Addrs, peer_queue_send(a)
    PROVE  PeersInv'
<1>1. /\ sending[a] > 0 /\ sending' = [sending EXCEPT ![a] = @ - 1]
      /\ peer_queue' = Append(peer_queue, a)
      /\ UNCHANGED <<states, stats, adder, permits, task, sleeping, finished, sweep, adds, bugs>>
  BY DEF peer_queue_send
<1>2. sending' \in [Addrs -> Nat] /\ \A b \in Addrs \ {a} : sending'[b] = sending[b]
  BY <1>1 DEF PeersInv, PeersTypeOK
<1>3. peer_queue' \in Seq(Addrs) /\ \A b : Waiting(b)' <=> Waiting(b) \/ b = a
  BY <1>1, QueueFacts DEF PeersInv, PeersTypeOK, Waiting
<1>4. PeersTypeOK' /\ PermitsMatch' /\ StatsMatch'
  BY <1>1, <1>2, <1>3 DEF PeersInv, PeersTypeOK, PermitsMatch, Holders, StatsMatch
<1>5. Attended'
  <2>1. \A b, st : Has(b, st)' <=> Has(b, st)
    BY <1>1 DEF Has
  <2>2. \A b \in Addrs : sending[b] > 0 \/ Waiting(b) => (sending[b] > 0 \/ Waiting(b))'
    BY <1>2, <1>3
  <2> QED BY <1>1, <2>1, <2>2 DEF PeersInv, Attended
<1>6. EntryOfTask' /\ OneTaskPerAddress'
  BY <1>1 DEF PeersInv, EntryOfTask, OneTaskPerAddress, Exhausted
<1> QED BY <1>4, <1>5, <1>6 DEF PeersInv

\* A backoff ends: a dead entry is queued again.
LEMMA BackoffKeeps ==
    ASSUME PeersInv, NEW a \in Addrs, dead_to_queued(a)
    PROVE  PeersInv'
<1>1. /\ sleeping[a] > 0 /\ sleeping' = [sleeping EXCEPT ![a] = @ - 1]
      /\ UNCHANGED <<peer_queue, adder, permits, task, finished, sweep, adds>>
      /\ bugs' = IF states[a] = "none" THEN bugs \cup {"disappeared"} ELSE bugs
  BY DEF dead_to_queued
<1>0. bugs' \subseteq Bugs
  BY <1>1 DEF PeersInv, PeersTypeOK, Bugs
<1>2. /\ sleeping' \in [Addrs -> Nat] /\ bugs' \subseteq Bugs
      /\ \A b \in Addrs \ {a} : sleeping'[b] = sleeping[b]
  BY <1>0, <1>1 DEF PeersInv, PeersTypeOK
<1>3. \A b, st : (Has(b, st)' <=> Has(b, st)) /\ (Waiting(b)' <=> Waiting(b))
  BY <1>1 DEF Has, Waiting
<1>4. CASE states[a] = "dead"
  <2>1. set(a, "queued") /\ sending' = [sending EXCEPT ![a] = @ + 1]
    BY <1>4 DEF dead_to_queued
  <2>2. /\ states' \in [Addrs -> Entries \cup {"none"}] /\ stats' \in [Entries -> Int]
        /\ states'[a] = "queued" /\ \A b \in Addrs \ {a} : states'[b] = states[b]
        /\ StatsMatch'
    BY <2>1, SetFacts DEF PeersInv, Entries
  <2>3. sending' \in [Addrs -> Nat] /\ sending'[a] > 0 /\ \A b \in Addrs \ {a} : sending'[b] = sending[b]
    BY <2>1 DEF PeersInv, PeersTypeOK
  <2>4. PeersTypeOK' /\ PermitsMatch'
    BY <1>1, <1>2, <2>2, <2>3 DEF PeersInv, PeersTypeOK, PermitsMatch, Holders
  <2>5. Attended'
    BY <1>1, <1>2, <1>3, <2>2, <2>3 DEF PeersInv, Attended, Active
  <2>6. OneTaskPerAddress'
    BY <1>1 DEF PeersInv, OneTaskPerAddress, Exhausted
  <2>7. EntryOfTask'
    <3>1. \A u \in Tasks : ~Exhausted /\ task[u].st = "running" => task[u].addr \in Addrs \ {a}
      BY <1>4 DEF PeersInv, PeersTypeOK, EntryOfTask, Active
    <3>2. Exhausted' = Exhausted
      BY <1>1 DEF Exhausted
    <3> QED BY <1>1, <1>2, <2>2, <3>1, <3>2 DEF PeersInv, EntryOfTask
  <2> QED BY <2>2, <2>4, <2>5, <2>6, <2>7 DEF PeersInv
<1>5. CASE states[a] # "dead"
  <2>1. UNCHANGED <<states, stats, sending>>
    BY <1>5 DEF dead_to_queued
  <2>2. PeersTypeOK' /\ PermitsMatch' /\ StatsMatch'
    BY <1>1, <1>2, <2>1 DEF PeersInv, PeersTypeOK, PermitsMatch, Holders, StatsMatch
  <2>3. Attended'
    BY <1>1, <1>2, <1>3, <1>5, <2>1 DEF PeersInv, Attended
  <2>4. EntryOfTask' /\ OneTaskPerAddress'
    BY <1>1, <1>2, <2>1 DEF PeersInv, PeersTypeOK, EntryOfTask, OneTaskPerAddress, Exhausted
  <2> QED BY <2>2, <2>3, <2>4 DEF PeersInv
<1> QED BY <1>4, <1>5

\* disconnect_all_peers_that_have_full_torrent, after the end of the torrent.
LEMMA SweepKeeps ==
    ASSUME PeersInv, NEW a \in Addrs, disconnect_if_full(a)
    PROVE  PeersInv'
<1>1. /\ a \in sweep /\ sweep' = sweep \ {a} /\ finished
      /\ UNCHANGED <<peer_queue, sending, adder, permits, task, sleeping, finished, adds, bugs>>
  BY DEF disconnect_if_full, PeersInv, EntryOfTask
<1>2. \A b, st : (Has(b, st)' <=> Has(b, st)) /\ (Waiting(b)' <=> Waiting(b))
  BY <1>1 DEF Has, Waiting
<1>3. CASE states[a] = "live" /\ set(a, "not_needed")
  <2>1. /\ states' \in [Addrs -> Entries \cup {"none"}] /\ stats' \in [Entries -> Int]
        /\ states'[a] = "not_needed" /\ \A b \in Addrs \ {a} : states'[b] = states[b]
        /\ StatsMatch'
    BY <1>3, SetFacts DEF PeersInv, Entries
  <2>2. PeersTypeOK' /\ PermitsMatch'
    BY <1>1, <2>1 DEF PeersInv, PeersTypeOK, PermitsMatch, Holders
  <2>3. Attended'
    BY <1>1, <1>2, <2>1 DEF PeersInv, Attended, Active
  <2>4. EntryOfTask' /\ OneTaskPerAddress'
    BY <1>1, <2>1 DEF PeersInv, PeersTypeOK, EntryOfTask, OneTaskPerAddress, Exhausted, Active
  <2> QED BY <2>1, <2>2, <2>3, <2>4 DEF PeersInv
<1>4. CASE UNCHANGED <<states, stats>>
  <2>1. PeersTypeOK' /\ PermitsMatch' /\ StatsMatch'
    BY <1>1, <1>4 DEF PeersInv, PeersTypeOK, PermitsMatch, Holders, StatsMatch
  <2>2. Attended'
    BY <1>1, <1>2, <1>4 DEF PeersInv, Attended
  <2>3. EntryOfTask' /\ OneTaskPerAddress'
    BY <1>1, <1>4 DEF PeersInv, EntryOfTask, OneTaskPerAddress, Exhausted
  <2> QED BY <2>1, <2>2, <2>3 DEF PeersInv
<1> QED BY <1>3, <1>4 DEF disconnect_if_full

\* The adder takes an address; when finished, the entry is marked whatever it is.
LEMMA RecvKeeps ==
    ASSUME PeersInv, peer_adder_recv
    PROVE  PeersInv'
<1> DEFINE a == Head(peer_queue)
<1>1. /\ adder = NoAddr /\ peer_queue # <<>> /\ peer_queue' = Tail(peer_queue)
      /\ UNCHANGED <<sending, permits, task, sleeping, finished, sweep, adds, bugs>>
  BY DEF peer_adder_recv
<1>2. a \in Addrs /\ peer_queue' \in Seq(Addrs) /\ \A b : Waiting(b) => Waiting(b)' \/ b = a
  BY <1>1, QueueFacts DEF PeersInv, PeersTypeOK, Waiting
<1>3. \A b, st : Has(b, st)' <=> Has(b, st)
  BY <1>1 DEF Has
<1>4. NoAddr \notin Addrs
  BY PeersAssumption
<1>5. CASE finished /\ states[a] # "none"
  <2>1. set(a, "not_needed") /\ UNCHANGED adder
    BY <1>5 DEF peer_adder_recv
  <2> HIDE DEF a
  <2>2. /\ states' \in [Addrs -> Entries \cup {"none"}] /\ stats' \in [Entries -> Int]
        /\ states'[a] = "not_needed" /\ \A b \in Addrs \ {a} : states'[b] = states[b]
        /\ StatsMatch'
    BY <1>2, <2>1, SetFacts DEF PeersInv, Entries
  <2>3. PeersTypeOK' /\ PermitsMatch'
    BY <1>1, <1>2, <2>1, <2>2 DEF PeersInv, PeersTypeOK, PermitsMatch, Holders
  <2>4. Attended'
    BY <1>1, <1>2, <1>3, <2>1, <2>2 DEF PeersInv, Attended, Active
  <2>5. EntryOfTask' /\ OneTaskPerAddress'
    BY <1>1, <1>2, <1>5, <2>2 DEF PeersInv, PeersTypeOK, EntryOfTask, OneTaskPerAddress, Exhausted
  <2> QED BY <2>2, <2>3, <2>4, <2>5 DEF PeersInv
<1>6. CASE ~finished \/ states[a] = "none"
  <2>1. UNCHANGED <<states, stats>>
    BY <1>6 DEF peer_adder_recv
  <2>2. adder' = a \/ (adder' = NoAddr /\ states[a] = "none")
    BY <1>1, <1>6 DEF peer_adder_recv
  <2> HIDE DEF a
  <2>3. PeersTypeOK' /\ PermitsMatch' /\ StatsMatch'
    BY <1>1, <1>2, <2>1, <2>2 DEF PeersInv, PeersTypeOK, PermitsMatch, Holders, StatsMatch
  <2>4. Attended'
    BY <1>1, <1>2, <1>3, <1>4, <2>1, <2>2 DEF PeersInv, Attended
  <2>5. EntryOfTask' /\ OneTaskPerAddress'
    BY <1>1, <2>1 DEF PeersInv, EntryOfTask, OneTaskPerAddress, Exhausted
  <2> QED BY <2>3, <2>4, <2>5 DEF PeersInv
<1> QED BY <1>5, <1>6

\* The last piece is counted.
LEMMA FinishKeeps ==
    ASSUME PeersInv, finish
    PROVE  PeersInv'
<1>1. /\ finished' = TRUE /\ sweep' = Addrs
      /\ UNCHANGED <<states, stats, peer_queue, sending, adder, permits, task, sleeping, adds, bugs>>
  BY DEF finish
<1>2. \A b, st : (Has(b, st)' <=> Has(b, st)) /\ (Waiting(b)' <=> Waiting(b))
  BY <1>1 DEF Has, Waiting
<1>3. PeersTypeOK' /\ PermitsMatch' /\ StatsMatch'
  BY <1>1 DEF PeersInv, PeersTypeOK, PermitsMatch, Holders, StatsMatch
<1>4. Attended'
  BY <1>1, <1>2 DEF PeersInv, Attended
<1>5. EntryOfTask' /\ OneTaskPerAddress'
  BY <1>1 DEF PeersInv, EntryOfTask, OneTaskPerAddress, Exhausted
<1> QED BY <1>3, <1>4, <1>5 DEF PeersInv

\* The adder has a permit and starts the connection.
LEMMA SpawnKeeps ==
    ASSUME PeersInv, NEW t \in Tasks, peer_adder_spawn(t)
    PROVE  PeersInv'
<1>1. /\ adder # NoAddr /\ permits > 0 /\ task[t].st = "unused" /\ permits' = permits - 1
      /\ adder' = NoAddr /\ task' = [task EXCEPT ![t] = [st |-> "spawned", addr |-> adder]]
      /\ UNCHANGED <<states, stats, peer_queue, sending, sleeping, finished, sweep, adds, bugs>>
  BY DEF peer_adder_spawn, Unused
<1>2. adder \in Addrs
  BY <1>1 DEF PeersInv, PeersTypeOK
<1>3. /\ task' \in [Tasks -> [st : TaskStates, addr : Addrs \cup {NoAddr}]]
      /\ \A u \in Tasks : task'[u].st = "unused" \/ task'[u].addr \in Addrs
      /\ task'[t].st = "spawned" /\ task'[t].addr = adder
      /\ \A u \in Tasks \ {t} : task'[u] = task[u]
  BY <1>1, <1>2, TaskStarted DEF PeersInv, TaskStates
<1>4. permits' \in Nat /\ permits' = permits + 0 - 1
  BY <1>1 DEF PeersInv, PeersTypeOK
<1>5. PermitsMatch'
  BY <1>1, <1>3, <1>4, PermitsMoved DEF PeersInv, Holds
<1>6. PeersTypeOK' /\ StatsMatch'
  BY <1>1, <1>3, <1>4 DEF PeersInv, PeersTypeOK, StatsMatch
<1>7. /\ \A b, st : Has(b, st) => Has(b, st)' \/ st = "unused"
      /\ \A b : b = adder => Has(b, "spawned")'
  <2>1. \A b, st : Has(b, st) => Has(b, st)' \/ st = "unused"
    BY <1>1, <1>3, HasMoved
  <2>2. \A b : b = adder => Has(b, "spawned")'
    BY <1>3 DEF Has
  <2> QED BY <2>1, <2>2
<1>8. Attended'
  <2>1. \A b : Waiting(b)' <=> Waiting(b)
    BY <1>1 DEF Waiting
  <2> QED BY <1>1, <1>7, <2>1 DEF PeersInv, Attended
<1>9. EntryOfTask' /\ OneTaskPerAddress'
  <2>1. Exhausted' = Exhausted
    BY <1>1, <1>3 DEF Exhausted
  <2> QED BY <1>1, <1>3, <2>1 DEF PeersInv, EntryOfTask, OneTaskPerAddress
<1> QED BY <1>5, <1>6, <1>8, <1>9 DEF PeersInv

\* The connection task starts: its entry is still queued, or the task ends.
LEMMA ConnectingKeeps ==
    ASSUME PeersInv, NEW t \in Tasks, mark_peer_connecting(t)
    PROVE  PeersInv'
<1>1. /\ task[t].st = "spawned"
      /\ UNCHANGED <<peer_queue, sending, adder, sleeping, finished, sweep, adds, bugs>>
  BY DEF mark_peer_connecting
<1>2. PICK a \in Addrs : a = task[t].addr /\ permits \in Nat
  BY <1>1 DEF PeersInv, PeersTypeOK
<1>3. \A b : Waiting(b)' <=> Waiting(b)
  BY <1>1 DEF Waiting
<1>4. CASE states[a] = "queued"
  <2>1. set(a, "connecting") /\ task' = [task EXCEPT ![t].st = "running"] /\ UNCHANGED permits
    BY <1>2, <1>4 DEF mark_peer_connecting
  <2>2. /\ states' \in [Addrs -> Entries \cup {"none"}] /\ stats' \in [Entries -> Int]
        /\ states'[a] = "connecting" /\ \A b \in Addrs \ {a} : states'[b] = states[b]
        /\ StatsMatch'
    BY <1>2, <2>1, SetFacts DEF PeersInv, Entries
  <2>3. /\ task' \in [Tasks -> [st : TaskStates, addr : Addrs \cup {NoAddr}]]
        /\ \A u \in Tasks : task'[u].st = "unused" \/ task'[u].addr \in Addrs
        /\ task'[t].st = "running" /\ task'[t].addr = a
        /\ \A u \in Tasks \ {t} : task'[u] = task[u]
    BY <1>2, <2>1, TaskMoved DEF PeersInv, TaskStates
  <2>4. PermitsMatch'
    BY <1>1, <1>2, <2>1, <2>3, PermitsMoved DEF PeersInv, Holds
  <2>5. PeersTypeOK'
    BY <1>1, <2>1, <2>2, <2>3 DEF PeersInv, PeersTypeOK
  <2>6. \A b, st : Has(b, st) => Has(b, st)' \/ (b = a /\ st = "spawned")
    BY <1>1, <1>2, <2>3, HasMoved
  <2>7. Has(a, "running")'
    BY <2>3 DEF Has
  <2>8. Attended'
    BY <1>1, <1>3, <2>2, <2>6, <2>7 DEF PeersInv, Attended, Active
  <2>9. Exhausted' = Exhausted
    BY <1>1, <2>3 DEF Exhausted
  <2>10. EntryOfTask'
    <3>1. \A u \in Tasks : task[u].st = "running" => task[u].addr \in Addrs
      BY DEF PeersInv, PeersTypeOK
    <3>2. ASSUME ~Exhausted, NEW u \in Tasks, task'[u].st = "running"
          PROVE  \/ states'[task'[u].addr] \in Active
                 \/ finished' /\ states'[task'[u].addr] = "not_needed"
      <4>1. CASE u = t
        BY <2>2, <2>3, <4>1 DEF Active
      <4>2. CASE u # t
        BY <1>1, <2>2, <2>3, <3>1, <3>2, <4>2 DEF PeersInv, EntryOfTask, Active
      <4> QED BY <4>1, <4>2
    <3>3. \A b \in Addrs : ~Exhausted /\ sleeping'[b] > 0 => states'[b] # "none"
      BY <1>1, <2>2 DEF PeersInv, EntryOfTask
    <3> QED BY <1>1, <2>9, <3>2, <3>3 DEF PeersInv, EntryOfTask
  <2>11. \A u \in Tasks : ~Exhausted /\ task[u].st = "running" => task[u].addr # a
    BY <1>4 DEF PeersInv, EntryOfTask, Active
  <2>12. OneTaskPerAddress'
    BY <1>1, <2>3, <2>9, <2>11 DEF PeersInv, OneTaskPerAddress
  <2> QED BY <2>2, <2>4, <2>5, <2>8, <2>10, <2>12 DEF PeersInv
<1>5. CASE states[a] # "queued"
  <2>1. EndTask(t) /\ UNCHANGED <<states, stats>>
    BY <1>2, <1>5 DEF mark_peer_connecting
  <2>2. /\ task' \in [Tasks -> [st : TaskStates, addr : Addrs \cup {NoAddr}]]
        /\ \A u \in Tasks : task'[u].st = "unused" \/ task'[u].addr \in Addrs
        /\ task'[t].st = "done" /\ task'[t].addr = a
        /\ \A u \in Tasks \ {t} : task'[u] = task[u]
    BY <1>2, <2>1, TaskMoved DEF PeersInv, TaskStates, EndTask
  <2>3. permits' = permits + 1 - 0 /\ permits' \in Nat
    BY <1>2, <2>1 DEF EndTask
  <2>4. PermitsMatch'
    BY <1>1, <2>2, <2>3, PermitsMoved DEF PeersInv, Holds
  <2>5. PeersTypeOK' /\ StatsMatch'
    BY <1>1, <2>1, <2>2, <2>3 DEF PeersInv, PeersTypeOK, StatsMatch
  <2>6. \A b, st : Has(b, st) => Has(b, st)' \/ (b = a /\ st = "spawned")
    BY <1>1, <1>2, <2>2, HasMoved
  <2>7. Attended'
    BY <1>1, <1>3, <1>5, <2>1, <2>6 DEF PeersInv, Attended
  <2>8. Exhausted' = Exhausted
    BY <1>1, <2>2 DEF Exhausted
  <2>9. EntryOfTask' /\ OneTaskPerAddress'
    BY <1>1, <2>1, <2>2, <2>8 DEF PeersInv, EntryOfTask, OneTaskPerAddress
  <2> QED BY <2>4, <2>5, <2>7, <2>9 DEF PeersInv
<1> QED BY <1>4, <1>5

\* The handshake.
LEMMA LiveKeeps ==
    ASSUME PeersInv, NEW t \in Tasks, set_peer_live(t)
    PROVE  PeersInv'
<1>1. /\ task[t].st = "running" /\ states[task[t].addr] = "connecting"
      /\ set(task[t].addr, "live")
      /\ UNCHANGED <<peer_queue, sending, adder, permits, task, sleeping, finished, sweep, adds, bugs>>
  BY DEF set_peer_live
<1>2. PICK a \in Addrs : a = task[t].addr
  BY <1>1 DEF PeersInv, PeersTypeOK
<1>3. \A b, st : (Has(b, st)' <=> Has(b, st)) /\ (Waiting(b)' <=> Waiting(b))
  BY <1>1 DEF Has, Waiting
<1>4. /\ states' \in [Addrs -> Entries \cup {"none"}] /\ stats' \in [Entries -> Int]
      /\ states'[a] = "live" /\ \A b \in Addrs \ {a} : states'[b] = states[b]
      /\ StatsMatch'
  BY <1>1, <1>2, SetFacts DEF PeersInv, Entries
<1>5. PeersTypeOK' /\ PermitsMatch'
  BY <1>1, <1>4 DEF PeersInv, PeersTypeOK, PermitsMatch, Holders
<1>6. Attended'
  BY <1>1, <1>2, <1>3, <1>4 DEF PeersInv, Attended, Active
<1>7. Exhausted' = Exhausted
  BY <1>1 DEF Exhausted
<1>8. EntryOfTask'
  <2>1. \A b \in Addrs : states[b] \in Active \/ b = a => states'[b] \in Active
    BY <1>4 DEF Active
  <2>2. \A b \in Addrs : b # a => states'[b] = states[b]
    BY <1>4
  <2>3. \A u \in Tasks : task[u].st = "unused" \/ task[u].addr \in Addrs
    BY DEF PeersInv, PeersTypeOK
  <2>4. states'[a] # "none" /\ EntryOfTask
    BY <1>4 DEF PeersInv
  <2> QED BY <1>1, <1>7, <2>1, <2>2, <2>3, <2>4 DEF EntryOfTask
<1>9. OneTaskPerAddress'
  BY <1>1, <1>7 DEF PeersInv, OneTaskPerAddress
<1> QED BY <1>4, <1>5, <1>6, <1>8, <1>9 DEF PeersInv

\* A connection from a peer that is not active.
LEMMA IncomingKeeps ==
    ASSUME PeersInv, NEW t \in Tasks, NEW a \in Addrs, add_incoming_peer(t, a)
    PROVE  PeersInv'
<1>1. /\ permits > 0 /\ task[t].st = "unused" /\ states[a] \notin Active
      /\ permits' = permits - 1 /\ set(a, "live")
      /\ task' = [task EXCEPT ![t] = [st |-> "running", addr |-> a]]
      /\ UNCHANGED <<peer_queue, sending, adder, sleeping, finished, sweep, adds, bugs>>
  BY DEF add_incoming_peer, Unused
<1>2. /\ states' \in [Addrs -> Entries \cup {"none"}] /\ stats' \in [Entries -> Int]
      /\ states'[a] = "live" /\ \A b \in Addrs \ {a} : states'[b] = states[b]
      /\ StatsMatch'
  BY <1>1, SetFacts DEF PeersInv, Entries
<1>3. /\ task' \in [Tasks -> [st : TaskStates, addr : Addrs \cup {NoAddr}]]
      /\ \A u \in Tasks : task'[u].st = "unused" \/ task'[u].addr \in Addrs
      /\ task'[t].st = "running" /\ task'[t].addr = a
      /\ \A u \in Tasks \ {t} : task'[u] = task[u]
  BY <1>1, TaskStarted DEF PeersInv, TaskStates
<1>4. permits' \in Nat /\ permits' = permits + 0 - 1
  BY <1>1 DEF PeersInv, PeersTypeOK
<1>5. PermitsMatch'
  BY <1>1, <1>3, <1>4, PermitsMoved DEF PeersInv, Holds
<1>6. PeersTypeOK'
  BY <1>1, <1>2, <1>3, <1>4 DEF PeersInv, PeersTypeOK
<1>7. \A b, st : Has(b, st) => Has(b, st)' \/ st = "unused"
  BY <1>1, <1>3, HasMoved
<1>8. Has(a, "running")'
  BY <1>3 DEF Has
<1>9. \A b : Waiting(b)' <=> Waiting(b)
  BY <1>1 DEF Waiting
<1>10. Attended'
  BY <1>1, <1>2, <1>7, <1>8, <1>9 DEF PeersInv, Attended, Active
<1>11. Exhausted' = Exhausted
  BY <1>1, <1>3 DEF Exhausted
<1>12. EntryOfTask'
  <2>1. \A b \in Addrs : states[b] \in Active \/ b = a => states'[b] \in Active
    BY <1>2 DEF Active
  <2>2. \A b \in Addrs : b # a => states'[b] = states[b]
    BY <1>2
  <2>3. \A u \in Tasks : task[u].st = "unused" \/ task[u].addr \in Addrs
    BY DEF PeersInv, PeersTypeOK
  <2>4. states'[a] # "none" /\ EntryOfTask
    BY <1>2 DEF PeersInv
  <2> QED BY <1>1, <1>3, <1>11, <2>1, <2>2, <2>3, <2>4 DEF EntryOfTask
<1>13. \A u \in Tasks : ~finished /\ ~Exhausted /\ task[u].st = "running" => task[u].addr # a
  BY <1>1 DEF PeersInv, EntryOfTask
<1>14. OneTaskPerAddress'
  BY <1>1, <1>3, <1>11, <1>13 DEF PeersInv, OneTaskPerAddress
<1> QED BY <1>2, <1>5, <1>6, <1>10, <1>12, <1>14 DEF PeersInv

\* What on_peer_died does to its entry: the task is over, or about to drop the
\* entry, and the entry is no longer active.
LEMMA DiedFacts ==
    ASSUME PeersInv, NEW t \in Tasks, NEW error \in BOOLEAN, on_peer_died(t, error),
           NEW a \in Addrs, a = task[t].addr
    PROVE  \/ /\ states[a] = "none" /\ UNCHANGED <<states, stats, sleeping>> /\ EndTask(t)
              /\ bugs' = bugs \cup {"not found in table"}
           \/ /\ set(a, "not_needed") /\ EndTask(t) /\ UNCHANGED <<sleeping, bugs>>
           \/ /\ set(a, "dead") /\ ~finished /\ UNCHANGED bugs
              /\ sleeping' = [sleeping EXCEPT ![a] = @ + 1] /\ EndTask(t)
           \/ /\ set(a, "dead") /\ ~finished
              /\ task' = [task EXCEPT ![t].st = "dropping"] /\ UNCHANGED <<permits, sleeping, bugs>>
           \/ /\ states[a] \in {"queued", "dead"} /\ set(a, "queued")
              /\ task' = [task EXCEPT ![t].st = "dropping"] /\ UNCHANGED <<permits, sleeping>>
              /\ bugs' = bugs \cup {"wrong state"}
<1>1. CASE states[a] = "none"
  BY <1>1 DEF on_peer_died, NotFound, Active
<1>2. CASE states[a] \in {"queued", "dead"}
  BY <1>2 DEF on_peer_died, WrongState, Active
<1>3. CASE states[a] = "not_needed"
  BY <1>3 DEF on_peer_died, NotNeeded, Active
<1>4. CASE states[a] \in Active
  BY <1>4 DEF on_peer_died, NotNeeded, Dead, Active
<1> QED BY <1>1, <1>2, <1>3, <1>4 DEF PeersInv, PeersTypeOK, Entries, Active

\* on_peer_died: the task ends or goes on to drop_peer, and its entry moves with the counters.
LEMMA DiedKeeps ==
    ASSUME PeersInv, NEW t \in Tasks, NEW error \in BOOLEAN, on_peer_died(t, error)
    PROVE  PeersInv'
<1>1. /\ task[t].st = "running"
      /\ UNCHANGED <<peer_queue, sending, adder, finished, sweep, adds>>
  BY DEF on_peer_died
<1>2. PICK a \in Addrs : a = task[t].addr
  BY <1>1 DEF PeersInv, PeersTypeOK
<1>3. permits \in Nat
  BY DEF PeersInv, PeersTypeOK
\* The task and its permit.
<1>4. \/ EndTask(t)
      \/ task' = [task EXCEPT ![t].st = "dropping"] /\ UNCHANGED permits
  BY <1>2, DiedFacts
<1>5. PICK st \in {"done", "dropping"} :
         /\ task' = [task EXCEPT ![t].st = st]
         /\ permits' = permits + 1 - (IF Holds(st) THEN 1 ELSE 0)
  <2>1. CASE EndTask(t)
    BY <1>3, <2>1 DEF EndTask, Holds
  <2>2. CASE task' = [task EXCEPT ![t].st = "dropping"] /\ UNCHANGED permits
    BY <1>3, <2>2 DEF Holds
  <2> QED BY <1>4, <2>1, <2>2
<1>6. /\ task' \in [Tasks -> [st : TaskStates, addr : Addrs \cup {NoAddr}]]
      /\ \A u \in Tasks : task'[u].st = "unused" \/ task'[u].addr \in Addrs
      /\ task'[t].st = st /\ task'[t].addr = a
      /\ \A u \in Tasks \ {t} : task'[u] = task[u]
  BY <1>2, <1>5, TaskMoved DEF PeersInv, TaskStates
<1>7. PermitsMatch' /\ permits' \in Nat
  BY <1>1, <1>3, <1>5, <1>6, PermitsMoved DEF PeersInv, Holds
<1>8. \A b, s : Has(b, s) => Has(b, s)' \/ (b = a /\ s = "running")
  BY <1>1, <1>2, <1>6, HasMoved
<1>9. Has(a, st)'
  BY <1>6 DEF Has
\* The entry and its counters.
<1>10. /\ states' \in [Addrs -> Entries \cup {"none"}] /\ stats' \in [Entries -> Int]
       /\ StatsMatch' /\ \A b \in Addrs \ {a} : states'[b] = states[b]
  <2>1. CASE UNCHANGED <<states, stats>>
    BY <2>1 DEF PeersInv, PeersTypeOK, StatsMatch
  <2>2. CASE \E new \in Entries : set(a, new)
    BY <2>2, SetFacts DEF PeersInv
  <2> QED BY <1>2, <2>1, <2>2, DiedFacts DEF Entries
<1>0. \A new : set(a, new) => states'[a] = new
  BY DEF set, PeersInv, PeersTypeOK
<1>11. \/ states'[a] = "none" /\ states[a] = "none"
       \/ states'[a] = "not_needed"
       \/ states'[a] = "dead" /\ ~finished
       \/ states'[a] = "queued" /\ states[a] \in {"queued", "dead"}
  BY <1>0, <1>2, DiedFacts
<1>12. states'[a] = "queued" => st = "dropping"
  <2>1. "done" # "dropping" /\ task[t] \in [st : TaskStates, addr : Addrs \cup {NoAddr}]
    BY DEF PeersInv, PeersTypeOK
  <2>2. states'[a] = "queued" => task' = [task EXCEPT ![t].st = "dropping"]
    BY <1>0, <1>2, DiedFacts
  <2> QED BY <1>6, <2>1, <2>2 DEF PeersInv, PeersTypeOK
<1>13. /\ sleeping' \in [Addrs -> Nat] /\ \A b \in Addrs \ {a} : sleeping'[b] = sleeping[b]
       /\ sleeping'[a] = sleeping[a] \/ states'[a] = "dead"
  <2>1. CASE UNCHANGED sleeping
    BY <2>1 DEF PeersInv, PeersTypeOK
  <2>2. CASE set(a, "dead") /\ sleeping' = [sleeping EXCEPT ![a] = @ + 1]
    BY <2>2 DEF PeersInv, PeersTypeOK, set
  <2> QED BY <1>2, <2>1, <2>2, DiedFacts
<1>14. states'[a] = "dead" => sleeping'[a] > 0 \/ st = "dropping"
  <2>1. \/ sleeping' = [sleeping EXCEPT ![a] = @ + 1]
        \/ task' = [task EXCEPT ![t].st = "dropping"]
        \/ states'[a] # "dead"
    BY <1>0, <1>2, DiedFacts
  <2>2. CASE sleeping' = [sleeping EXCEPT ![a] = @ + 1]
    BY <2>2 DEF PeersInv, PeersTypeOK
  <2>3. CASE task' = [task EXCEPT ![t].st = "dropping"]
    BY <1>6, <2>3 DEF PeersInv, PeersTypeOK
  <2> QED BY <2>1, <2>2, <2>3
<1>15. bugs' \subseteq Bugs
  BY <1>2, DiedFacts DEF PeersInv, PeersTypeOK, Bugs
<1>16. PeersTypeOK'
  BY <1>1, <1>6, <1>7, <1>10, <1>13, <1>15 DEF PeersInv, PeersTypeOK
<1>17. Attended'
  <2>1. \A b : Waiting(b)' <=> Waiting(b)
    BY <1>1 DEF Waiting
  <2>2. ASSUME NEW b \in Addrs \ {a}
        PROVE  /\ states'[b] \in Active => Has(b, "running")'
               /\ states'[b] = "queued" =>
                    \/ sending'[b] > 0 \/ Waiting(b)' \/ adder' = b
                    \/ Has(b, "spawned")' \/ Has(b, "dropping")'
               /\ states'[b] = "dead" => sleeping'[b] > 0 \/ Has(b, "dropping")'
    BY <1>1, <1>8, <1>10, <1>13, <2>1 DEF PeersInv, Attended
  <2>3. /\ states'[a] \notin Active
        /\ states'[a] = "queued" => Has(a, "dropping")'
        /\ states'[a] = "dead" => sleeping'[a] > 0 \/ Has(a, "dropping")'
    BY <1>9, <1>11, <1>12, <1>14 DEF Active
  <2> QED BY <2>2, <2>3 DEF Attended
\* The other tasks of the address, when no backoff is exhausted.
<1>18. Exhausted => Exhausted'
  BY <1>1, <1>6 DEF Exhausted
<1>19. ~Exhausted' => ~Exhausted /\ st = "done"
  BY <1>6, <1>18 DEF Exhausted
<1>20. OneTaskPerAddress'
  BY <1>1, <1>6, <1>19 DEF PeersInv, OneTaskPerAddress
<1>21. ~Exhausted => states[a] \in Active \/ (finished /\ states[a] = "not_needed")
  BY <1>1, <1>2 DEF PeersInv, EntryOfTask
<1>22. ASSUME ~Exhausted' PROVE finished => states'[a] = "not_needed"
  BY <1>11, <1>19, <1>21, <1>22 DEF Active
<1>23. ASSUME ~Exhausted', NEW u \in Tasks, task'[u].st = "running"
       PROVE  \/ states'[task'[u].addr] \in Active
              \/ finished' /\ states'[task'[u].addr] = "not_needed"
  <2>1. u # t /\ task'[u] = task[u] /\ task[u].addr \in Addrs
    BY <1>6, <1>23 DEF PeersInv, PeersTypeOK
  <2>2. CASE task[u].addr = a
    <3>1. finished
      BY <1>1, <1>2, <1>19, <1>23, <2>1, <2>2 DEF PeersInv, OneTaskPerAddress
    <3> QED BY <1>1, <1>22, <1>23, <2>1, <2>2, <3>1
  <2>3. CASE task[u].addr # a
    BY <1>1, <1>10, <1>19, <1>23, <2>1, <2>3 DEF PeersInv, EntryOfTask
  <2> QED BY <2>2, <2>3
<1>24. ASSUME ~Exhausted', NEW b \in Addrs, sleeping'[b] > 0
       PROVE  states'[b] # "none"
  <2>1. CASE b = a
    BY <1>11, <1>19, <1>21, <1>24, <2>1 DEF Active
  <2>2. CASE b # a
    BY <1>10, <1>13, <1>19, <1>24, <2>2 DEF PeersInv, EntryOfTask
  <2> QED BY <2>1, <2>2
<1>25. EntryOfTask'
  BY <1>1, <1>23, <1>24 DEF PeersInv, EntryOfTask
<1> QED BY <1>7, <1>10, <1>16, <1>17, <1>20, <1>25 DEF PeersInv

\* The entry is dropped after the lock was released.
LEMMA DropKeeps ==
    ASSUME PeersInv, NEW t \in Tasks, drop_peer(t)
    PROVE  PeersInv'
<1>1. /\ task[t].st = "dropping" /\ task' = [task EXCEPT ![t].st = "dropped"]
      /\ permits' = permits + 1
      /\ UNCHANGED <<peer_queue, sending, adder, sleeping, finished, sweep, adds, bugs>>
  BY DEF drop_peer
<1>2. PICK a \in Addrs : a = task[t].addr
  BY <1>1 DEF PeersInv, PeersTypeOK
<1>3. /\ states' \in [Addrs -> Entries \cup {"none"}] /\ stats' \in [Entries -> Int]
      /\ StatsMatch' /\ states'[a] = "none" /\ \A b \in Addrs \ {a} : states'[b] = states[b]
  <2>1. CASE states[a] = "none"
    BY <1>2, <2>1 DEF drop_peer, PeersInv, PeersTypeOK, StatsMatch
  <2>2. CASE states[a] # "none"
    BY <1>2, <2>2, SetFacts DEF drop_peer, PeersInv
  <2> QED BY <2>1, <2>2
<1>4. /\ task' \in [Tasks -> [st : TaskStates, addr : Addrs \cup {NoAddr}]]
      /\ \A u \in Tasks : task'[u].st = "unused" \/ task'[u].addr \in Addrs
      /\ task'[t].st = "dropped" /\ task'[t].addr = a
      /\ \A u \in Tasks \ {t} : task'[u] = task[u]
  BY <1>1, <1>2, TaskMoved DEF PeersInv, TaskStates
<1>5. permits' \in Nat /\ permits' = permits + 1 - 0
  BY <1>1 DEF PeersInv, PeersTypeOK
<1>6. PermitsMatch'
  BY <1>1, <1>4, <1>5, PermitsMoved DEF PeersInv, Holds
<1>7. PeersTypeOK'
  BY <1>1, <1>3, <1>4, <1>5 DEF PeersInv, PeersTypeOK
<1>8. \A b, s : Has(b, s) => Has(b, s)' \/ (b = a /\ s = "dropping")
  BY <1>1, <1>2, <1>4, HasMoved
<1>9. \A b : Waiting(b)' <=> Waiting(b)
  BY <1>1 DEF Waiting
<1>10. Attended'
  BY <1>1, <1>3, <1>8, <1>9 DEF PeersInv, Attended, Active
<1>11. Exhausted'
  BY <1>4 DEF Exhausted
<1>12. EntryOfTask' /\ OneTaskPerAddress'
  BY <1>1, <1>11 DEF PeersInv, EntryOfTask, OneTaskPerAddress
<1> QED BY <1>3, <1>6, <1>7, <1>10, <1>12 DEF PeersInv

-----------------------------------------------------------------------------
(* Theorems *)

\* The inductive invariant.
LEMMA PeersInvHolds == PeersSpec => []PeersInv
<1>1. ASSUME PeersInv, [PeersNext]_peerVars PROVE PeersInv'
  <2>1. CASE UNCHANGED peerVars
    <3>1. PeersTypeOK' /\ StatsMatch' /\ PermitsMatch'
      BY <1>1, <2>1 DEF peerVars, PeersInv, PeersTypeOK, StatsMatch, PermitsMatch, Holders
    <3>2. Attended'
      BY <1>1, <2>1 DEF peerVars, PeersInv, Attended, Has, Waiting
    <3>3. EntryOfTask' /\ OneTaskPerAddress'
      BY <1>1, <2>1 DEF peerVars, PeersInv, EntryOfTask, OneTaskPerAddress, Exhausted
    <3> QED BY <3>1, <3>2, <3>3 DEF PeersInv
  <2>2. CASE \E a \in Addrs : \/ add_if_not_seen(a) \/ peer_queue_send(a)
                              \/ dead_to_queued(a) \/ disconnect_if_full(a)
    BY <1>1, <2>2, AddKeeps, SendKeeps, BackoffKeeps, SweepKeeps
  <2>3. CASE peer_adder_recv \/ finish
    BY <1>1, <2>3, RecvKeeps, FinishKeeps
  <2>4. CASE \E t \in Tasks : \/ peer_adder_spawn(t) \/ mark_peer_connecting(t)
                              \/ set_peer_live(t)
                              \/ \E a \in Addrs : add_incoming_peer(t, a)
                              \/ \E error \in BOOLEAN : on_peer_died(t, error)
                              \/ drop_peer(t)
    BY <1>1, <2>4, SpawnKeeps, ConnectingKeeps, LiveKeeps, IncomingKeeps, DiedKeeps, DropKeeps
  <2> QED BY <1>1, <2>1, <2>2, <2>3, <2>4 DEF PeersNext
<1> QED BY <1>1, PeersInitInv, PTL DEF PeersSpec

\* TaskFor, by the fields of the task.
LEMMA TaskForHas ==
    ASSUME PeersTypeOK, NEW a, NEW st, Has(a, st)
    PROVE  TaskFor(a, st)
<1>1. PICK t \in Tasks : task[t].st = st /\ task[t].addr = a
  BY DEF Has
<1>2. task[t] = [st |-> st, addr |-> a]
  BY <1>1 DEF PeersTypeOK
<1> QED BY <1>2 DEF TaskFor

\* Whichever tasks interleave on the entries, the statistics are the numbers of
\* peers in each state, every permit is accounted for, and the active peers are at
\* most as many as the permits (PeerStateNoMut::set, peer_semaphore).
THEOREM PeerCountsMatch == PeersSpec => []CountsMatch
<1>1. ASSUME PeersInv PROVE CountsMatch
  <2>1. \A a \in Addrs : states[a] \in Active => TaskFor(a, "running")
    BY <1>1, TaskForHas DEF PeersInv, Attended
  <2>2. Cardinality({a \in Addrs : states[a] \in Active}) <= Limit
    BY <1>1, LimitHolds DEF PeersInv
  <2> QED BY <1>1, <2>1, <2>2 DEF PeersInv, CountsMatch, ActiveWithinLimit
<1> QED BY <1>1, PeersInvHolds, PTL

\* No peer is stranded in the table, and none has two connections before the
\* torrent is finished or a backoff exhausted.
THEOREM PeerEntriesHaveTasks == PeersSpec => []EntriesHaveTasks
<1>1. ASSUME PeersInv PROVE EntriesHaveTasks
  <2>1. NoPeerStranded
    BY <1>1, TaskForHas DEF PeersInv, Attended, NoPeerStranded, Waiting
  <2> QED BY <1>1, <2>1 DEF PeersInv, EntriesHaveTasks
<1> QED BY <1>1, PeersInvHolds, PTL

\* The warnings "bug: ..." of on_peer_died and of the backoff task are only logged
\* after the backoff of some peer was exhausted.
THEOREM PeerBugsNeedExhaustion == PeersSpec => BugsNeedExhaustion
<1>1. ASSUME PeersInv, [PeersNext]_peerVars PROVE [bugs' # bugs => Exhausted]_peerVars
  <2> SUFFICES ASSUME bugs' # bugs, ~Exhausted PROVE FALSE
    OBVIOUS
  <2>1. CASE \E a \in Addrs : dead_to_queued(a)
    BY <1>1, <2>1 DEF dead_to_queued, PeersInv, EntryOfTask
  <2>2. CASE \E t \in Tasks, error \in BOOLEAN : on_peer_died(t, error)
    <3>1. PICK t \in Tasks, error \in BOOLEAN : on_peer_died(t, error)
      BY <2>2
    <3>2. task[t].st = "running"
      BY <3>1 DEF on_peer_died
    <3>3. PICK a \in Addrs : a = task[t].addr
      BY <1>1, <3>2 DEF PeersInv, PeersTypeOK
    <3>4. states[a] \in {"none", "queued", "dead"}
      BY <1>1, <3>1, <3>3, DiedFacts
    <3> QED BY <1>1, <3>2, <3>3, <3>4 DEF PeersInv, EntryOfTask, Active
  <2> QED BY <1>1, <2>1, <2>2 DEF PeersNext, peerVars, add_if_not_seen, peer_queue_send,
                                  peer_adder_recv,
               peer_adder_spawn, mark_peer_connecting, set_peer_live, add_incoming_peer, drop_peer,
               finish, disconnect_if_full
<1> QED BY <1>1, PeersInvHolds, PTL DEF PeersSpec, BugsNeedExhaustion

-----------------------------------------------------------------------------
(***************************************************************************)
(* TrackerComms, for every set of trackers, every capacity and every bound *)
(* of rounds and faults: what trackers are told is true, no address is     *)
(* lost when the stream ends, and the exchange goes wrong only for a cause.*)
(***************************************************************************)


-----------------------------------------------------------------------------
(* Sequences *)

\* Taking from the front and adding at the end keep the elements.
LEMMA SeqFacts ==
    ASSUME NEW S, NEW s \in Seq(S)
    PROVE  /\ ToSet(s) \subseteq S
           /\ s # <<>> => /\ Head(s) \in S /\ Tail(s) \in Seq(S)
                          /\ Head(s) \in ToSet(s)
                          /\ ToSet(Tail(s)) \subseteq ToSet(s)
                          /\ Len(Tail(s)) = Len(s) - 1
           /\ \A e \in S : /\ Append(s, e) \in Seq(S)
                           /\ ToSet(Append(s, e)) = ToSet(s) \cup {e}
                           /\ Len(Append(s, e)) = Len(s) + 1
<1>1. ToSet(s) \subseteq S
  BY DEF ToSet
<1>2. ASSUME s # <<>>
      PROVE  /\ Head(s) \in S /\ Tail(s) \in Seq(S)
             /\ Head(s) \in ToSet(s)
             /\ ToSet(Tail(s)) \subseteq ToSet(s)
             /\ Len(Tail(s)) = Len(s) - 1
  BY <1>2 DEF ToSet
<1>3. ASSUME NEW e \in S
      PROVE  /\ Append(s, e) \in Seq(S)
             /\ Len(Append(s, e)) = Len(s) + 1
             /\ ToSet(Append(s, e)) = ToSet(s) \cup {e}
  <2>1. Append(s, e) \in Seq(S) /\ Len(Append(s, e)) = Len(s) + 1
    OBVIOUS
  <2>2. /\ \A i \in 1..Len(s) : Append(s, e)[i] = s[i]
        /\ Append(s, e)[Len(s) + 1] = e
        /\ Len(s) \in Nat
    OBVIOUS
  <2>3. DOMAIN Append(s, e) = DOMAIN s \cup {Len(s) + 1} /\ DOMAIN s = 1..Len(s)
    BY <2>1
  <2> QED BY <2>1, <2>2, <2>3 DEF ToSet
<1> QED BY <1>1, <1>2, <1>3

-----------------------------------------------------------------------------
(* Types *)

\* The event of a UDP announce is one of the protocol, and is "completed" only for
\* a torrent of the session that is complete.
LEMMA EventFacts ==
    ASSUME TrackersTypeOK
    PROVE  /\ udp_event(Stats) \in {"none", "started", "stopped", "completed"}
           /\ udp_event(Stats) = "completed" => torrent.complete
BY DEF TrackersTypeOK, udp_event, Stats

\* A monitor stays one when an action sets its fields.
LEMMA MonitorUpdates ==
    ASSUME NEW m \in Monitors
    PROVE  /\ m.rounds + 1 \in Nat /\ m.tid + 1 \in Nat
           /\ \A n \in Nat : [m EXCEPT !.pc = "connecting", !.tid = n] \in Monitors
           /\ \A n \in Nat, r \in Nat, e \in Told :
                 [m EXCEPT !.pc = "waiting", !.tid = n, !.rounds = r, !.told = e] \in Monitors
           /\ \A r \in Nat, e \in Told :
                 [m EXCEPT !.pc = "waiting", !.rounds = r, !.told = e] \in Monitors
           /\ \A r \in Nat : [m EXCEPT !.pc = "sleep", !.rounds = r] \in Monitors
           /\ [m EXCEPT !.pc = "sleep", !.mismatch = TRUE] \in Monitors
           /\ [m EXCEPT !.pc = "sleep"] \in Monitors
           /\ \A q \in Seq(Peers) : [m EXCEPT !.pc = "sending", !.queue = q] \in Monitors
           /\ \A q \in Seq(Peers) : [m EXCEPT !.queue = q] \in Monitors
<1>1. \A n \in Nat : n + 1 \in Nat
  OBVIOUS
<1> QED BY <1>1 DEF Monitors, Told

\* The types hold at first.
LEMMA InitType == TrackersInit => TrackersTypeOK
<1> SUFFICES ASSUME TrackersInit PROVE TrackersTypeOK
  OBVIOUS
<1>1. <<>> \in Seq(Peers)
  OBVIOUS
<1>2. NewMonitor \in Monitors /\ [NewMonitor EXCEPT !.pc = "absent"] \in Monitors
  BY <1>1 DEF NewMonitor, Monitors, Told
<1> QED BY <1>2, TrackerAssumption DEF TrackersInit, TrackersTypeOK

\* A request is one more of those under way.
LEMMA AskType ==
    ASSUME TrackersTypeOK, NEW t \in Trackers, NEW m \in Requests, Ask(t, m)
    PROVE  requests' \in [Trackers -> Seq(Requests)]
<1>1. Append(requests[t], m) \in Seq(Requests)
  BY SeqFacts DEF TrackersTypeOK
<1> QED BY <1>1 DEF Ask, TrackersTypeOK

\* Whoever takes the first message of its socket finds an answer.
LEMMA TakeType ==
    ASSUME TrackersTypeOK, NEW t \in Trackers, inbox[t] # <<>>,
           inbox' = [inbox EXCEPT ![t] = Tail(@)]
    PROVE  /\ inbox' \in [Trackers -> Seq(Replies)]
           /\ Head(inbox[t]) \in Replies
           /\ Head(inbox[t]).addrs \in Seq(Peers)
           /\ ToSet(Head(inbox[t]).addrs) \subseteq Peers
           /\ Head(inbox[t]) \in ToSet(inbox[t])
           /\ ToSet(inbox'[t]) \subseteq ToSet(inbox[t])
<1>1. /\ inbox[t] \in Seq(Replies)
      /\ inbox \in [Trackers -> Seq(Replies)]
  BY DEF TrackersTypeOK
<1>2. Head(inbox[t]) \in Replies /\ Tail(inbox[t]) \in Seq(Replies)
      /\ Head(inbox[t]) \in ToSet(inbox[t])
      /\ ToSet(Tail(inbox[t])) \subseteq ToSet(inbox[t])
  BY <1>1, SeqFacts
<1>3. inbox' \in [Trackers -> Seq(Replies)] /\ inbox'[t] = Tail(inbox[t])
  BY <1>1, <1>2
<1>4. Head(inbox[t]).addrs \in Seq(Peers)
  BY <1>2 DEF Replies
<1> QED BY <1>2, <1>3, <1>4, SeqFacts

\* A monitor, what it asks, hears and takes over have their types.
LEMMA MonitorType ==
    ASSUME TrackersTypeOK, NEW t \in Trackers, Monitor(t)
    PROVE  TrackersTypeOK'
<1>1. tr[t] \in Monitors /\ tr \in [Trackers -> Monitors]
  BY DEF TrackersTypeOK
<1>2. CASE udp_new(t)
  <2>1. tr' \in [Trackers -> Monitors]
    <3>1. tr[t].tid + 1 \in Nat
      BY <1>1, MonitorUpdates
    <3>2. [tr[t] EXCEPT !.pc = "connecting", !.tid = tr[t].tid + 1] \in Monitors
      BY <1>1, <3>1, MonitorUpdates
    <3>3. [tr[t] EXCEPT !.pc = "ended"] \in Monitors
      BY <1>1 DEF Monitors
    <3> QED BY <1>1, <1>2, <3>2, <3>3 DEF udp_new
  <2>2. [kind |-> "connect", tid |-> tr[t].tid + 1] \in Requests
    BY <1>1 DEF Requests, Monitors
  <2>3. requests' \in [Trackers -> Seq(Requests)]
    BY <1>2, <2>2, AskType DEF udp_new, TrackersTypeOK
  <2> QED BY <1>2, <2>1, <2>3 DEF udp_new, TrackersTypeOK
<1>3. CASE udp_connected(t)
  <2>1. tr' \in [Trackers -> Monitors]
    BY <1>1, <1>3 DEF udp_connected, Monitors
  <2>2. inbox' \in [Trackers -> Seq(Replies)]
    BY <1>3, TakeType DEF udp_connected
  <2> QED BY <1>3, <2>1, <2>2 DEF udp_connected, TrackersTypeOK
<1>4. CASE udp_announce(t)
  <2>1. udp_event(Stats) \in {"none", "started", "stopped", "completed"}
    BY EventFacts
  <2>2. tr' \in [Trackers -> Monitors]
    <3> DEFINE e == udp_event(Stats)
    <3>1. tr[t].tid + 1 \in Nat /\ tr[t].rounds + 1 \in Nat /\ e \in Told
      BY <1>1, <2>1, MonitorUpdates DEF Told
    <3>2. tr' = [tr EXCEPT ![t].pc = "waiting", ![t].tid = @ + 1, ![t].rounds = @ + 1,
                           ![t].told = e]
      BY <1>4 DEF udp_announce
    <3> HIDE DEF e
    <3>3. [tr[t] EXCEPT !.pc = "waiting", !.tid = tr[t].tid + 1, !.rounds = tr[t].rounds + 1,
                        !.told = e] \in Monitors
      BY <1>1, <3>1, MonitorUpdates
    <3> QED BY <1>1, <3>2, <3>3
  <2>3. [kind |-> "announce", tid |-> tr[t].tid + 1] \in Requests
    BY <1>1 DEF Requests, Monitors
  <2>4. requests' \in [Trackers -> Seq(Requests)]
    BY <1>4, <2>3, AskType DEF udp_announce
  <2> QED BY <1>4, <2>2, <2>4 DEF udp_announce, TrackersTypeOK
<1>5. CASE udp_send_error(t)
  <2>1. tr' \in [Trackers -> Monitors]
    <3>1. tr[t].rounds + 1 \in Nat
      BY <1>1, MonitorUpdates
    <3>2. [tr[t] EXCEPT !.pc = "sleep", !.rounds = tr[t].rounds + 1] \in Monitors
      BY <1>1, <3>1, MonitorUpdates
    <3> QED BY <1>1, <1>5, <3>2 DEF udp_send_error
  <2> QED BY <1>5, <2>1 DEF udp_send_error, TrackersTypeOK
<1>6. CASE udp_answer(t) \/ http_answer(t)
  <2> DEFINE m == Head(inbox[t])
  <2>1. inbox[t] # <<>> /\ inbox' = [inbox EXCEPT ![t] = Tail(@)]
    BY <1>6 DEF udp_answer, http_answer
  <2>2. /\ inbox' \in [Trackers -> Seq(Replies)]
        /\ m.addrs \in Seq(Peers) /\ ToSet(m.addrs) \subseteq Peers
    BY <2>1, TakeType
  <2>3. /\ tr' \in {tr,
                    [tr EXCEPT ![t].pc = "sleep"],
                    [tr EXCEPT ![t].pc = "sleep", ![t].mismatch = TRUE],
                    [tr EXCEPT ![t].pc = "sending", ![t].queue = m.addrs]}
        /\ got' \in {got, got \cup ToSet(m.addrs)}
        /\ stream' \in {stream, "panicked"}
        /\ UNCHANGED <<torrent, requests, server, chan, yielded>>
    BY <1>6 DEF udp_answer, http_answer
  <2> HIDE DEF m
  <2>4. tr' \in [Trackers -> Monitors]
    <3>1. /\ [tr[t] EXCEPT !.pc = "sleep"] \in Monitors
          /\ [tr[t] EXCEPT !.pc = "sleep", !.mismatch = TRUE] \in Monitors
          /\ [tr[t] EXCEPT !.pc = "sending", !.queue = m.addrs] \in Monitors
      BY <1>1, <2>2, MonitorUpdates
    <3>2. CASE tr' = tr
      BY <1>1, <3>2
    <3>3. CASE tr' = [tr EXCEPT ![t].pc = "sleep"]
      BY <1>1, <3>1, <3>3
    <3>4. CASE tr' = [tr EXCEPT ![t].pc = "sleep", ![t].mismatch = TRUE]
      BY <1>1, <3>1, <3>4
    <3>5. CASE tr' = [tr EXCEPT ![t].pc = "sending", ![t].queue = m.addrs]
      BY <1>1, <3>1, <3>5
    <3> QED BY <2>3, <3>2, <3>3, <3>4, <3>5
  <2> QED BY <2>2, <2>3, <2>4 DEF TrackersTypeOK
<1>7. CASE http_request(t)
  <2>1. tr' \in [Trackers -> Monitors]
    <3>1. tr[t].rounds + 1 \in Nat
      BY <1>1, MonitorUpdates
    <3>2. tr[t].event \in Told
      BY <1>1 DEF Monitors, Told
    <3>3. [tr[t] EXCEPT !.pc = "waiting", !.rounds = tr[t].rounds + 1, !.told = tr[t].event]
            \in Monitors
      BY <1>1, <3>1, <3>2, MonitorUpdates
    <3> QED BY <1>1, <1>7, <3>3 DEF http_request
  <2>2. [kind |-> "announce", tid |-> 0] \in Requests
    BY DEF Requests
  <2>3. requests' \in [Trackers -> Seq(Requests)]
    BY <1>7, <2>2, AskType DEF http_request
  <2> QED BY <1>7, <2>1, <2>3 DEF http_request, TrackersTypeOK
<1>8. CASE send_addr(t)
  <2>1. tr[t].queue \in Seq(Peers) /\ chan \in Seq(Peers)
    BY <1>1 DEF Monitors, TrackersTypeOK
  <2>2. /\ Tail(tr[t].queue) \in Seq(Peers) /\ Append(chan, Head(tr[t].queue)) \in Seq(Peers)
        /\ Len(Append(chan, Head(tr[t].queue))) = Len(chan) + 1
    BY <1>8, <2>1, SeqFacts DEF send_addr
  <2>3. tr' \in [Trackers -> Monitors]
    BY <1>1, <1>8, <2>2, MonitorUpdates DEF send_addr
  <2>4. chan' \in Seq(Peers) /\ Len(chan') <= Cap
    BY <1>8, <2>1, <2>2, TrackerAssumption DEF send_addr
  <2> QED BY <1>8, <2>3, <2>4 DEF send_addr, TrackersTypeOK, net
<1>9. CASE announced(t) \/ wake(t)
  <2>1. tr' \in [Trackers -> Monitors]
    <3>1. /\ [tr[t] EXCEPT !.pc = "sleep", !.event = "none", !.heard = TRUE] \in Monitors
          /\ [tr[t] EXCEPT !.pc = "announce"] \in Monitors
      BY <1>1 DEF Monitors
    <3> QED BY <1>1, <1>9, <3>1 DEF announced, wake
  <2> QED BY <1>9, <2>1 DEF announced, wake, TrackersTypeOK, net
<1> QED BY <1>2, <1>3, <1>4, <1>5, <1>6, <1>7, <1>8, <1>9 DEF Monitor

\* A tracker answers the first request with its transaction id; it answers with an
\* error only if it has forgotten us.
LEMMA AnswerFacts ==
    ASSUME TrackersTypeOK, NEW t \in Trackers, answer(t)
    PROVE  \E k \in {"connect", "announce", "error"}, as \in Answers \cup {<<>>} :
              /\ inbox' = [inbox EXCEPT ![t] = Append(@, [kind |-> k, tid |-> Head(requests[t]).tid,
                                                          addrs |-> as])]
              /\ k = "error" \/ k = Head(requests[t]).kind
              /\ k = "error" => server[t].forgot
<1> DEFINE m == Head(requests[t])
<1>1. requests[t] # <<>> /\ requests[t] \in Seq(Requests)
  BY DEF answer, TrackersTypeOK
<1>2. m \in Requests
  BY <1>1, SeqFacts
<1>3. m.kind \in {"connect", "announce"}
  BY <1>2 DEF Requests
<1>4. CASE m.kind = "connect"
  BY <1>4 DEF answer
<1>5. CASE m.kind = "announce" /\ server[t].forgot
  BY <1>5 DEF answer
<1>6. CASE m.kind = "announce" /\ ~server[t].forgot
  BY <1>6 DEF answer
<1> QED BY <1>3, <1>4, <1>5, <1>6

\* The trackers and the network send nothing but answers.
LEMMA NetworkType ==
    ASSUME TrackersTypeOK, NEW t \in Trackers, answer(t) \/ fault(t)
    PROVE  TrackersTypeOK'
<1>1. /\ inbox[t] \in Seq(Replies) /\ inbox \in [Trackers -> Seq(Replies)]
      /\ requests[t] \in Seq(Requests) /\ requests \in [Trackers -> Seq(Requests)]
      /\ server \in [Trackers -> [forgot : BOOLEAN, lost : BOOLEAN, doubled : BOOLEAN,
                                  refused : BOOLEAN, garbled : BOOLEAN]]
  BY DEF TrackersTypeOK
<1>2. <<>> \in Seq(Peers)
  OBVIOUS
<1>3. requests[t] # <<>> => /\ [requests EXCEPT ![t] = Tail(@)] \in [Trackers -> Seq(Requests)]
                            /\ Head(requests[t]) \in Requests
  BY <1>1, SeqFacts
<1>4. ASSUME NEW r \in Replies
      PROVE  [inbox EXCEPT ![t] = Append(@, r)] \in [Trackers -> Seq(Replies)]
  <2>1. Append(inbox[t], r) \in Seq(Replies)
    BY <1>1, SeqFacts
  <2> QED BY <1>1, <2>1
<1>5. CASE answer(t)
  <2> DEFINE m == Head(requests[t])
  <2>1. m.tid \in Nat
    BY <1>3, <1>5 DEF answer, Requests
  <2>2. \A k \in {"connect", "announce", "error"} : \A as \in Answers \cup {<<>>} :
            [kind |-> k, tid |-> m.tid, addrs |-> as] \in Replies
    BY <1>2, <2>1, TrackerAssumption DEF Replies
  <2>3. \E r \in Replies : inbox' = [inbox EXCEPT ![t] = Append(@, r)]
    BY <1>5, <2>2, AnswerFacts
  <2>4. inbox' \in [Trackers -> Seq(Replies)]
    BY <2>3, <1>4
  <2>5. requests' \in [Trackers -> Seq(Requests)]
    BY <1>3, <1>5 DEF answer
  <2> QED BY <1>5, <2>4, <2>5 DEF answer, TrackersTypeOK
<1>6. CASE fault(t)
  <2>1. \A k \in {"refused", "error"} : [kind |-> k, tid |-> 0, addrs |-> <<>>] \in Replies
    BY <1>2 DEF Replies
  <2>2. inbox[t] # <<>> => Head(inbox[t]) \in Replies
    BY <1>1, SeqFacts
  <2>3. inbox' \in [Trackers -> Seq(Replies)]
    <3>1. \/ inbox' = inbox
          \/ inbox[t] # <<>> /\ inbox' = [inbox EXCEPT ![t] = Append(@, Head(@))]
          \/ \E k \in {"refused", "error"} :
                inbox' = [inbox EXCEPT ![t] = Append(@, [kind |-> k, tid |-> 0, addrs |-> <<>>])]
      BY <1>6 DEF fault
    <3>2. CASE inbox' = inbox
      BY <1>1, <3>2
    <3>3. CASE inbox[t] # <<>> /\ inbox' = [inbox EXCEPT ![t] = Append(@, Head(@))]
      BY <1>4, <2>2, <3>3
    <3>4. ASSUME NEW k \in {"refused", "error"},
                 inbox' = [inbox EXCEPT ![t] = Append(@, [kind |-> k, tid |-> 0, addrs |-> <<>>])]
          PROVE  inbox' \in [Trackers -> Seq(Replies)]
      <4>1. [kind |-> k, tid |-> 0, addrs |-> <<>>] \in Replies
        BY <2>1
      <4> QED BY <1>4, <3>4, <4>1
    <3> QED BY <3>1, <3>2, <3>3, <3>4
  <2>4. requests' \in [Trackers -> Seq(Requests)]
    BY <1>1, <1>3, <1>6 DEF fault
  <2>5. server' \in [Trackers -> [forgot : BOOLEAN, lost : BOOLEAN, doubled : BOOLEAN,
                                  refused : BOOLEAN, garbled : BOOLEAN]]
    <3> DEFINE S == [forgot : BOOLEAN, lost : BOOLEAN, doubled : BOOLEAN, refused : BOOLEAN,
                   garbled : BOOLEAN]
    <3>1. \A s \in S : /\ [s EXCEPT !.lost = TRUE] \in S /\ [s EXCEPT !.doubled = TRUE] \in S
                       /\ [s EXCEPT !.refused = TRUE] \in S /\ [s EXCEPT !.forgot = TRUE] \in S
                       /\ [s EXCEPT !.garbled = TRUE] \in S
      OBVIOUS
    <3>2. server \in [Trackers -> S] /\ server[t] \in S
      BY <1>1
    <3> HIDE DEF S
    <3>3. server' \in [Trackers -> S]
      BY <1>6, <3>1, <3>2 DEF fault
    <3> QED BY <3>3 DEF S
  <2> QED BY <1>6, <2>3, <2>4, <2>5 DEF fault, TrackersTypeOK
<1> QED BY <1>5, <1>6

\* The torrent goes on, the stream is polled and ends.
LEMMA StreamType ==
    ASSUME TrackersTypeOK, torrent_goes_on \/ yield_addr \/ stream_ends, ToSet(chan) \subseteq got
    PROVE  TrackersTypeOK'
<1>1. CASE torrent_goes_on
  BY <1>1 DEF torrent_goes_on, TrackersTypeOK
<1>2. CASE yield_addr
  <2>1. /\ chan' \in Seq(Peers) /\ Len(chan') <= Cap
        /\ yielded' \subseteq got
    <3>1. /\ chan \in Seq(Peers) /\ Len(chan) <= Cap /\ chan # <<>> /\ yielded \subseteq got
          /\ chan' = Tail(chan) /\ yielded' = yielded \cup {Head(chan)} /\ Cap \in Nat
      BY <1>2, TrackerAssumption DEF yield_addr, TrackersTypeOK
    <3>2. Tail(chan) \in Seq(Peers) /\ Len(Tail(chan)) = Len(chan) - 1 /\ Head(chan) \in ToSet(chan)
      BY <3>1, SeqFacts
    <3> QED BY <3>1, <3>2
  <2> QED BY <1>2, <2>1 DEF yield_addr, TrackersTypeOK, net
<1>3. CASE stream_ends
  BY <1>3 DEF stream_ends, TrackersTypeOK, net
<1> QED BY <1>1, <1>2, <1>3

-----------------------------------------------------------------------------
(* What trackers are told *)

\* A monitor says "started" until it was heard, and "completed" only if so.
LEMMA MonitorEvents ==
    ASSUME TrackersTypeOK, EventsTrue, NEW t \in Trackers, Monitor(t)
    PROVE  EventsTrue'
<1>1. /\ tr \in [Trackers -> Monitors] /\ tr[t] \in Monitors
      /\ Udp \cap Http = {} /\ Udp \subseteq Trackers /\ Http \subseteq Trackers
      /\ torrent' = torrent
  BY TrackerAssumption
     DEF TrackersTypeOK, Trackers, Monitor, udp_new, udp_connected, udp_announce, udp_send_error,
         udp_answer, http_request, http_answer, send_addr, announced, wake
<1> USE DEF EventsTrue, CompletedIsTrue, StartedUntilHeard, EventUntilHeard, Monitors
<1>2. CASE t \in Udp /\ udp_new(t)
  <2>1. tr'[t].told = tr[t].told /\ \A u \in Trackers \ {t} : tr'[u] = tr[u]
    BY <1>1, <1>2 DEF udp_new
  <2>2. (\A u \in Http : tr'[u] = tr[u]) /\ (\A u \in Udp : tr'[u].told = tr[u].told)
    BY <1>1, <1>2, <2>1
  <2> HIDE DEF Monitors
  <2> QED BY <1>1, <2>2
<1>3. CASE t \in Udp /\ udp_connected(t)
  BY <1>1, <1>3 DEF udp_connected
<1>4. CASE t \in Udp /\ udp_announce(t)
  BY <1>1, <1>4, EventFacts DEF udp_announce
<1>5. CASE t \in Udp /\ udp_send_error(t)
  BY <1>1, <1>5 DEF udp_send_error
<1>6. CASE t \in Udp /\ udp_answer(t)
  <2>1. tr'[t].told = tr[t].told /\ \A u \in Trackers \ {t} : tr'[u] = tr[u]
    BY <1>1, <1>6 DEF udp_answer
  <2>2. (\A u \in Http : tr'[u] = tr[u]) /\ (\A u \in Udp : tr'[u].told = tr[u].told)
    BY <1>1, <1>6, <2>1
  <2> HIDE DEF Monitors
  <2> QED BY <1>1, <2>2
<1>7. CASE t \in Http /\ http_request(t)
  BY <1>1, <1>7 DEF http_request
<1>8. CASE t \in Http /\ http_answer(t)
  <2>1. /\ tr'[t].pc # "waiting" /\ tr'[t].event = tr[t].event /\ tr'[t].heard = tr[t].heard
        /\ \A u \in Trackers \ {t} : tr'[u] = tr[u]
    BY <1>1, <1>8 DEF http_answer
  <2>2. /\ \A u \in Http \ {t} : tr'[u] = tr[u]
        /\ \A u \in Udp : tr'[u].told = tr[u].told
    BY <1>1, <1>8, <2>1
  <2> HIDE DEF Monitors
  <2> QED BY <1>1, <2>1, <2>2
<1>9. CASE send_addr(t)
  BY <1>1, <1>9 DEF send_addr
<1>10. CASE announced(t)
  BY <1>1, <1>10 DEF announced
<1>11. CASE wake(t)
  BY <1>1, <1>11 DEF wake
<1> QED BY <1>2, <1>3, <1>4, <1>5, <1>6, <1>7, <1>8, <1>9, <1>10, <1>11 DEF Monitor

\* Nothing else makes what they were told untrue: a complete torrent stays so.
LEMMA OtherEvents ==
    ASSUME EventsTrue, TrackersTypeOK,
           \/ torrent_goes_on \/ yield_addr \/ stream_ends
           \/ \E t \in Trackers : answer(t) \/ fault(t)
    PROVE  EventsTrue'
<1>1. tr' = tr /\ (torrent.complete => torrent'.complete)
  BY DEF torrent_goes_on, yield_addr, stream_ends, answer, fault, TrackersTypeOK
<1> QED BY <1>1 DEF EventsTrue, CompletedIsTrue, StartedUntilHeard, EventUntilHeard

-----------------------------------------------------------------------------
(* The end of the stream *)

\* A future that has announced never ends.
LEMMA MonitorLosesNothing ==
    ASSUME TrackersTypeOK, NothingLostAtEnd, NEW t \in Trackers, Monitor(t)
    PROVE  NothingLostAtEnd'
<1> DEFINE Going == {"announce", "waiting", "sending", "sleep"}
<1>1. /\ tr \in [Trackers -> Monitors] /\ tr[t] \in Monitors
      /\ stream = "open" /\ yielded' = yielded
  BY DEF TrackersTypeOK, Polled, Monitor, udp_new, udp_connected, udp_announce, udp_send_error,
         udp_answer, http_request, http_answer, send_addr, announced, wake
<1>2. stream' # "ended"
  BY <1>1 DEF Monitor, udp_new, udp_connected, udp_announce, udp_send_error,
         udp_answer, http_request, http_answer, send_addr, announced, wake
<1>3. \A u \in Trackers \ {t} : tr'[u] = tr[u]
  BY <1>1 DEF Monitor, udp_new, udp_connected, udp_announce, udp_send_error,
         udp_answer, http_request, http_answer, send_addr, announced, wake
<1>4. tr[t].pc \in Going => tr'[t].pc \in Going
  <2>1. CASE udp_new(t)
    BY <1>1, <2>1 DEF udp_new, Monitors
  <2>2. CASE udp_connected(t)
    BY <1>1, <2>2 DEF udp_connected, Monitors
  <2>3. CASE udp_announce(t)
    BY <1>1, <2>3 DEF udp_announce, Monitors
  <2>4. CASE udp_send_error(t)
    BY <1>1, <2>4 DEF udp_send_error, Monitors
  <2>5. CASE udp_answer(t)
    BY <1>1, <2>5 DEF udp_answer, Monitors
  <2>6. CASE http_request(t) \/ http_answer(t)
    BY <1>1, <2>6 DEF http_request, http_answer, Monitors
  <2>7. CASE send_addr(t) \/ announced(t) \/ wake(t)
    BY <1>1, <2>7 DEF send_addr, announced, wake, Monitors
  <2> QED BY <2>1, <2>2, <2>3, <2>4, <2>5, <2>6, <2>7 DEF Monitor
<1>5. tr'[t].pc \in Going \/ got' = got
  <2>1. CASE udp_answer(t)
    BY <1>1, <2>1 DEF udp_answer, Monitors
  <2>2. CASE http_answer(t)
    BY <1>1, <2>2 DEF http_answer, Monitors
  <2> QED BY <2>1, <2>2
     DEF Monitor, udp_new, udp_connected, udp_announce, udp_send_error,
         http_request, send_addr, announced, wake
<1>6. got' = {} \/ \E u \in Trackers : tr'[u].pc \in Going
  BY <1>3, <1>4, <1>5 DEF NothingLostAtEnd
<1>7. got \subseteq got' /\ ToSet(tr'[t].queue) \subseteq got'
  <2>1. CASE udp_answer(t) \/ http_answer(t)
    <3>1. \/ tr'[t].queue = tr[t].queue /\ got \subseteq got'
          \/ tr'[t].queue = Head(inbox[t]).addrs /\ got' = got \cup ToSet(Head(inbox[t]).addrs)
      BY <2>1, <1>1 DEF udp_answer, http_answer, Monitors
    <3> QED BY <3>1 DEF NothingLostAtEnd
  <2>2. CASE send_addr(t)
    <3>1. /\ tr'[t].queue = Tail(tr[t].queue) /\ got' = got /\ tr[t].queue # <<>>
          /\ tr[t].queue \in Seq(Peers)
      BY <2>2, <1>1 DEF send_addr, Monitors
    <3>2. ToSet(Tail(tr[t].queue)) \subseteq ToSet(tr[t].queue)
      BY <3>1, SeqFacts
    <3> QED BY <3>1, <3>2 DEF NothingLostAtEnd
  <2>3. CASE ~(udp_answer(t) \/ http_answer(t) \/ send_addr(t))
    <3>1. got' = got /\ tr'[t].queue = tr[t].queue
      BY <2>3, <1>1 DEF Monitor, udp_new, udp_connected, udp_announce, udp_send_error,
         http_request, announced, wake, Monitors
    <3> QED BY <3>1 DEF NothingLostAtEnd
  <2> QED BY <2>1, <2>2, <2>3
<1>8. ToSet(chan') \subseteq got'
  <2>1. CASE send_addr(t)
    <3>1. /\ chan' = Append(chan, Head(tr[t].queue)) /\ got' = got
          /\ tr[t].queue # <<>> /\ tr[t].queue \in Seq(Peers) /\ chan \in Seq(Peers)
      BY <2>1, <1>1 DEF send_addr, Monitors, TrackersTypeOK
    <3>2. Head(tr[t].queue) \in Peers /\ Head(tr[t].queue) \in ToSet(tr[t].queue)
      BY <3>1, SeqFacts
    <3>3. ToSet(Append(chan, Head(tr[t].queue))) = ToSet(chan) \cup {Head(tr[t].queue)}
      BY <3>1, <3>2, SeqFacts
    <3> QED BY <3>1, <3>2, <3>3 DEF NothingLostAtEnd
  <2>2. CASE ~send_addr(t)
    <3>1. chan' = chan
      BY <2>2 DEF Monitor, udp_new, udp_connected, udp_announce, udp_send_error,
         udp_answer, http_request, http_answer, announced, wake
    <3> QED BY <3>1, <1>7 DEF NothingLostAtEnd
  <2> QED BY <2>1, <2>2
<1> QED BY <1>2, <1>3, <1>6, <1>7, <1>8 DEF NothingLostAtEnd

\* Nor is anything lost by the others: the stream ends when all futures have.
LEMMA OtherLosesNothing ==
    ASSUME TrackersTypeOK, NothingLostAtEnd,
           \/ torrent_goes_on \/ yield_addr \/ stream_ends
           \/ \E t \in Trackers : answer(t) \/ fault(t)
    PROVE  NothingLostAtEnd'
<1>1. tr' = tr /\ got' = got
  BY DEF torrent_goes_on, yield_addr, stream_ends, answer, fault
<1>2. CASE torrent_goes_on \/ \E t \in Trackers : answer(t) \/ fault(t)
  <2>1. UNCHANGED <<stream, chan, yielded>>
    BY <1>2 DEF torrent_goes_on, answer, fault
  <2> QED BY <1>1, <2>1 DEF NothingLostAtEnd
<1>3. CASE yield_addr
  <2>1. stream' = "open" /\ chan' = Tail(chan) /\ chan # <<>> /\ chan \in Seq(Peers)
    BY <1>3 DEF yield_addr, Polled, TrackersTypeOK
  <2>2. ToSet(Tail(chan)) \subseteq ToSet(chan)
    BY <2>1, SeqFacts
  <2> QED BY <1>1, <2>1, <2>2 DEF NothingLostAtEnd
<1>4. CASE stream_ends
  <2>1. /\ \A t \in Trackers : tr[t].pc \in {"absent", "ended"}
        /\ chan' = chan /\ yielded' = yielded /\ yielded \subseteq got
    BY <1>4 DEF stream_ends, TrackersTypeOK
  <2>2. got = {}
    BY <2>1 DEF NothingLostAtEnd
  <2> QED BY <1>1, <2>1, <2>2 DEF NothingLostAtEnd
<1> QED BY <1>2, <1>3, <1>4

-----------------------------------------------------------------------------
(* Requests and answers *)

\* Sequences with one element.
LEMMA SingleFacts ==
    \A m : /\ Append(<<>>, m) = <<m>> /\ Tail(<<m>>) = <<>> /\ Head(<<m>>) = m
           /\ <<m>> # <<>> /\ Len(<<m>>) = 1
OBVIOUS

\* What is left of a sequence with one element.
LEMMA TailOfOne ==
    ASSUME NEW S, NEW s \in Seq(S), Len(s) = 1
    PROVE  Tail(s) = <<>>
<1>1. Tail(s) \in Seq(S) /\ Len(Tail(s)) = 0
  OBVIOUS
<1> QED BY <1>1, EmptySeq

\* What another tracker does is nothing to the exchange with u.
LEMMA OthersInStep ==
    ASSUME NEW u \in Udp, InStepAt(u), tr'[u] = tr[u], requests'[u] = requests[u],
           inbox'[u] = inbox[u], server'[u] = server[u]
    PROVE  InStepAt(u)'
BY DEF InStepAt, Awaited

\* A step touches the exchange of one tracker.
LEMMA OneTracker ==
    ASSUME TrackersTypeOK, NEW t \in Trackers, Monitor(t) \/ answer(t) \/ fault(t)
    PROVE  \A u \in Trackers \ {t} :
              /\ tr'[u] = tr[u] /\ requests'[u] = requests[u] /\ inbox'[u] = inbox[u]
              /\ server'[u] = server[u]
BY DEF TrackersTypeOK, Monitor, udp_new, udp_connected, udp_announce, udp_send_error, Ask,
       udp_answer, http_request, http_answer, send_addr, announced, wake, answer, fault, net

\* The exchange with t stays in step when its monitor moves, and no answer is
\* mistaken as long as none was doubled.
LEMMA MonitorInStep ==
    ASSUME TrackersTypeOK, NEW t \in Udp, InStepAt(t), Monitor(t)
    PROVE  InStepAt(t)' /\ (tr'[t].mismatch => tr[t].mismatch \/ server[t].doubled)
<1>1. /\ t \in Trackers /\ t \notin Http
      /\ tr \in [Trackers -> Monitors] /\ tr[t] \in Monitors
      /\ requests \in [Trackers -> Seq(Requests)] /\ requests[t] \in Seq(Requests)
      /\ inbox \in [Trackers -> Seq(Replies)] /\ inbox[t] \in Seq(Replies)
      /\ server'[t] = server[t]
  BY TrackerAssumption
     DEF TrackersTypeOK, Trackers, Monitor, udp_new, udp_connected, udp_announce, udp_send_error,
         udp_answer, send_addr, announced, wake, net
<1>2. inbox[t] # <<>> =>
        \/ server[t].doubled
        \/ /\ requests[t] = <<>> /\ Tail(inbox[t]) = <<>>
           /\ tr[t].pc \in {"connecting", "waiting"}
           /\ \/ Head(inbox[t]).kind \in {"refused", "error"}
              \/ Head(inbox[t]).kind = Awaited(t) /\ Head(inbox[t]).tid = tr[t].tid
  BY <1>1, TailOfOne DEF InStepAt
<1>3. CASE udp_new(t)
  <2>1. (requests[t] = <<>> /\ inbox[t] = <<>>) \/ server[t].doubled
    BY <1>3 DEF udp_new, InStepAt
  <2>2. inbox'[t] = inbox[t] /\ tr'[t].mismatch = tr[t].mismatch
    BY <1>1, <1>3 DEF udp_new, Monitors
  <2>3. \/ requests'[t] = requests[t]
        \/ /\ requests'[t] = Append(requests[t], [kind |-> "connect", tid |-> tr[t].tid + 1])
           /\ tr'[t].pc = "connecting" /\ tr'[t].tid = tr[t].tid + 1
    BY <1>1, <1>3 DEF udp_new, Ask, Monitors
  <2> QED BY <1>1, <2>1, <2>2, <2>3, SingleFacts DEF InStepAt, Awaited
<1>4. CASE udp_connected(t)
  <2>1. /\ inbox[t] # <<>> /\ inbox'[t] = Tail(inbox[t]) /\ requests'[t] = requests[t]
        /\ tr'[t].mismatch = tr[t].mismatch
    BY <1>1, <1>4 DEF udp_connected, Monitors
  <2> QED BY <1>1, <1>2, <2>1 DEF InStepAt
<1>5. CASE udp_announce(t)
  <2>1. (requests[t] = <<>> /\ inbox[t] = <<>>) \/ server[t].doubled
    BY <1>5 DEF udp_announce, InStepAt
  <2>2. /\ inbox'[t] = inbox[t] /\ tr'[t].mismatch = tr[t].mismatch
        /\ requests'[t] = Append(requests[t], [kind |-> "announce", tid |-> tr[t].tid + 1])
        /\ tr'[t].pc = "waiting" /\ tr'[t].tid = tr[t].tid + 1
    BY <1>1, <1>5 DEF udp_announce, Ask, Monitors
  <2> QED BY <1>1, <2>1, <2>2, SingleFacts DEF InStepAt, Awaited
<1>6. CASE udp_send_error(t) \/ send_addr(t) \/ announced(t) \/ wake(t)
  <2>1. (requests[t] = <<>> /\ inbox[t] = <<>>) \/ server[t].doubled
    BY <1>6 DEF udp_send_error, send_addr, announced, wake, InStepAt
  <2>2. inbox'[t] = inbox[t] /\ requests'[t] = requests[t] /\ tr'[t].mismatch = tr[t].mismatch
    BY <1>1, <1>6 DEF udp_send_error, send_addr, announced, wake, net, Monitors
  <2> QED BY <1>1, <2>1, <2>2 DEF InStepAt
<1>7. CASE udp_answer(t)
  <2>1. inbox[t] # <<>> /\ inbox'[t] = Tail(inbox[t]) /\ requests'[t] = requests[t]
    BY <1>1, <1>7 DEF udp_answer
  <2>2. Awaited(t) = "announce"
    BY <1>7 DEF udp_answer, Awaited
  <2>3. tr'[t].mismatch => tr[t].mismatch \/ server[t].doubled
    <3>1. CASE \/ Head(inbox[t]).kind = "connect"
               \/ Head(inbox[t]).kind = "announce" /\ Head(inbox[t]).tid # tr[t].tid
      BY <1>2, <2>1, <2>2, <3>1
    <3>2. ASSUME NEW q, tr' = tr \/ tr' = [tr EXCEPT ![t].pc = "sending", ![t].queue = q]
          PROVE  tr'[t].mismatch = tr[t].mismatch
      BY <1>1, <3>2 DEF Monitors
    <3> QED BY <1>7, <3>1, <3>2 DEF udp_answer
  <2> QED BY <1>1, <1>2, <2>1, <2>3 DEF InStepAt
<1> QED BY <1>1, <1>3, <1>4, <1>5, <1>6, <1>7 DEF Monitor

\* What the network does to one tracker is not undone.
LEMMA ServerFacts ==
    ASSUME TrackersTypeOK, NEW t \in Trackers, answer(t) \/ fault(t)
    PROVE  \A u \in Trackers : /\ server[u].doubled => server'[u].doubled
                               /\ server[u].refused => server'[u].refused
                               /\ server[u].forgot => server'[u].forgot
                               /\ server[u].garbled => server'[u].garbled
<1>1. /\ server \in [Trackers -> [forgot : BOOLEAN, lost : BOOLEAN, doubled : BOOLEAN,
                                  refused : BOOLEAN, garbled : BOOLEAN]]
      /\ \A u \in Trackers \ {t} : server'[u] = server[u]
  BY OneTracker DEF TrackersTypeOK
<1>2. \/ server' = server
      \/ server' = [server EXCEPT ![t].lost = TRUE]
      \/ server' = [server EXCEPT ![t].doubled = TRUE]
      \/ server' = [server EXCEPT ![t].refused = TRUE]
      \/ server' = [server EXCEPT ![t].forgot = TRUE]
      \/ server' = [server EXCEPT ![t].garbled = TRUE]
  BY DEF answer, fault
<1>3. /\ server[t].doubled => server'[t].doubled
      /\ server[t].refused => server'[t].refused
      /\ server[t].forgot => server'[t].forgot
      /\ server[t].garbled => server'[t].garbled
  BY <1>1, <1>2
<1> QED BY <1>1, <1>3

\* It stays in step when the tracker answers, and when something goes wrong.
LEMMA NetworkInStep ==
    ASSUME TrackersTypeOK, NEW t \in Udp, InStepAt(t), answer(t) \/ fault(t)
    PROVE  InStepAt(t)'
<1>1. /\ t \in Trackers /\ tr' = tr
      /\ requests \in [Trackers -> Seq(Requests)] /\ requests[t] \in Seq(Requests)
      /\ inbox \in [Trackers -> Seq(Replies)] /\ inbox[t] \in Seq(Replies)
      /\ server \in [Trackers -> [forgot : BOOLEAN, lost : BOOLEAN, doubled : BOOLEAN,
                                  refused : BOOLEAN, garbled : BOOLEAN]]
  BY DEF TrackersTypeOK, Trackers, answer, fault
<1>2. server[t].doubled => server'[t].doubled
  BY <1>1, ServerFacts
<1>3. requests[t] # <<>> =>
        \/ server[t].doubled
        \/ /\ inbox[t] = <<>> /\ Tail(requests[t]) = <<>>
           /\ tr[t].pc \in {"connecting", "waiting"}
           /\ Head(requests[t]) = [kind |-> Awaited(t), tid |-> tr[t].tid]
  BY SingleFacts DEF InStepAt
<1>4. CASE answer(t)
  <2>1. requests[t] # <<>> /\ requests'[t] = Tail(requests[t])
    BY <1>1, <1>4 DEF answer
  <2>2. PICK r : /\ inbox'[t] = Append(inbox[t], r)
                 /\ r.kind = "error" \/ r.kind = Head(requests[t]).kind
                 /\ r.tid = Head(requests[t]).tid
    <3>1. PICK k \in {"connect", "announce", "error"}, as \in Answers \cup {<<>>} :
             /\ inbox' = [inbox EXCEPT ![t] = Append(@, [kind |-> k, tid |-> Head(requests[t]).tid,
                                                         addrs |-> as])]
             /\ k = "error" \/ k = Head(requests[t]).kind
      BY <1>1, <1>4, AnswerFacts
    <3> DEFINE r == [kind |-> k, tid |-> Head(requests[t]).tid, addrs |-> as]
    <3>2. r.kind = k /\ r.tid = Head(requests[t]).tid /\ inbox'[t] = Append(inbox[t], r)
      BY <1>1, <3>1
    <3> HIDE DEF r
    <3> QED BY <3>1, <3>2
  <2> QED BY <1>1, <1>2, <1>3, <2>1, <2>2, SingleFacts DEF InStepAt, Awaited
<1>5. CASE fault(t)
  <2>1. CASE requests[t] # <<>> /\ requests' = [requests EXCEPT ![t] = Tail(@)] /\ UNCHANGED inbox
    BY <1>1, <1>2, <1>3, <2>1 DEF InStepAt
  <2>2. CASE server'[t].doubled
    BY <2>2 DEF InStepAt
  <2>3. ASSUME NEW k \in {"refused", "error"},
               requests[t] # <<>>, requests' = [requests EXCEPT ![t] = Tail(@)],
               inbox' = [inbox EXCEPT ![t] = Append(@, [kind |-> k, tid |-> 0, addrs |-> <<>>])]
        PROVE  InStepAt(t)'
    <3> DEFINE r == [kind |-> k, tid |-> 0, addrs |-> <<>>]
    <3>1. r.kind \in {"refused", "error"} /\ requests'[t] = Tail(requests[t]) /\ inbox'[t] = Append(inbox[t], r)
      BY <1>1, <2>3
    <3> HIDE DEF r
    <3> QED BY <1>1, <1>2, <1>3, <2>3, <3>1, SingleFacts DEF InStepAt
  <2>4. CASE UNCHANGED <<requests, inbox>>
    BY <1>1, <1>2, <2>4 DEF InStepAt, Awaited
  <2> QED BY <1>1, <1>5, <2>1, <2>2, <2>3, <2>4 DEF fault
<1> QED BY <1>4, <1>5

\* A panic, and an error that is still to be read, have their cause.
LEMMA MonitorCauses ==
    ASSUME TrackersTypeOK, PanicNeedsError, ErrorsHaveCause, NEW t \in Trackers, Monitor(t)
    PROVE  PanicNeedsError' /\ ErrorsHaveCause'
<1>1. /\ inbox \in [Trackers -> Seq(Replies)] /\ server' = server
      /\ \A u \in Trackers \ {t} : inbox'[u] = inbox[u]
  BY OneTracker
     DEF TrackersTypeOK, Monitor, udp_new, udp_connected, udp_announce, udp_send_error,
         udp_answer,
         http_request, http_answer, send_addr, announced, wake, net
<1>2. ToSet(inbox'[t]) \subseteq ToSet(inbox[t])
  <2>1. CASE inbox[t] # <<>> /\ inbox' = [inbox EXCEPT ![t] = Tail(@)]
    BY <2>1, TakeType
  <2>2. CASE inbox' = inbox
    BY <2>2
  <2> QED BY <2>1, <2>2
       DEF Monitor, udp_new, udp_connected, udp_announce, udp_send_error, udp_answer,
           http_request, http_answer, send_addr, announced, wake, net
<1>3. ErrorsHaveCause'
  BY <1>1, <1>2 DEF ErrorsHaveCause
<1>4. PanicNeedsError'
  <2>1. CASE /\ t \in Udp /\ inbox[t] # <<>>
             /\ Head(inbox[t]).kind \in {"refused", "error"}
    <3>1. Head(inbox[t]) \in ToSet(inbox[t])
      <4>1. inbox[t] \in Seq(Replies)
        BY <1>1
      <4> QED BY <4>1, <2>1, SeqFacts
    <3>2. server[t].refused \/ server[t].forgot \/ server[t].garbled
      BY <2>1, <3>1 DEF ErrorsHaveCause
    <3> QED BY <1>1, <2>1, <3>2 DEF PanicNeedsError
  <2>2. CASE stream' = stream
    BY <1>1, <2>2 DEF PanicNeedsError
  <2> QED BY <2>1, <2>2
       DEF Monitor, udp_new, udp_connected, udp_announce, udp_send_error, udp_answer,
           http_request, http_answer, send_addr, announced, wake, net
<1> QED BY <1>3, <1>4

\* The network's faults are their causes.
LEMMA NetworkCauses ==
    ASSUME TrackersTypeOK, PanicNeedsError, ErrorsHaveCause, NEW t \in Trackers,
    answer(t) \/ fault(t)
    PROVE  PanicNeedsError' /\ ErrorsHaveCause'
<1>1. /\ inbox \in [Trackers -> Seq(Replies)] /\ inbox[t] \in Seq(Replies)
      /\ server \in [Trackers -> [forgot : BOOLEAN, lost : BOOLEAN, doubled : BOOLEAN,
                                  refused : BOOLEAN, garbled : BOOLEAN]]
      /\ stream' = stream
      /\ \A u \in Trackers \ {t} : inbox'[u] = inbox[u] /\ server'[u] = server[u]
      /\ inbox'[t] \in Seq(Replies)
  BY OneTracker, NetworkType DEF TrackersTypeOK, answer, fault
<1>2. \A u \in Trackers : /\ server[u].refused => server'[u].refused
                          /\ server[u].forgot => server'[u].forgot
                          /\ server[u].garbled => server'[u].garbled
  BY ServerFacts
<1>3. ASSUME NEW r, inbox'[t] = Append(inbox[t], r), r \in Replies,
             r.kind = "refused" => server'[t].refused,
             r.kind = "error" => server'[t].forgot \/ server'[t].garbled
      PROVE  ErrorsHaveCause'
  <2>1. ToSet(inbox'[t]) = ToSet(inbox[t]) \cup {r}
    <3>1. ToSet(Append(inbox[t], r)) = ToSet(inbox[t]) \cup {r}
      BY <1>1, <1>3, SeqFacts
    <3> QED BY <3>1, <1>3
  <2> QED BY <1>1, <1>2, <1>3, <2>1 DEF ErrorsHaveCause
<1>4. CASE answer(t)
  <2>1. PICK k \in {"connect", "announce", "error"}, as \in Answers \cup {<<>>} :
           /\ inbox' = [inbox EXCEPT ![t] = Append(@, [kind |-> k, tid |-> Head(requests[t]).tid,
                                                       addrs |-> as])]
           /\ k = "error" => server[t].forgot
    BY <1>4, AnswerFacts
  <2> DEFINE r == [kind |-> k, tid |-> Head(requests[t]).tid, addrs |-> as]
  <2>2. r.kind = k /\ inbox'[t] = Append(inbox[t], r)
    BY <1>1, <2>1
  <2>3. r \in Replies
    <3>1. requests[t] # <<>> /\ requests[t] \in Seq(Requests)
      BY <1>4 DEF answer, TrackersTypeOK
    <3>2. Head(requests[t]) \in Requests
      BY <3>1, SeqFacts
    <3>3. Head(requests[t]).tid \in Nat
      BY <3>2 DEF Requests
    <3>4. as \in Seq(Peers)
      <4>1. <<>> \in Seq(Peers) /\ Answers \subseteq Seq(Peers)
        BY TrackerAssumption
      <4> QED BY <4>1, <2>1
    <3> QED BY <2>1, <3>3, <3>4 DEF Replies
  <2> HIDE DEF r
  <2>4. ErrorsHaveCause'
    BY <1>2, <1>3, <2>1, <2>2, <2>3
  <2> QED BY <1>1, <1>2, <2>4 DEF PanicNeedsError, Trackers
<1>5. CASE fault(t)
  <2>1. CASE inbox'[t] = inbox[t]
    BY <1>1, <1>2, <2>1 DEF ErrorsHaveCause, PanicNeedsError, Trackers
  <2>2. CASE inbox[t] # <<>> /\ inbox' = [inbox EXCEPT ![t] = Append(@, Head(@))]
    <3> DEFINE r == Head(inbox[t])
    <3>1. r \in Replies /\ r \in ToSet(inbox[t]) /\ inbox'[t] = Append(inbox[t], r)
      BY <1>1, <2>2, SeqFacts
    <3>2. /\ r.kind = "refused" => server'[t].refused
          /\ r.kind = "error" => server'[t].forgot \/ server'[t].garbled
      BY <1>2, <3>1 DEF ErrorsHaveCause
    <3> HIDE DEF r
    <3>3. ErrorsHaveCause'
      BY <1>3, <3>1, <3>2
    <3> QED BY <1>1, <1>2, <3>3 DEF PanicNeedsError, Trackers
  <2>3. CASE /\ inbox' = [inbox EXCEPT ![t] = Append(@, [kind |-> "refused", tid |-> 0, addrs |-> <<>>])]
             /\ server' = [server EXCEPT ![t].refused = TRUE]
    <3> DEFINE r == [kind |-> "refused", tid |-> 0, addrs |-> <<>>]
    <3>1. r.kind = "refused" /\ inbox'[t] = Append(inbox[t], r) /\ server'[t].refused
      BY <1>1, <2>3
    <3>2. r \in Replies
      <4>1. <<>> \in Seq(Peers)
        OBVIOUS
      <4> QED BY <4>1 DEF Replies
    <3> HIDE DEF r
    <3>3. ErrorsHaveCause'
      BY <1>3, <3>1, <3>2
    <3> QED BY <1>1, <1>2, <3>3 DEF PanicNeedsError, Trackers
  <2>4. CASE /\ inbox' = [inbox EXCEPT ![t] = Append(@, [kind |-> "error", tid |-> 0, addrs |-> <<>>])]
             /\ server' = [server EXCEPT ![t].garbled = TRUE]
    <3> DEFINE r == [kind |-> "error", tid |-> 0, addrs |-> <<>>]
    <3>1. r.kind = "error" /\ inbox'[t] = Append(inbox[t], r) /\ server'[t].garbled
      BY <1>1, <2>4
    <3>2. r \in Replies
      <4>1. <<>> \in Seq(Peers)
        OBVIOUS
      <4> QED BY <4>1 DEF Replies
    <3> HIDE DEF r
    <3>3. ErrorsHaveCause'
      BY <1>3, <3>1, <3>2
    <3> QED BY <1>1, <1>2, <3>3 DEF PanicNeedsError, Trackers
  <2> QED BY <1>1, <1>5, <2>1, <2>2, <2>3, <2>4 DEF fault
<1> QED BY <1>4, <1>5

-----------------------------------------------------------------------------
(* Theorems *)

TrackersInv == FaultsNeedCause /\ NothingLostAtEnd /\ EventsTrue

\* At first nothing was asked.
LEMMA TrackersInitInv == TrackersInit => TrackersInv
<1> SUFFICES ASSUME TrackersInit PROVE TrackersInv
  OBVIOUS
<1>1. TrackersTypeOK
  BY InitType
<1>2. ToSet(<<>>) = {}
  BY DEF ToSet
<1>3. \A t \in Trackers : /\ tr[t].event = "started" /\ tr[t].told = "nothing"
                          /\ tr[t].queue = <<>> /\ tr[t].heard = FALSE /\ tr[t].mismatch = FALSE
                          /\ tr[t].pc \in {"new", "absent"}
  BY DEF TrackersInit, NewMonitor
<1>4. EventsTrue
  BY <1>3 DEF EventsTrue, CompletedIsTrue, StartedUntilHeard, EventUntilHeard, Trackers
<1>5. NothingLostAtEnd
  BY <1>2, <1>3 DEF TrackersInit, NothingLostAtEnd
<1>6. PanicNeedsError /\ ErrorsHaveCause /\ MismatchNeedsDouble /\ InStep
  BY <1>2, <1>3 DEF TrackersInit, PanicNeedsError, ErrorsHaveCause, MismatchNeedsDouble,
                    InStep, InStepAt,
                    Trackers
<1> QED BY <1>1, <1>4, <1>5, <1>6 DEF TrackersInv, FaultsNeedCause

\* Every step keeps the invariant.
LEMMA NextInv ==
    ASSUME TrackersInv, [TrackersNext]_trackerVars
    PROVE  TrackersInv'
<1>1. /\ TrackersTypeOK /\ PanicNeedsError /\ ErrorsHaveCause /\ MismatchNeedsDouble /\ InStep
      /\ NothingLostAtEnd /\ EventsTrue
  BY DEF TrackersInv, FaultsNeedCause
<1>2. ASSUME NEW t \in Trackers, Monitor(t) \/ answer(t) \/ fault(t)
      PROVE  MismatchNeedsDouble' /\ InStep'
  <2>1. \A u \in Trackers \ {t} : /\ tr'[u] = tr[u] /\ requests'[u] = requests[u]
                                  /\ inbox'[u] = inbox[u] /\ server'[u] = server[u]
    BY <1>1, <1>2, OneTracker
  <2>2. \A u \in Udp \ {t} : InStepAt(u)'
    BY <1>1, <2>1, OthersInStep DEF InStep, Trackers
  <2>3. t \in Udp => InStepAt(t)' /\ (tr'[t].mismatch => tr[t].mismatch \/ server[t].doubled)
    <3>1. CASE Monitor(t)
      BY <1>1, <3>1, MonitorInStep DEF InStep
    <3>2. CASE answer(t) \/ fault(t)
      <4>1. tr' = tr
        BY <3>2 DEF answer, fault
      <4> QED BY <1>1, <3>2, <4>1, NetworkInStep DEF InStep
    <3> QED BY <1>2, <3>1, <3>2
  <2>4. server[t].doubled => server'[t].doubled
    <3>1. server \in [Trackers -> [forgot : BOOLEAN, lost : BOOLEAN, doubled : BOOLEAN,
                                   refused : BOOLEAN, garbled : BOOLEAN]]
      BY <1>1 DEF TrackersTypeOK
    <3>2. CASE fault(t)
      BY <3>1, <3>2 DEF fault
    <3>3. CASE server' = server
      BY <3>3
    <3> QED BY <1>2, <3>2, <3>3
       DEF Monitor, udp_new, udp_connected, udp_announce, udp_send_error, udp_answer,
           http_request, http_answer, send_addr, announced, wake, net, answer
  <2> QED BY <1>1, <2>1, <2>2, <2>3, <2>4 DEF InStep, MismatchNeedsDouble, Trackers
<1>3. CASE \E t \in Trackers : Monitor(t)
  BY <1>1, <1>2, <1>3, MonitorType, MonitorCauses, MonitorLosesNothing, MonitorEvents
     DEF TrackersInv, FaultsNeedCause
<1>4. CASE \E t \in Trackers : answer(t) \/ fault(t)
  BY <1>1, <1>2, <1>4, NetworkType, NetworkCauses, OtherLosesNothing, OtherEvents
     DEF TrackersInv, FaultsNeedCause
<1>5. CASE torrent_goes_on \/ yield_addr \/ stream_ends
  <2>1. TrackersTypeOK' /\ NothingLostAtEnd' /\ EventsTrue'
    BY <1>1, <1>5, StreamType, OtherLosesNothing, OtherEvents DEF NothingLostAtEnd
  <2>2. UNCHANGED <<tr, requests, inbox, server>> /\ stream' \in {stream, "ended"}
    BY <1>5 DEF torrent_goes_on, yield_addr, stream_ends, net
  <2>3. PanicNeedsError' /\ ErrorsHaveCause' /\ MismatchNeedsDouble' /\ InStep'
    BY <1>1, <2>2 DEF PanicNeedsError, ErrorsHaveCause, MismatchNeedsDouble, InStep, InStepAt,
                      Awaited
  <2> QED BY <2>1, <2>3 DEF TrackersInv, FaultsNeedCause
<1>6. CASE UNCHANGED trackerVars
  BY <1>1, <1>6
     DEF trackerVars, net, TrackersInv, FaultsNeedCause, TrackersTypeOK, PanicNeedsError,
         ErrorsHaveCause,
         MismatchNeedsDouble, InStep, InStepAt, Awaited, NothingLostAtEnd, EventsTrue,
         CompletedIsTrue, StartedUntilHeard, EventUntilHeard
<1> QED BY <1>3, <1>4, <1>5, <1>6 DEF TrackersNext

\* The invariant of the exchange with the trackers.
LEMMA TrackersInvHolds == TrackersSpec => []TrackersInv
BY TrackersInitInv, NextInv, PTL DEF TrackersSpec

\* Lost, late and doubled datagrams never panic, and without a doubled one no answer
\* is mistaken for another.
THEOREM TrackerFaultsNeedCause == TrackersSpec => []FaultsNeedCause
<1>1. TrackersInv => FaultsNeedCause
  BY DEF TrackersInv
<1> QED BY <1>1, TrackersInvHolds, PTL

\* The stream ends only before any tracker has announced: no address is lost.
THEOREM TrackerLosesNothing == TrackersSpec => []NothingLostAtEnd
<1>1. TrackersInv => NothingLostAtEnd
  BY DEF TrackersInv
<1> QED BY <1>1, TrackersInvHolds, PTL

\* Trackers are told "completed" only of complete torrents, and "started" until one
\* request succeeded.
THEOREM TrackerEventsTrue == TrackersSpec => []EventsTrue
<1>1. TrackersInv => EventsTrue
  BY DEF TrackersInv
<1> QED BY <1>1, TrackersInvHolds, PTL
=============================================================================
