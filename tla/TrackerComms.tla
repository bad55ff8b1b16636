---------------------------- MODULE TrackerComms ----------------------------
(***************************************************************************)
(* The stream of peer addresses of a torrent (tracker_comms.rs,            *)
(* tracker_comms_udp.rs, tracker_comms_http.rs, make_peer_rx and           *)
(* PeerRxTorrentInfo of session.rs): one future per tracker announces the  *)
(* torrent again and again and sends the addresses it gets to a bounded    *)
(* channel; the futures are polled only while the stream is.  The stream   *)
(* comes after that of the DHT when there is one.                          *)
(*                                                                         *)
(* The trackers and the network are external: requests and answers of UDP  *)
(* trackers may be lost or duplicated, a tracker may be gone (refused) or  *)
(* forget our connection id (it then answers with an error).  A            *)
(* transaction id is random in the code; here every request has its own.   *)
(***************************************************************************)
EXTENDS Naturals, SequencesExt

CONSTANTS
    Udp, Http,      \* trackers
    TrackerSets,    \* the lists of trackers a torrent may have
    Peers,          \* addresses of peers
    Answers,        \* lists of addresses a tracker may answer with
    Cap,            \* capacity of the channel (16 in the code)
    MaxRounds,      \* bound: announces per tracker
    MaxFaults       \* bound: faults of the network and of the trackers

Trackers == Udp \cup Http

ASSUME TrackerAssumption ==
    /\ Udp \cap Http = {}
    /\ TrackerSets \subseteq (SUBSET Trackers) \ {{}}
    /\ Cap \in Nat \ {0}
    /\ {MaxRounds, MaxFaults} \subseteq Nat
    /\ Answers \subseteq Seq(Peers)

VARIABLES
    dht,        \* the session has a DHT
    torrent,    \* state of the torrent in the session, and whether it counts no byte as left
    tr,         \* tracker -> the future of its monitor
    requests,   \* tracker -> requests under way
    inbox,      \* tracker -> what arrived at our socket
    server,     \* tracker -> faults it met: what it forgot, what was lost, duplicated or garbled
    chan,       \* the channel of addresses
    stream,     \* "open", "ended", or "panicked"
    got, yielded,  \* addresses received from trackers; addresses the stream yielded
    faults

net == <<requests, inbox, server, faults>>
trackerVars == <<dht, torrent, tr, net, chan, stream, got, yielded>>

-----------------------------------------------------------------------------
(* What a request says *)

\* PeerRxTorrentInfo::get: a torrent the session does not know (a magnet link that
\* is being resolved) has the default statistics, all zero.
Stats == [state |-> CASE torrent.state = "absent" -> "none"
                      [] torrent.state = "error" -> "none"
                      [] OTHER -> torrent.state,
          completed |-> torrent.state = "absent" \/ torrent.complete]

\* Mutant: the state is looked at last.
udp_event_hasty(s) ==
    IF s.completed THEN "completed"
    ELSE IF s.state = "none" THEN "none" ELSE IF s.state = "paused" THEN "stopped" ELSE "started"

\* The event of a UDP announce.
udp_event(s) ==
    CASE s.state = "none" -> "none"
      [] s.state = "initializing" -> "started"
      [] s.state = "paused" -> "stopped"
      [] s.state = "live" -> IF s.completed THEN "completed" ELSE "started"

\* The session goes on with the torrent meanwhile.
torrent_goes_on ==
    /\ \E s \in {"initializing", "live", "paused", "error"}, c \in BOOLEAN :
        /\ s = "initializing" => torrent.state = "absent"
        /\ s # "initializing" => torrent.state # "absent" /\ torrent.state # s
        /\ c # torrent.complete => c /\ (s = "live" \/ torrent.state = "initializing")
        /\ torrent' = [state |-> s, complete |-> c]
    /\ faults < MaxFaults
    /\ faults' = faults + 1
    /\ UNCHANGED <<dht, tr, requests, inbox, server, chan, stream, got, yielded>>

-----------------------------------------------------------------------------
(* Futures of the trackers *)

NewMonitor == [pc |-> "new", tid |-> 0, event |-> "started", told |-> "nothing", queue |-> <<>>,
               rounds |-> 0, heard |-> FALSE, mismatch |-> FALSE]

\* merge_two_optional_streams chains the streams: this one is polled when the first
\* has ended, and the stream of the DHT does not end.
Polled == stream = "open" /\ ~dht

\* Requests and answers of tracker t after it asks m.
Ask(t, m) == requests' = [requests EXCEPT ![t] = Append(@, m)]

\* UdpTrackerRequester::new up to the answer; no address, no socket: the future ends.
udp_new(t) ==
    /\ Polled /\ tr[t].pc = "new"
    /\ \/ /\ tr' = [tr EXCEPT ![t].pc = "ended"]
          /\ UNCHANGED requests
       \/ /\ tr' = [tr EXCEPT ![t].pc = "connecting", ![t].tid = @ + 1]
          /\ Ask(t, [kind |-> "connect", tid |-> tr[t].tid + 1])
    /\ UNCHANGED <<dht, torrent, inbox, server, faults, chan, stream, got, yielded>>

\* The answer to connect; anything else ends the future.
udp_connected(t) ==
    /\ Polled /\ tr[t].pc = "connecting" /\ inbox[t] # <<>>
    /\ LET m == Head(inbox[t])
       IN  tr' = [tr EXCEPT ![t].pc = IF m.kind = "connect" /\ m.tid = tr[t].tid
                                        THEN "announce" ELSE "ended"]
    /\ inbox' = [inbox EXCEPT ![t] = Tail(@)]
    /\ UNCHANGED <<dht, torrent, requests, server, faults, chan, stream, got, yielded>>

\* Mutant: write_buf is not cleared, the first bytes are those of the last request.
udp_announce_uncleared(t) ==
    /\ Polled /\ tr[t].pc = "announce" /\ tr[t].rounds < MaxRounds
    /\ LET event == udp_event(Stats)
       IN  /\ tr' = [tr EXCEPT ![t].pc = "waiting", ![t].tid = @ + 1, ![t].rounds = @ + 1,
                               ![t].told = event]
           /\ Ask(t, [kind |-> "announce", tid |-> tr[t].tid])
    /\ UNCHANGED <<dht, torrent, inbox, server, faults, chan, stream, got, yielded>>

\* The announce of a UDP tracker is sent.
udp_announce(t) ==
    /\ Polled /\ tr[t].pc = "announce" /\ tr[t].rounds < MaxRounds
    /\ LET event == udp_event(Stats)
       IN  /\ tr' = [tr EXCEPT ![t].pc = "waiting", ![t].tid = @ + 1, ![t].rounds = @ + 1,
                               ![t].told = event]
           /\ Ask(t, [kind |-> "announce", tid |-> tr[t].tid + 1])
    /\ UNCHANGED <<dht, torrent, inbox, server, faults, chan, stream, got, yielded>>

\* The socket refuses the announce, which is an error like a wrong answer.
udp_send_error(t) ==
    /\ Polled /\ tr[t].pc = "announce" /\ tr[t].rounds < MaxRounds
    /\ tr' = [tr EXCEPT ![t].pc = "sleep", ![t].rounds = @ + 1]
    /\ faults < MaxFaults
    /\ faults' = faults + 1
    /\ UNCHANGED <<dht, torrent, requests, inbox, server, chan, stream, got, yielded>>

\* Mutant: an announce that fails ends the future.
udp_answer_ends(t) ==
    /\ Polled /\ t \in Udp /\ tr[t].pc = "waiting" /\ inbox[t] # <<>>
    /\ LET m == Head(inbox[t])
       IN  IF m.kind # "announce" \/ m.tid # tr[t].tid
             THEN tr' = [tr EXCEPT ![t].pc = "ended"] /\ UNCHANGED <<stream, got>>
             ELSE /\ tr' = [tr EXCEPT ![t].pc = "sending", ![t].queue = m.addrs]
                  /\ got' = got \cup ToSet(m.addrs)
                  /\ UNCHANGED stream
    /\ inbox' = [inbox EXCEPT ![t] = Tail(@)]
    /\ UNCHANGED <<dht, torrent, requests, server, faults, chan, yielded>>

\* UdpTrackerRequester::request and announce, the answer: recv and parse are
\* unwrapped (an error answer, or a cut one, does not parse), a wrong transaction id or kind is an
\* error of the announce.
udp_answer(t) ==
    /\ Polled /\ t \in Udp /\ tr[t].pc = "waiting" /\ inbox[t] # <<>>
    /\ LET m == Head(inbox[t])
       IN  \/ /\ m.kind \in {"refused", "error"}
              /\ stream' = "panicked"
              /\ UNCHANGED <<tr, got>>
           \/ /\ m.kind = "connect" \/ (m.kind = "announce" /\ m.tid # tr[t].tid)
              /\ tr' = [tr EXCEPT ![t].pc = "sleep", ![t].mismatch = TRUE]
              /\ UNCHANGED <<stream, got>>
           \/ /\ m.kind = "announce" /\ m.tid = tr[t].tid
              /\ tr' = [tr EXCEPT ![t].pc = "sending", ![t].queue = m.addrs]
              /\ got' = got \cup ToSet(m.addrs)
              /\ UNCHANGED stream
    /\ inbox' = [inbox EXCEPT ![t] = Tail(@)]
    /\ UNCHANGED <<dht, torrent, requests, server, faults, chan, yielded>>

\* task_single_tracker_monitor_http: the request goes out.
http_request(t) ==
    /\ Polled /\ t \in Http /\ tr[t].pc \in {"new", "announce"} /\ tr[t].rounds < MaxRounds
    /\ tr' = [tr EXCEPT ![t].pc = "waiting", ![t].rounds = @ + 1, ![t].told = tr[t].event]
    /\ Ask(t, [kind |-> "announce", tid |-> 0])
    /\ UNCHANGED <<dht, torrent, inbox, server, faults, chan, stream, got, yielded>>

\* tracker_one_request_http: an error is slept on like an answer.
http_answer(t) ==
    /\ Polled /\ t \in Http /\ tr[t].pc = "waiting" /\ inbox[t] # <<>>
    /\ LET m == Head(inbox[t])
       IN  IF m.kind = "announce"
             THEN /\ tr' = [tr EXCEPT ![t].pc = "sending", ![t].queue = m.addrs]
                  /\ got' = got \cup ToSet(m.addrs)
             ELSE tr' = [tr EXCEPT ![t].pc = "sleep"] /\ UNCHANGED got
    /\ inbox' = [inbox EXCEPT ![t] = Tail(@)]
    /\ UNCHANGED <<dht, torrent, requests, server, faults, chan, stream, yielded>>

\* tx.send waits for room in the channel.
send_addr(t) ==
    /\ Polled /\ tr[t].pc = "sending" /\ tr[t].queue # <<>>
    /\ Len(chan) < Cap
    /\ chan' = Append(chan, Head(tr[t].queue))
    /\ tr' = [tr EXCEPT ![t].queue = Tail(@)]
    /\ UNCHANGED <<dht, torrent, net, stream, got, yielded>>

\* All are sent: the announce was a success, and the monitor sleeps.
announced(t) ==
    /\ Polled /\ tr[t].pc = "sending" /\ tr[t].queue = <<>>
    /\ tr' = [tr EXCEPT ![t].pc = "sleep", ![t].event = "none", ![t].heard = TRUE]
    /\ UNCHANGED <<dht, torrent, net, chan, stream, got, yielded>>

\* Mutant: a tracker that never answered well is not asked again.
wake_heard(t) ==
    /\ Polled /\ tr[t].pc = "sleep" /\ tr[t].heard
    /\ tr' = [tr EXCEPT ![t].pc = "announce"]
    /\ UNCHANGED <<dht, torrent, net, chan, stream, got, yielded>>

\* The sleep is over: the interval of the tracker, or what an error costs.
wake(t) ==
    /\ Polled /\ tr[t].pc = "sleep"
    /\ tr' = [tr EXCEPT ![t].pc = "announce"]
    /\ UNCHANGED <<dht, torrent, net, chan, stream, got, yielded>>

-----------------------------------------------------------------------------
(* The stream *)

\* The select of the stream: an address is yielded to the torrent.
yield_addr ==
    /\ Polled /\ chan # <<>>
    /\ chan' = Tail(chan)
    /\ yielded' = yielded \cup {Head(chan)}
    /\ UNCHANGED <<dht, torrent, tr, net, stream, got>>

\* The loop ends with the last future; what is in the channel is dropped.
stream_ends ==
    /\ Polled /\ \A t \in Trackers : tr[t].pc \in {"absent", "ended"}
    /\ stream' = "ended"
    /\ UNCHANGED <<dht, torrent, tr, net, chan, got, yielded>>

-----------------------------------------------------------------------------
(* Trackers and network *)

\* A tracker answers; a UDP tracker that forgot our connection answers with an error,
\* an HTTP tracker may fail at any time.
answer(t) ==
    /\ requests[t] # <<>>
    /\ LET m == Head(requests[t])
           reply(k, as) == [kind |-> k, tid |-> m.tid, addrs |-> as]
       IN  \E r \in CASE m.kind = "connect" -> {reply("connect", <<>>)}
                      [] m.kind = "announce" /\ server[t].forgot -> {reply("error", <<>>)}
                      [] OTHER -> {reply("announce", as) : as \in Answers} :
             inbox' = [inbox EXCEPT ![t] = Append(@, r)]
    /\ requests' = [requests EXCEPT ![t] = Tail(@)]
    /\ UNCHANGED <<dht, torrent, tr, server, faults, chan, stream, got, yielded>>

\* Something goes wrong: a request is lost, an answer comes twice, the tracker is gone
\* for a while, its answer is malformed or longer than the 4096 bytes we read, or it
\* forgets us.
fault(t) ==
    /\ faults < MaxFaults
    /\ faults' = faults + 1
    /\ \/ /\ requests[t] # <<>>
          /\ requests' = [requests EXCEPT ![t] = Tail(@)]
          /\ server' = [server EXCEPT ![t].lost = TRUE]
          /\ UNCHANGED inbox
       \/ /\ t \in Udp /\ inbox[t] # <<>>
          /\ inbox' = [inbox EXCEPT ![t] = Append(@, Head(@))]
          /\ server' = [server EXCEPT ![t].doubled = TRUE]
          /\ UNCHANGED requests
       \/ /\ requests[t] # <<>>
          /\ requests' = [requests EXCEPT ![t] = Tail(@)]
          /\ inbox' = [inbox EXCEPT ![t] = Append(@, [kind |-> "refused", tid |-> 0, addrs |-> <<>>])]
          /\ server' = [server EXCEPT ![t].refused = TRUE]
       \/ /\ requests[t] # <<>>
          /\ requests' = [requests EXCEPT ![t] = Tail(@)]
          /\ inbox' = [inbox EXCEPT ![t] = Append(@, [kind |-> "error", tid |-> 0, addrs |-> <<>>])]
          /\ server' = [server EXCEPT ![t].garbled = TRUE]
       \/ /\ ~server[t].forgot
          /\ server' = [server EXCEPT ![t].forgot = TRUE]
          /\ UNCHANGED <<requests, inbox>>
    /\ UNCHANGED <<dht, torrent, tr, chan, stream, got, yielded>>

-----------------------------------------------------------------------------

TrackersInit ==
    /\ dht \in BOOLEAN
    /\ torrent = [state |-> "absent", complete |-> FALSE]
    /\ \E active \in TrackerSets :
        tr = [t \in Trackers |-> IF t \in active THEN NewMonitor ELSE [NewMonitor EXCEPT !.pc = "absent"]]
    /\ requests = [t \in Trackers |-> <<>>]
    /\ inbox = [t \in Trackers |-> <<>>]
    /\ server = [t \in Trackers |-> [forgot |-> FALSE, lost |-> FALSE, doubled |-> FALSE,
                                     refused |-> FALSE, garbled |-> FALSE]]
    /\ chan = <<>> /\ stream = "open"
    /\ got = {} /\ yielded = {}
    /\ faults = 0

Monitor(t) ==
    \/ t \in Udp /\ (udp_new(t) \/ udp_connected(t) \/ udp_announce(t) \/ udp_send_error(t) \/ udp_answer(t))
    \/ t \in Http /\ (http_request(t) \/ http_answer(t))
    \/ send_addr(t) \/ announced(t) \/ wake(t)

TrackersNext ==
    \/ torrent_goes_on \/ yield_addr \/ stream_ends
    \/ \E t \in Trackers : Monitor(t) \/ answer(t) \/ fault(t)

TrackersSpec == TrackersInit /\ [][TrackersNext]_trackerVars

\* The torrent polls the stream as long as it is live; sleeps end; a tracker
\* answers what it gets.
TrackersFairSpec ==
    /\ TrackersSpec
    /\ WF_trackerVars(yield_addr) /\ WF_trackerVars(stream_ends)
    /\ \A t \in Trackers : SF_trackerVars(send_addr(t)) /\ WF_trackerVars(Monitor(t)) /\ WF_trackerVars(answer(t))

-----------------------------------------------------------------------------
(* Properties *)

\* The state of a monitor, what is asked and what is answered.
Told == {"nothing", "none", "started", "stopped", "completed"}
Monitors == [pc : {"absent", "new", "connecting", "announce", "waiting", "sending", "sleep", "ended"},
             tid : Nat, event : {"started", "none"}, told : Told, queue : Seq(Peers),
             rounds : Nat, heard : BOOLEAN, mismatch : BOOLEAN]
Requests == [kind : {"connect", "announce"}, tid : Nat]
Replies == [kind : {"connect", "announce", "error", "refused"}, tid : Nat, addrs : Seq(Peers)]

\* Every piece of state has its type, and the channel is within its capacity.
TrackersTypeOK ==
    /\ torrent \in [state : {"absent", "initializing", "live", "paused", "error"},
                    complete : BOOLEAN]
    /\ tr \in [Trackers -> Monitors]
    /\ requests \in [Trackers -> Seq(Requests)]
    /\ inbox \in [Trackers -> Seq(Replies)]
    /\ server \in [Trackers -> [forgot : BOOLEAN, lost : BOOLEAN, doubled : BOOLEAN,
                                refused : BOOLEAN, garbled : BOOLEAN]]
    /\ chan \in Seq(Peers) /\ Len(chan) <= Cap
    /\ stream \in {"open", "ended", "panicked"}
    /\ yielded \subseteq got /\ got \subseteq Peers

\* The stream ends only when no address is lost by it, although what is left in the
\* channel is dropped with the last future: a future ends only before it has
\* announced anything, an announce that fails is repeated.
NothingLostAtEnd ==
    /\ stream = "ended" => got = yielded
    /\ stream = "ended" => \A t \in Trackers : tr[t].pc \in {"absent", "ended"}
    /\ got = {} \/ \E t \in Trackers : tr[t].pc \in {"announce", "waiting", "sending", "sleep"}
    /\ ToSet(chan) \subseteq got /\ \A t \in Trackers : ToSet(tr[t].queue) \subseteq got

\* The unwraps of UdpTrackerRequester::request, which take the stream of the torrent
\* down, are reached only when a tracker is gone, sends an error (as one does that
\* has forgotten our connection id) or an answer that does not parse, never by lost,
\* late or doubled datagrams.
PanicNeedsError ==
    stream = "panicked" =>
        \E t \in Udp : server[t].refused \/ server[t].forgot \/ server[t].garbled

\* What arrives is an error only if the tracker is gone, has forgotten us or sent
\* what does not parse.
ErrorsHaveCause ==
    \A t \in Trackers : \A m \in ToSet(inbox[t]) :
        /\ m.kind = "refused" => server[t].refused
        /\ m.kind = "error" => server[t].forgot \/ server[t].garbled

\* An answer is taken for the wrong one only after a datagram was doubled; from then
\* on every answer is one request late.
MismatchNeedsDouble == \A t \in Udp : tr[t].mismatch => server[t].doubled

\* Until then a monitor that does not wait has nothing under way, and one that waits
\* has one request or its answer at most.
Awaited(t) == IF tr[t].pc = "connecting" THEN "connect" ELSE "announce"
InStepAt(t) ==
    \/ server[t].doubled
    \/ requests[t] = <<>> /\ inbox[t] = <<>>
    \/ /\ tr[t].pc \in {"connecting", "waiting"}
       /\ \/ /\ requests[t] = <<[kind |-> Awaited(t), tid |-> tr[t].tid]>>
             /\ inbox[t] = <<>>
          \/ /\ requests[t] = <<>> /\ Len(inbox[t]) = 1
             /\ \/ Head(inbox[t]).kind \in {"refused", "error"}
                \/ Head(inbox[t]).kind = Awaited(t) /\ Head(inbox[t]).tid = tr[t].tid
InStep == \A t \in Udp : InStepAt(t)

\* A tracker is told that the torrent is complete only if the session has it and counts
\* no byte of it as left (a piece that TorrentLive loses is not counted): not
\* while the magnet link is being resolved, when nothing is left because nothing is
\* known.
CompletedIsTrue == \A t \in Udp : tr[t].told = "completed" => torrent.complete

\* An HTTP tracker is told "started" with every request until one succeeded, and not
\* again.
StartedUntilHeard ==
    \A t \in Http : tr[t].pc = "waiting" => (tr[t].told = "started") = ~tr[t].heard

\* It says "started" as long as none succeeded.
EventUntilHeard == \A t \in Http : (tr[t].event = "started") = ~tr[t].heard

\* A tracker is asked again and again, whatever it answers: its monitor stops only
\* if it could not be set up, or something took down the stream, or the answer it
\* waits for was lost (there is no timeout) -- and if the torrent has no DHT.
AnnouncesGoOn ==
    \A t \in Trackers :
        <>(\/ dht \/ tr[t].pc = "absent" \/ stream = "panicked"
           \/ tr[t].pc = "ended" /\ t \in Udp /\ tr[t].rounds = 0
           \/ tr[t].rounds = MaxRounds
           \/ server[t].lost)

\* The exchange with a UDP tracker goes wrong only for the faults that must make it
\* go wrong: a lost, late or doubled datagram does not panic, and without a doubled
\* one no answer is mistaken.
FaultsNeedCause ==
    TrackersTypeOK /\ PanicNeedsError /\ ErrorsHaveCause /\ MismatchNeedsDouble /\ InStep

\* What trackers are told of the torrent is true.
EventsTrue == CompletedIsTrue /\ StartedUntilHeard /\ EventUntilHeard
=============================================================================
