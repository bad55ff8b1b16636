CONSTANTS
    u1 = u1
    u2 = u2
    h1 = h1
    Udp = {u1, u2}
    Http = {h1}
    TrackerSets <- MCSets
    Peers = {"p", "q"}
    Answers <- MCAnswers
    Cap = 1
    MaxRounds = 2
    MaxFaults = 2
SPECIFICATION TrackersFairSpec
INVARIANTS NothingLostAtEnd FaultsNeedCause EventsTrue
PROPERTY AnnouncesGoOn
CHECK_DEADLOCK FALSE
