CONSTANTS
    Torrents = {h1, h2}
    Foreign = {h1}
    Options <- EitherOptions
    Deletes = {FALSE}
    MaxAdds = 2
    MaxBoots = 3
    MaxFaults = 1
SPECIFICATION FairSpec
INVARIANTS IdsSound StoredIsKept ClobbersOnlyRestored
PROPERTIES NeverReplaced AddedIsStored
CHECK_DEADLOCK FALSE
