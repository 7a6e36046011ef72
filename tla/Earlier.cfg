CONSTANTS
    None = None
    Thread = {"t1", "t2"}
    MaxPuts = 3
    MaxEvents = 2
    Putter = {"p", "q", "r"}
    CopyPutters = {"p", "q"}
    Getter = {"g", "h", "i"}
    Group = {"g", "h"}
    Leader = "g"
    GroupedDefs <- MCGroupedDefs
    Ids = {0, 1, 2, 3}
    RacyDefs <- MCRacyDefs
SPECIFICATION FairSpec
INVARIANTS NoFault HeldWhileRead CertainlyReady
PROPERTIES NobodyStuck HandsOver
CHECK_DEADLOCK FALSE
