CONSTANTS
    p0 = p0
    p1 = p1
    g2 = g2
    g3 = g3
    m4 = m4
    m5 = m5
    None = None
    PoPu = {p0}
    PoGe = {g2, g3}
    Memo = {}
    Rules <- BroadcastRules
    Data = {d1}
    StorePtr = {}
    IsCopy = FALSE
    TimedPorts = {}
    PutTimeoutPorts = {}
SPECIFICATION FairSpec
PROPERTIES AnswerArrives
CHECK_DEADLOCK FALSE
