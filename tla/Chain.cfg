CONSTANTS
    p0 = p0
    p1 = p1
    g2 = g2
    g3 = g3
    m4 = m4
    m5 = m5
    None = None
    PoPu = {p0}
    PoGe = {g2, g3}
    Memo = {m4, m5}
    Rules <- ChainRules
    Data = {d1}
    StorePtr = {s1, s2}
    IsCopy = TRUE
    TimedPorts = {}
    PutTimeoutPorts = {}
SPECIFICATION FairSpec
INVARIANTS NoFault RefCount SafetyInv InitOnReturn
PROPERTIES ImplementsConnector FiresWhenItCan
