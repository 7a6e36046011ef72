CONSTANTS
    p0 = p0
    p1 = p1
    g2 = g2
    g3 = g3
    m4 = m4
    m5 = m5
    None = None
    PoPu = {p0, p1}
    PoGe = {g2, g3}
    Memo = {m4}
    Rules <- GuardedRules
    Data = {d1, d2}
    StorePtr = {s1}
    IsCopy = FALSE
    TimedPorts = {p1}
    PutTimeoutPorts = {}
SPECIFICATION Spec
INVARIANTS NoFault InitOnReturn NoMissedFiring NoDanglingReader
PROPERTIES ImplementsConnector
