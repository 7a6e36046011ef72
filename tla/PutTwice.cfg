CONSTANTS
    p0 = p0
    p1 = p1
    g2 = g2
    g3 = g3
    m4 = m4
    m5 = m5
    None = None
    PoPu = {p0, p1}
    PoGe = {g2}
    Memo = {m4}
    Rules <- AlternatorRules
    Data = {d1}
    StorePtr = {s1}
    IsCopy = FALSE
    TimedPorts = {p0, p1}
    PutTimeoutPorts = {p0, p1}
SPECIFICATION Spec
INVARIANTS NoFault
CHECK_DEADLOCK FALSE
