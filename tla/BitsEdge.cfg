CONSTANTS
    PoPu = {0}
    PoGe = {2}
    Memo = {1}
    Rules <- EdgeRules
    W = 2
SPECIFICATION Spec
INVARIANTS GuardExact
