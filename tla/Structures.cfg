CONSTANTS
    PoPu = {0, 4}
    PoGe = {2}
    Memo = {1, 3, 5}
    Rules <- SpreadRules
    W = 2
    StorePtr = {1, 2, 3}
    TypeId = {"word", "handle", "block"}
    Layout = {"small", "large"}
    LayoutOf <- Layouts
    Clonable = {"word", "block"}
    None = "none"
    Defs <- MCDefs
    Inst = {i1, i2}
    Client = {c1}
    Group = {h1}
    Nobody = Nobody
SPECIFICATION StructuresSpec
INVARIANTS GuardExact OperationsExact StorageSound GuardsAnswer BuiltAsDefined RefusedForCause OneOwner GroupedFit
PROPERTIES ImplementsSets
CHECK_DEADLOCK FALSE
