CONSTANTS
    None = None
    Cell = {"a", "b"}
    PortId = {"p", "q", "g"}
    Defs <- MCDefs
    PortSets <- MCPortSets
    Var <- MCVar
    Automata <- MCAutomata
    AtomicPorts <- MCAtomicPorts
    Programs <- MCPrograms
SPECIFICATION FairSpec
INVARIANTS PortStepsKept CombinationsExact
PROPERTIES Normalizes
CHECK_DEADLOCK FALSE
