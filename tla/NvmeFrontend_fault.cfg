SPECIFICATION Spec
CONSTANTS
    Cids = {0}
    GenModulus = 4
    TruncModulus = 2
    AdminCommands <- MCCommands
    AdminDepth = 2
    IoDepth = 2
    ProxyMayYield = FALSE
INVARIANTS
    FaultIsTerminal
