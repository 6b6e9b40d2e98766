SPECIFICATION Spec
CONSTANTS
    Nodes <- FourNodes
    EdgeIds <- FourIds
    Graphs <- UpToFour
    Inputs <- FirstNode
INVARIANTS
    TypeOK
    Settled
    DependenciesFirst
PROPERTIES
    ImplementsOrder
    Terminates
CHECK_DEADLOCK FALSE
