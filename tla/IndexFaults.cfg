CONSTANTS
    Clones = {"c1", "c2", "c3"}
    Sources = {"A", "B"}
    SourceOf <- MCSourceOf
    ModelOf <- MCModelOf
    Paths = {"p", "q", "r"}
    Inputs = {"i1", "i2"}
    Rests = {1, 2}
    Trees <- MCTrees
    MassLimit = 2
    Options = {{}, {"target", "reembed", "allow"}}
    Accessed = {"q"}
    MaxAccess = 1
    Hazards = {"failure", "session", "restore"}
    MaxFaults = 1
    None = None
SPECIFICATION Spec
INVARIANTS IndexMatchesCheckpoint
PROPERTIES CheckpointAdvances
