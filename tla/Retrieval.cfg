CONSTANTS
    Clones = {"c1", "c2"}
    Sources = {"A"}
    SourceOf <- MCSourceOf
    ModelOf <- MCModelOf
    Paths = {"p", "q"}
    Inputs = {"i1"}
    Rests = {1, 2}
    Trees <- MCTrees
    MassLimit = 2
    Options = {{"allow"}}
    Accessed = {"p", "q"}
    MaxAccess = 2
    Hazards = {"failure", "session", "restore", "rewind", "reply", "deadline"}
    MaxFaults = 1
    None = None
    Readers = {"r1"}
    CloneOf <- MCCloneOf
    MaxReads = 3
SPECIFICATION RFairSpec
INVARIANTS ReadsCapturedTree CountedOnce
PROPERTIES IndexCatchesUp
