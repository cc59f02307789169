SPECIFICATION FairSpec
CONSTANTS
    Runs = {r1, r2, r3}
    Results = {"none", "exit", "hook"}
    MaxPolls = 3
    Free = Free
INVARIANTS
    TrueMeansReclaimed
    AtMostOneMoreCall
PROPERTIES
    AskedEnds
