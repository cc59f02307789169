SPECIFICATION Spec
CONSTANTS
    Runs = {r1}
    Results = {"none", "exit"}
    MaxPolls = 2
    Free = Free
INVARIANTS
    StopIsHeeded
