SPECIFICATION FairSpec
CONSTANTS
    None = None
    Bursts = 2
    MaxBurst = 2
    Calls = {"submit", "submit_multiple_and_wait"}
    MaxFaults = 2
INVARIANTS
    TypeOK
    ResultsAreTrue
    NoInvalidInclusion
    WaitedForVerification
 
CHECK_DEADLOCK FALSE
