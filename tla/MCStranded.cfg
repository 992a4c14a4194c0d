SPECIFICATION MCSpec
CONSTANTS
    Ticks = {c, d}
    Branches <- MCBranches
    Tags = {"t"}
    Forks <- MCForks
    Named = {"work"}
    NamedTags = {"t"}
    Cuttable = {"late"}
    LEASE = 1
    HOLD = 2
    MaxAge = 1
    MaxHead = 2
    MaxFaults = 1
    MaxChanges = 1
    Verifiers = {"v", "w"}
    Derived = {"d1", "d2"}
    MaxVersion = 4
    MaxFailures = 1
    BranchNames = {"work"}
    TagNames = {"t", "u"}
    Offers <- NoOffers
CHECK_DEADLOCK FALSE
PROPERTY PlanSuffices
