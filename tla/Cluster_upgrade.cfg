\* An upgrade one call of which fails.
SPECIFICATION Spec
CONSTANTS
    Masters <- OneMaster
    Workers <- OneWorker
    Ubuntu = {}
    NamesCertsDir = {TRUE}
    Operations = {"upgrade"}
    MaxOps = 1
    MaxFaults = 1
INVARIANT UpgradeIsTrue
CHECK_DEADLOCK FALSE
