\* Every operation, twice in a row, with one failing call, lost answer, panic or kill.
SPECIFICATION FairSpec
CONSTANTS
    Masters <- ThreeMasters
    Workers <- NoWorkers
    Ubuntu = {}
    NamesCertsDir = {TRUE, FALSE}
    Operations = {"create", "upgrade", "regen", "delete"}
    MaxOps = 2
    MaxFaults = 1
INVARIANTS TypeOK SuccessIsTrue
PROPERTIES  OperationEnds UpgradeIsRepeatable
CHECK_DEADLOCK FALSE
