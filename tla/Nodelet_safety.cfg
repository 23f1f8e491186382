SPECIFICATION Spec
CONSTANTS
    N = 3
    Probed = {0, 2}
    Daemons = {2}
    ApiPhases = {}
    Ids = {"", "c1", "c2"}
    Configs <- AllConfigs
    FullRetryCount = 2
    NumRetriesForErrorState = 2
    Threshold = 1
INVARIANTS
    TypeOK
    IndicesInRange
    StartsOnReadyPhases
    StopsFromTheTop
    ServesItsCluster
    ReportIsConsistent
    
    ToleratesShortFailures
PROPERTY
    IsPhaseStack
