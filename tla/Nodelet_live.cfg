SPECIFICATION FairSpec
CONSTANTS
    N = 3
    Probed = {0, 1}
    Daemons = {1}
    ApiPhases = {1}
    Ids = {"", "c1", "c2"}
    Configs <- Changing
    FullRetryCount = 2
    NumRetriesForErrorState = 2
    Threshold = 1
PROPERTIES
    Recovers
    DetachedIsStopped
