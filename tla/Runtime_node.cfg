SPECIFICATION FairSpec
CONSTANTS
    Containers = {c1}
    NumFiles = 2
    MaxUploads = 2
    MaxSwitches = 1
    MaxFaults = 1
    StdErrLines = {0, 1}
INVARIANTS TypeOK NothingLeftRunning ConfigInEffect RecordedIsLoaded
PROPERTIES StopReturns NewImagesAreLoaded
