SPECIFICATION FairSpec
CONSTANTS
    Containers = {}
    NumFiles = 1
    MaxUploads = 1
    MaxSwitches = 0
    MaxFaults = 1
    StdErrLines = {1}
INVARIANT RunningMeansLoaded
