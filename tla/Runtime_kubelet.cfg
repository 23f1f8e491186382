SPECIFICATION FairSpec
CONSTANTS
    Containers = {}
    NumFiles = 1
    MaxUploads = 0
    MaxSwitches = 0
    MaxFaults = 0
    StdErrLines = {0}
PROPERTY ComesUp
