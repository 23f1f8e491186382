SPECIFICATION FairSpec
CONSTANTS
    Hosts = {"m1", "m2", "m3", "w1"}
    Files <- UpAndDown
PROPERTIES
    DesiredIsReached
