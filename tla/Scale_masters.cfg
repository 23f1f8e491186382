SPECIFICATION FairSpec
CONSTANTS
    Hosts = {"m1", "m2", "m3", "m4", "m5", "w1"}
    Files <- Sizes
INVARIANTS
    TypeOK
    QuorumIsKept
    SuccessIsTrue
PROPERTIES
    MembersAreNotErased
    GrowthSucceeds
