\* Two failures: a registration that fails and one that fails again, or is forgotten meanwhile.
SPECIFICATION FairSpec
CONSTANTS
    MaxFaults = 2
INVARIANTS TypeOK NoClientLeaks
PROPERTIES StopEnds ListedAgain
CHECK_DEADLOCK FALSE
