CONSTANTS
    Requests = {r1, r2, r3}
    Media = {m1}
    Nil = Nil
    Modes = {"append", "staged"}
    Faults = {"overlapMedia", "overlapZone", "csvError"}
    MaxCrash = 0
SPECIFICATION FairSpec
PROPERTIES
    PostsAnswered
    StagingEnds
    StagedFilesReclaimed
CHECK_DEADLOCK FALSE
