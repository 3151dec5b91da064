\* One session that ends while its loop is about to enter remote mode.
SPECIFICATION FairSpec
CONSTANTS
    Starters = {c1}
    Enders = {c1}
    Watchers = {w1}
    Loops = {l1}
    PostFails = FALSE
    NoLoop = NoLoop
PROPERTY StoppedLoopEnds
