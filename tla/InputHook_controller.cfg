\* OnConnect and OnDisconnect in SetConnected, two edge loops, and the peer's
\* SwitchBack or a secure-desktop monitor.
SPECIFICATION Spec
CONSTANTS
    Starters = {c1}
    Enders = {c2}
    Watchers = {w1}
    Loops = {l1, l2}
    PostFails = FALSE
    NoLoop = NoLoop
INVARIANTS RemoteCanBeAsked HookFollowsSession ReportedUnlessLost ExitIsPosted
SYMMETRY LoopSymmetry
