\* Two reconnect loops and the user dial one peer over two routes, while the
\* user leaves and revokes, the machine sleeps, and the peer connects by itself.
SPECIFICATION Spec
CONSTANTS
    Peers = {p}
    NoPeer = NoPeer
    Routes = {1, 2}
    Loops = {l1, l2}
    User = User
    MaxEnding = 1
INVARIANTS LeftStaysLeft RevokedHasNoSession RetriedUnlessMissed
SYMMETRY LoopSymmetry
CHECK_DEADLOCK FALSE
