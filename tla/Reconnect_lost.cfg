\* The same instance, asked what the README promises: every unexpected loss is
\* retried.
SPECIFICATION Spec
CONSTANTS
    Peers = {p}
    NoPeer = NoPeer
    Routes = {1, 2}
    Loops = {l1, l2}
    User = User
    MaxEnding = 1
INVARIANT LossIsRetried
CHECK_DEADLOCK FALSE
