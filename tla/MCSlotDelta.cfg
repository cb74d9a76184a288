SPECIFICATION Spec
CONSTANTS
    a = a  b = b
    tk = tk  req = req
    Slots = {a}
    Builders = {tk, req}
    BucketSec = 2
    WindowSec = 2
    MaxTime = 5
    MaxCount = 1
    MaxResets = 1
VIEW Distinguished
SYMMETRY Builds
CHECK_DEADLOCK FALSE
INVARIANTS
    WindowBounded
    NegativeOnlyAfterReset
PROPERTIES
    KeepsWindow
