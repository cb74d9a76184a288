SPECIFICATION Spec
CONSTANTS
    a = a  b = b
    tk = tk  req = req
    Slots = {a}
    Builders = {tk, req}
    BucketSec = 2
    WindowSec = 4
    MaxTime = 2
    MaxCount = 1
    MaxResets = 0
CHECK_DEADLOCK FALSE
INVARIANTS
    ValuesGuarded
