SPECIFICATION Spec
CONSTANTS
    Timers = {t1, t2}
    None = None
    Periods = {0, 2}
    Places = {1, 2, 3}
    Usage = {}
    MaxTime = 3
    MaxSet = 3
CHECK_DEADLOCK FALSE
INVARIANTS TypeOK
PROPERTIES TimerServiceSpec Expires
