SPECIFICATION Spec
CONSTANTS
    Records = {r1, r2}
    NoRecord = none
    Ticks = {t1, t2}
INVARIANT
    StoppedToolsAreGone
