SPECIFICATION Spec
CONSTANTS
    Daemons = {d1}
    Tools = {t1}
    NoFile = noFile
    Crashing = {}
    MaxCrashes = 0
SYMMETRY Symmetry
INVARIANTS
    SingleWriter

CHECK_DEADLOCK FALSE
