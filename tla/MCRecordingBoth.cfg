\* One page records one segment; nothing fails.
CONSTANTS
    Tabs = {t1}
    Workers = {w1, w2}
    Segments = 1
    MaxTakes = 1
    MaxFaults = 0
SPECIFICATION Spec
CHECK_DEADLOCK FALSE
PROPERTY BothArtifacts
