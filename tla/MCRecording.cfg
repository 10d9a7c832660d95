\* One studio page; one thing goes wrong.
CONSTANTS
    Tabs = {t1}
    Workers = {w1, w2}
    Segments = 2
    MaxTakes = 3
    MaxFaults = 1
SPECIFICATION Spec
CHECK_DEADLOCK FALSE
INVARIANTS
    OneConcat
    StageHasArtifacts
    TakeHasFile
    ManifestNotAhead
    VoiceIsAttended
