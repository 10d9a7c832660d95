\* Two tabs tick the last two boxes.
CONSTANTS
    Users = {u1, u2}
    Shorts = 1
    Items = 2
    MaxCuts = 1
    Faults = {}
SPECIFICATION Spec
PROPERTY CompletingReleases
