\* One tab; builds fail and requests end half-way.
CONSTANTS
    Users = {u1}
    Shorts = 1
    Items = 3
    MaxCuts = 3
    Faults <- AllFaults
SPECIFICATION Spec
PROPERTIES
    ReleasedIsFinal
    ReleasedWhenComplete
    PackagesOfOneCut
    FollowsLifecycle
