\* Two tabs race; builds fail.
CONSTANTS
    Users = {u1, u2}
    Shorts = 1
    Items = 2
    MaxCuts = 2
    Faults = {"build"}
SPECIFICATION FairSpec
INVARIANTS
    SeededHasPackage
    ReleasedWasBuilt
PROPERTIES
    TicksSurvive
    ApprovalSettles
