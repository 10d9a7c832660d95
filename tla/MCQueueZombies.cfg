\* Requests outlive the runners that sent them.
CONSTANTS
    Videos = {v1}
    Users = {u1}
    Runners = {r1, r2}
    Zombies = {z1, z2}
    MaxJobs = 2
    MaxAttempts = 2
    Faults <- AllFaults
    None = None
SPECIFICATION Spec
SYMMETRY Symmetry
CHECK_DEADLOCK FALSE
INVARIANTS
    OneHolder
    AttemptsBounded
