\* A runner stops while it holds a job.
CONSTANTS
    Videos = {v1}
    Users = {u1}
    Runners = {r1, r2}
    Zombies = {}
    MaxJobs = 1
    MaxAttempts = 2
    Faults = {"stop"}
    None = None
SPECIFICATION FairSpec
CHECK_DEADLOCK FALSE
PROPERTY ClaimEnds
