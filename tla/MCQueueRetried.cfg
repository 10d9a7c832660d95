\* A stage of the runner throws.
CONSTANTS
    Videos = {v1}
    Users = {u1}
    Runners = {r1}
    Zombies = {}
    MaxJobs = 1
    MaxAttempts = 2
    Faults = {"stage"}
    None = None
SPECIFICATION FairSpec
CHECK_DEADLOCK FALSE
PROPERTY RequeuedIsRetried
