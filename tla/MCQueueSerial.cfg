\* One tab and no half-done request: the queue and the video status agree, and
\* what nothing fails for gets done.
CONSTANTS
    Videos = {v1, v2}
    Users = {u1}
    Runners = {r1, r2}
    Zombies = {}
    MaxJobs = 2
    MaxAttempts = 2
    Faults = {"stage", "stop", "db", "mismatch", "noartifact", "cancel"}
    None = None
SPECIFICATION FairSpec
CHECK_DEADLOCK FALSE
INVARIANTS
    JobMatchesVideo
    QueuedIsRunnable
    WorkerHoldsClaim
    ReviewedWasRendered
PROPERTIES
    SettledIsFinal
    FollowsLifecycle
    QueuedIsReviewed
