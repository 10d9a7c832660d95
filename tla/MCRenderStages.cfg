\* One video and one runner over six histories of the workspace, with three
\* failures of any kind: every frame of every long video, every chunk; with the
\* routes and the sprite sheet the runner expects, and with those the code has.
CONSTANTS
    Histories <- AllHistories
    Metas <- BothSheets
    Routed = {TRUE, FALSE}
    MaxShorts = 3
    MaxAttempts = 2
    MaxFaults = 3
    Faults = {"error", "corrupt", "lost", "cut", "render", "report", "crash", "cancel", "manifest"}

SPECIFICATION FairSpec
CHECK_DEADLOCK FALSE

INVARIANTS
    ArtifactsAreThisJobs
    PublishedIsWhole
    CleanJobCompletes
    OneSegmentOnScreen
    AvatarFollowsVoice
    CutMatchesPreview
    SceneUnfolds
    CuesCoverWords
    DiffIsMinimal

PROPERTIES
    JobEnds
