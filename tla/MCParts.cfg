\* Two recordings of a segment, sent by one page that may stop twice at a time, and two
\* captures of three frames, in each of which one thing goes wrong; scripts of up to two
\* segments, in which three things are typed; and two segments to be played, one of which
\* is recorded again; and three polls of a feed of up to two posts, with one button pressed
\* and one failure.
CONSTANTS
    Segments = {1}
    Slots = {u1, u2}
    Length <- ShortThenLong
    ChunkSize = 2
    MaxFaults = 1
    Faults = {"request", "cut", "answer", "row", "restart", "reload", "device", "twice", "late"}
    BatchSize = 2
    SoundBatch = 2
    MaxClock = 4
    FramesAhead = 2
    MaxCaptures = 2
    MaxMishaps = 1
    MaxSegments = 2
    MaxEdits = 3
    NumSegments = 2
    MaxReadings = 2
    MaxRetakes = 1
    Pollers = {ticker, button}
    SlugOf <- SlugsOfPosts
    MaxPolls = 3
    MaxAttempts = 2
    MaxButtons = 1
    MaxFailures = 1

SPECIFICATION MCSpec
SYMMETRY SlotSymmetry
CHECK_DEADLOCK FALSE

INVARIANTS
    TakeIsWhole
    SavedIsRecorded
    PairIsItsTake
    DraftIsSavable
    PreviewIsOfSegment
    PostsSettle
