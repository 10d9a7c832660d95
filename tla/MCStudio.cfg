\* One video of one segment, opened at any stage and taken two changes of status on, which
\* reaches every stage from the one before.  A channel of one event and a history of one:
\* two changes outrun both.  One thing goes astray, of any kind.
CONSTANTS
    ChannelCap = 1
    HistoryCap = 1
    Segments = {s1}
    MaxChanges = 2
    MaxDetours = 1
    Detours = {"go", "reload", "logout", "expire", "reject", "rejectCard", "regenerate", "rerender", "write", "break", "restart", "focus", "stop"}
SPECIFICATION FairSpec
INVARIANT EventsAreHeard
PROPERTY StagesEnd
