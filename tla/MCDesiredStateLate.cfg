SPECIFICATION DesiredSpec
\* A command ends.
CHECK_DEADLOCK FALSE
CONSTANTS
    Calls <- LateHorizons
    NoPeriod = NoPeriod
    Calendars <- MCCalendars
    Path <- MCPath
    Commits <- LateCommits
    Drafts <- NoDrafts
    NoFile = NoFile
    NoCommit = NoCommit
    Commands = {"build", "rebuild"}
    Horizons <- LateHorizons
    MaxMoves = 0
INVARIANTS
    ValidatedBeforeDrop
