SPECIFICATION FairDesiredSpec
\* A command ends.
CHECK_DEADLOCK FALSE
CONSTANTS
    Calls <- MCCalls
    NoPeriod = NoPeriod
    Calendars <- MCCalendars
    Path <- MCPath
    Commits <- MCCommits
    Drafts <- MCDrafts
    NoFile = NoFile
    NoCommit = NoCommit
    Commands = {"generate_periods", "rebuild"}
    Horizons <- MCHorizons
    MaxMoves = 1
INVARIANTS
    TypeOK
    NoDayIsLost
    IdsNameTheirPeriods
    ShiftsFollowGeneration
    ProvenanceIsExact
    MembershipsFitCycles
    DatesAreCounted
    ExpiriesFollowPeriods
    CoverageSuffices
PROPERTIES
    CommandEnds
