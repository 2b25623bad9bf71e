SPECIFICATION FairRowSpec
\* Every transaction ends.
CHECK_DEADLOCK FALSE
CONSTANTS
    Session = {s1, s2, s3}
    Table = {"memberships", "sources", "contracts"}
    Initial <- MCInitial
    Inputs <- MCInputs
PROPERTIES
    CommitsAreWhole
    RefusalsAreReal
    WritersEnd
