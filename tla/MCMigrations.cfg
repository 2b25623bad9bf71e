SPECIFICATION MigrationSpec
CONSTANTS
    Runner = {r1, r2, r3}
    Version <- MCVersion
    Name <- MCName
    Checksum = {"c0", "c1", "c2", "c3"}
    Absent = Absent
    MaxFaults = 1
    Resources <- Releases
SYMMETRY Symmetry
INVARIANTS
    MigrationTypeOK
    LedgerMatchesRelations
    MigratedIsCurrent
    AppliedOnce
    LedgerIsPackagePrefix
    CurrentInspectionIsTrue
PROPERTY LedgerFrozen
