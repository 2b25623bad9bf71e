SPECIFICATION MigrationFairSpec
CONSTANTS
    Runner = {r1, r2}
    Version <- MCVersion
    Name <- MCName
    Checksum = {"c0", "c1", "c2", "c3"}
    Absent = Absent
    MaxFaults = 2
    Resources <- OneRelease
PROPERTIES
    CallsEnd
    Converges
