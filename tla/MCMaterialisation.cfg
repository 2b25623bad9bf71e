SPECIFICATION Spec
CONSTANTS
    Runner = {r1, r2}
    Version <- MCVersion
    Name <- MCName
    Checksum = {"c0", "c1"}
    Resources <- MCResources
    Absent = Absent
    MaxFaults = 1
    Product <- MCProduct
    Definition = {d1, d2}
    d1 = d1
    d2 = d2
    Path = {"f1", "f2", "f3"}
    Revision = {"g1", "g2"}
    Calendar = {"k1", "k2"}
    Period = {jan, feb}
    jan = jan
    feb = feb
    Cycle = {months}
    months = months
    CycleOf <- MCCycleOf
    Lists <- MCLists
    InvalidContracts <- MCInvalidContracts
    Inputs <- ConcurrentInputs
    Unset = Unset
    Operations <- Both
    PackageRes <- MCPackage
    TablesVersion = 1
SYMMETRY Symmetry
INVARIANTS
    TypeOK
    WholeDesiredStates
    PathsAreUnique
PROPERTIES
    ConflictsAreReal
    DropsAreClean
    OperationalRowsAreImmutable
    ImplementsStore
