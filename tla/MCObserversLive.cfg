SPECIFICATION FairObservedSpec
CONSTANTS
    Runner = {r1, o1}
    Observer = {o1}
    Version <- MCVersion
    Name <- MCName
    Checksum = {"c0", "c1"}
    Resources <- MCResources
    Absent = Absent
    MaxFaults = 1
    Product <- MCProduct
    Definition = {d1}
    d1 = d1
    Path = {"f1", "f2"}
    Revision = {"g1"}
    Calendar = {"k1"}
    Period = {jan, q1}
    jan = jan
    q1 = q1
    Cycle = {months, quarters}
    months = months
    quarters = quarters
    CycleOf <- MCCycleOf
    Lists <- MCLists
    InvalidContracts = {}
    Inputs <- Horizons
    Unset = Unset
    Operations <- Both
    PackageRes <- MCPackage
    TablesVersion = 1
    CanonicalCycles <- MCCanonical
PROPERTIES
    ObservationsEnd
