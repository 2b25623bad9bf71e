SPECIFICATION Spec
CONSTANTS
    Runner = {r1}
    Version <- MCVersion
    Name <- MCName
    Checksum = {"c0", "c1"}
    Resources <- MCResources
    Absent = Absent
    MaxFaults = 0
    Product <- MCProduct
    Definition = {d1, d2}
    d1 = d1
    d2 = d2
    Path = {"f1", "f2", "f3"}
    Revision = {"g1", "g2"}
    Calendar = {"k1", "k2"}
    Period = {jan, feb}
    jan = jan
    feb = feb
    Cycle = {months}
    months = months
    CycleOf <- MCCycleOf
    Lists <- MCLists
    InvalidContracts <- MCInvalidContracts
    Inputs <- SwapInputs
    Unset = Unset
    Operations <- BuildOnly
    PackageRes <- MCPackage
    TablesVersion = 1
INVARIANT ProvenanceMayEvolve
