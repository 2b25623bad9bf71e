---------------------------- MODULE ObserversProofs ----------------------------
(***************************************************************************)
(* Proofs about what observers see, for any number of observers, commands,  *)
(* inputs and failures.                                                     *)
(***************************************************************************)
EXTENDS Observers, MaterialisationProofs, FiniteSetTheorems

-----------------------------------------------------------------------------
(* What the counts of whole desired states amount to *)

\* Each product has its source, and each source its product.
LEMMA SourcesMatchProducts ==
    ASSUME TypeOK, WholeDesiredStates, NEW p \in Product
    PROVE  /\ Row("futures_products", p) \in Key
           /\ Row("futures_product_sources", p) \in Key
           /\ rows[Row("futures_products", p)] # Unset
                <=> rows[Row("futures_product_sources", p)] # Unset
<1> DEFINE k == Row("futures_products", p)
           j == Row("futures_product_sources", p)
<1>1. /\ k \in Key /\ k.table = "futures_products" /\ k.id = p
      /\ j \in Key /\ j.table = "futures_product_sources" /\ j.id = p
    BY DEF Row, Key
<1> HIDE DEF k, j
<1>2. ASSUME NEW in \in Inputs
      PROVE  DesiredOf[in][k] # Unset <=> DesiredOf[in][j] # Unset
    <2>1. DesiredOf[in][k] = DesiredRow(in, k) /\ DesiredOf[in][j] = DesiredRow(in, j)
        BY <1>1, DesiredType
    <2>2. [path |-> in.path[p], revision |-> in.revision] # Unset
        <3>1. in \in InputType
            BY InputsAssumption
        <3>2. [path |-> in.path[p], revision |-> in.revision] \in Provenance
            BY <3>1 DEF InputType, Provenance
        <3> QED
            BY <3>2, UnsetAssumption DEF Value
    <2> QED
        BY <1>1, <2>1, <2>2 DEF DesiredRow
<1>3. ASSUME rows[k] # Unset PROVE rows[j] # Unset
    <2>1. PICK in \in Inputs : Holds(rows, DesiredOf[in]) /\ DesiredOf[in][k] = rows[k]
        BY <1>1, <1>3 DEF WholeDesiredStates, ValidInputs, Present
    <2> QED
        BY <1>1, <1>2, <1>3, <2>1 DEF Holds
<1>4. ASSUME rows[j] # Unset PROVE rows[k] # Unset
    <2>1. PICK in \in Inputs : Holds(rows, DesiredOf[in]) /\ DesiredOf[in][j] = rows[j]
        BY <1>1, <1>4 DEF WholeDesiredStates, ValidInputs, Present
    <2> QED
        BY <1>1, <1>2, <1>4, <2>1 DEF Holds
<1> QED
    BY <1>1, <1>3, <1>4 DEF k, j

\* The products in the store are those of finitely many source trees.
ProductsAreFinite == IsFiniteSet(RowsOf(rows, "futures_products"))

LEMMA ProvenanceIsComplete ==
    ASSUME TypeOK, WholeDesiredStates, ProductsAreFinite
    PROVE  ProvenanceComplete(rows)
<1> DEFINE P == RowsOf(rows, "futures_products")
           S == RowsOf(rows, "futures_product_sources")
           f == [k \in P |-> Row("futures_product_sources", k.id)]
<1>1. \A k \in P : /\ k \in Key /\ k.id \in Product
                   /\ k = Row("futures_products", k.id) /\ rows[k] # Unset
    BY KeyShape DEF RowsOf, Present
<1>2. \A k \in S : /\ k \in Key /\ k.id \in Product
                   /\ k = Row("futures_product_sources", k.id) /\ rows[k] # Unset
    BY KeyShape DEF RowsOf, Present
<1>3. \A k \in P : f[k] \in S
    BY <1>1, SourcesMatchProducts DEF RowsOf, Present, Row
<1>4. \A k \in S : Row("futures_products", k.id) \in P /\ Row("futures_products", k.id).id = k.id
    BY <1>2, SourcesMatchProducts DEF RowsOf, Present, Row
<1>5. \A k \in S : f[Row("futures_products", k.id)] = k
    BY <1>2, <1>4
<1>6. \A j, k \in P : f[j] = f[k] => j = k
    <2>1. \A k \in P : f[k].id = k.id
        BY DEF Row
    <2> QED
        BY <1>1, <2>1
<1>7. f \in Bijection(P, S)
    <2>1. f \in [P -> S]
        BY <1>3
    <2> HIDE DEF f, P, S
    <2> QED
        BY <1>4, <1>5, <1>6, <2>1 DEF Bijection, Injection, Surjection, IsInjective
<1>8. ExistsBijection(P, S)
    BY <1>7 DEF ExistsBijection
<1>9. IsFiniteSet(P)
    BY DEF ProductsAreFinite
<1> HIDE DEF P, S
<1>10. Cardinality(S) = Cardinality(P)
    BY <1>8, <1>9, FS_Bijection
<1> QED
    BY <1>10 DEF ProvenanceComplete, CountOf, P, S

LEMMA EmptyIsEmpty == ASSUME TypeOK, Present(rows) = {} PROVE rows = Empty
BY DEF TypeOK, States, Present, Empty

\* Of rows that are there as a whole, each table has some when the desired state
\* of one input has.
LEMMA CountsOfWholeStates ==
    ASSUME TypeOK, WholeDesiredStates, ProductsAreFinite
    PROVE  \/ FailedCounts(rows) = FailedCounts(Empty)
           \/ \E in \in ValidInputs : FailedCounts(rows) \subseteq FailedCounts(DesiredOf[in])
<1>1. CASE Present(rows) = {}
    BY <1>1, EmptyIsEmpty
<1>2. CASE Present(rows) # {}
    <2>1. PICK in \in ValidInputs : Holds(rows, DesiredOf[in])
        BY <1>2 DEF WholeDesiredStates
    <2>2. \A t : SomeIn(DesiredOf[in], t) => SomeIn(rows, t)
        BY <2>1 DEF SomeIn, RowsOf, Present, Holds
    <2>3. ASSUME NEW check \in CountChecks, CountsPass(DesiredOf[in], check)
          PROVE  CountsPass(rows, check)
        BY <2>2, <2>3, ProvenanceIsComplete DEF CountsPass, CountChecks
    <2> QED
        BY <2>1, <2>3 DEF FailedCounts
<1> QED
    BY <1>1, <1>2

\* A store that is not empty has every table filled when the counts pass.
LEMMA CountsFillTables ==
    ASSUME TypeOK, WholeDesiredStates, FailedCounts(rows) = {}
    PROVE  \A t \in Tables : SomeIn(rows, t)
<1>1. \A check \in CountChecks : CountsPass(rows, check)
    BY DEF FailedCounts
<1>2. /\ SomeIn(rows, "futures_products")
      /\ SomeIn(rows, "periods")
      /\ SomeIn(rows, "futures_contracts")
      /\ SomeIn(rows, "period_cycles")
      /\ SomeIn(rows, "period_cycle_memberships")
    BY <1>1 DEF CountChecks, CountsPass
<1>3. SomeIn(rows, "futures_product_sources")
    <2>1. PICK k \in Key : k.table = "futures_products" /\ rows[k] # Unset
        BY <1>2 DEF SomeIn, RowsOf, Present
    <2>2. k.id \in Product /\ k = Row("futures_products", k.id)
        BY <2>1, KeyShape
    <2>3. /\ Row("futures_product_sources", k.id) \in Key
          /\ rows[Row("futures_product_sources", k.id)] # Unset
        BY <2>1, <2>2, SourcesMatchProducts
    <2>4. Row("futures_product_sources", k.id).table = "futures_product_sources"
        BY DEF Row
    <2> QED
        BY <2>3, <2>4 DEF SomeIn, RowsOf, Present
<1> QED
    BY <1>2, <1>3 DEF Tables

-----------------------------------------------------------------------------
(* The inductive invariant *)

\* What was counted was whole, and is not counted again.
CountInv(o) ==
    /\ look[o] \in {"idle", "inspect", "contracts"} => ~counted[o]
    /\ counted[o] =>
        LET bad == failed[o] \cap CountChecks IN
        \/ bad = FailedCounts(Empty)
        \/ \E in \in ValidInputs : bad \subseteq FailedCounts(DesiredOf[in])

\* An observer issues no command; between the two statements of a query it
\* keeps the contracts it has read from being dropped, so they are still there.
QueryInv(o) ==
    /\ phase[o] = "idle"
    /\ locked[o] = IF look[o] = "contracts" THEN {"futures_contracts"} ELSE {}
    /\ look[o] = "contracts" => fetched[o] \subseteq RowsOf(rows, "futures_contracts")
    /\ look[o] # "lookup_error"

TurnInv(o) == look[o] \in {"idle", "inspect", "contracts"} => turn[o] = 1

LookInv(o) == QueryInv(o) /\ TurnInv(o) /\ CountInv(o)

StoreInv ==
    /\ Inv
    /\ WholeDesiredStates
    /\ ProductsAreFinite
    /\ \A r \in Runner \ Observer : Free(r)

ObserverInv == StoreInv /\ ObserverTypeOK /\ \A o \in Observer : LookInv(o)

LEMMA CyclesAreListed ==
    /\ Len(CanonicalCycles) \in Nat /\ Len(CanonicalCycles) >= 1
    /\ DOMAIN CanonicalCycles = 1..Len(CanonicalCycles)
    /\ \A i \in DOMAIN CanonicalCycles : CanonicalCycles[i] \in Cycle
BY CanonicalAssumption

LEMMA ObserverInvInit == ObservedInit => ObserverInv
<1> SUFFICES ASSUME ObservedInit PROVE ObserverInv
    OBVIOUS
<1>1. Init
    BY DEF ObservedInit
<1>2. StoreInv
    <2>1. RowsOf(rows, "futures_products") = {}
        BY <1>1 DEF Init, RowsOf, Present, Empty
    <2>2. ProductsAreFinite
        BY <2>1, FS_EmptySet DEF ProductsAreFinite
    <2>3. \A r \in Runner : Free(r)
        BY <1>1 DEF Init, Free
    <2> QED
        BY <1>1, <2>2, <2>3, InvInit, WholeInit DEF StoreInv
<1>3. ObserverTypeOK
    BY CyclesAreListed DEF ObservedInit, ObserverTypeOK
<1>4. ASSUME NEW o \in Observer PROVE LookInv(o)
    <2>1. phase[o] = "idle" /\ locked[o] = {}
        BY <1>1, ObserverAssumption DEF Init
    <2>2. look[o] = "idle" /\ turn[o] = 1 /\ ~counted[o]
        BY DEF ObservedInit
    <2> QED
        BY <2>1, <2>2 DEF LookInv, QueryInv, TurnInv, CountInv
<1> QED
    BY <1>2, <1>3, <1>4 DEF ObserverInv

-----------------------------------------------------------------------------
(* Steps of commands beside observers *)

LEMMA ProductsStayFinite ==
    ASSUME TypeOK, ProductsAreFinite,
           UNCHANGED rows \/ rows' = Empty \/ \E in \in ValidInputs : Publishes(in)
    PROVE  ProductsAreFinite'
<1>1. CASE UNCHANGED rows
    BY <1>1 DEF ProductsAreFinite, RowsOf, Present
<1>2. CASE rows' = Empty
    <2>1. RowsOf(rows, "futures_products")' = {}
        BY <1>2 DEF RowsOf, Present, Empty
    <2> QED
        BY <2>1, FS_EmptySet DEF ProductsAreFinite
<1>3. ASSUME NEW in \in ValidInputs, Publishes(in) PROVE ProductsAreFinite'
    <2> DEFINE files == {p \in Product : in.definition[p] # Unset}
               added == {Row("futures_products", p) : p \in files}
               old == RowsOf(rows, "futures_products")
               new == RowsOf(rows, "futures_products")'
    <2>0. in \in Inputs
        BY <1>3, ValidAreInputs
    <2>1. IsFiniteSet(added)
        <3>1. IsFiniteSet(files)
            BY <2>0, FilesAssumption
        <3> DEFINE f == [p \in files |-> Row("futures_products", p)]
        <3>2. f \in Surjection(files, added)
            BY DEF Surjection
        <3> HIDE DEF files, added, f
        <3> QED
            BY <3>1, <3>2, FS_Surjection DEF ExistsSurjection
    <2>2. \A k \in new : k \in old \/ k \in added
        <3> SUFFICES ASSUME NEW k \in Key, k.table = "futures_products",
                            rows'[k] # Unset, rows[k] = Unset
                     PROVE  k \in added
            BY DEF RowsOf, Present
        <3>1. DesiredRow(in, k) # Unset
            BY <1>3, <2>0, DesiredType DEF Publishes, Overlay
        <3>2. k.id \in files /\ k = Row("futures_products", k.id)
            BY <3>1, KeyShape DEF DesiredRow
        <3> QED
            BY <3>2
    <2>3. IsFiniteSet(old)
        BY DEF ProductsAreFinite
    <2> HIDE DEF added, old, new
    <2>4. IsFiniteSet(new)
        <3>1. new \subseteq old \cup added
            BY <2>2
        <3>2. IsFiniteSet(old \cup added)
            BY <2>1, <2>3, FS_Union
        <3> QED
            BY <3>1, <3>2, FS_Subset
    <2> QED
        BY <2>4 DEF ProductsAreFinite, new
<1> QED
    BY <1>1, <1>2, <1>3

LEMMA CommandBesideObservers ==
    ASSUME ObserverInv, NEW r \in Runner \ Observer, CommandStep(r),
           UNCHANGED observerVars
    PROVE  ObserverInv'
<1>1. StoreInv /\ Inv /\ TypeOK /\ Free(r)
    BY DEF ObserverInv, StoreInv, Inv
<1>2. \/ UNCHANGED rows /\ (TablesExist => TablesExist')
      \/ DropOwnedSchema(r) \/ DropUnacknowledged(r)
      \/ phase[r] = "commit" /\ Publishes(input[r])
    BY <1>1, CommandRows
<1>3. UNCHANGED rows \/ rows' = Empty \/ \E in \in ValidInputs : Publishes(in)
    BY <1>2 DEF DropOwnedSchema, DropUnacknowledged, DropEverything, Publishes
<1>4. StoreInv'
    BY <1>1, <1>3, CommandKeepsInv, CommandIsOwn, WholeKept, ProductsStayFinite
    DEF StoreInv, Free
<1>5. UNCHANGED <<look, failed, counted, turn, fetched, readyBefore>>
    BY DEF observerVars, reportVars
<1>6. ObserverTypeOK'
    BY <1>5 DEF ObserverInv, ObserverTypeOK
<1>7. ASSUME NEW o \in Observer PROVE LookInv(o)'
    <2>1. LookInv(o) /\ o \in Runner /\ o # r
        BY ObserverAssumption DEF ObserverInv
    <2>2. phase'[o] = phase[o] /\ locked'[o] = locked[o]
        BY <1>1, <2>1, CommandIsOwn
    <2>3. ASSUME look[o] = "contracts"
          PROVE  fetched[o] \subseteq RowsOf(rows, "futures_contracts")'
        <3>1. /\ fetched[o] \subseteq RowsOf(rows, "futures_contracts")
              /\ locked[o] # {}
            BY <2>1, <2>3 DEF LookInv, QueryInv
        <3>2. ~DropOwnedSchema(r) /\ ~DropUnacknowledged(r)
            BY <2>1, <3>1 DEF DropOwnedSchema, DropUnacknowledged, TablesUnused
        <3>3. \A k \in Key : rows[k] # Unset => rows'[k] # Unset
            BY <1>2, <3>2 DEF Publishes, Overlay
        <3> QED
            BY <3>1, <3>3 DEF RowsOf, Present
    <2> QED
        BY <1>5, <2>1, <2>2, <2>3 DEF LookInv, QueryInv, TurnInv, CountInv
<1> QED
    BY <1>4, <1>6, <1>7 DEF ObserverInv

-----------------------------------------------------------------------------
(* Steps of observers *)

\* What an observer leaves alone: the store, the commands and other observers.
LEMMA ObservationIsOwn ==
    ASSUME TypeOK, NEW o \in Observer, Observation(o)
    PROVE  /\ UNCHANGED <<schemaState, rows, phase, op, input, written>>
           /\ \A s \in Runner \ {o} : /\ locked'[s] = locked[s]
                                      /\ step'[s] = step[s]
                                      /\ package'[s] = package[s]
                                      /\ inspection'[s] = inspection[s]
                                      /\ err'[s] = err[s]
<1>1. CASE StartDiagnostics(o)
    BY <1>1 DEF StartDiagnostics, StartInspect, Discover, GoTo, TypeOK, RunnerTypeOK,
        commandVars, transactionVars
<1>2. CASE InspectMigrations(o)
    BY <1>2 DEF InspectMigrations, Inspect, InspectUninitialised, InspectInconsistent,
        InspectBootstrap, InspectLedger, LedgerMissing, Report, GoTo, Raise, TypeOK,
        RunnerTypeOK, runnerState, commandVars, transactionVars
<1>3. CASE \/ ReportMigrationError(o) \/ InspectRaises(o) \/ ReportUninitialised(o)
           \/ ReportPending(o) \/ CountRows(o) \/ ReadCycle(o) \/ MissCycle(o)
           \/ ReadMemberships(o) \/ MissMemberships(o)
    <2>1. UNCHANGED vars
        BY <1>3 DEF ReportMigrationError, InspectRaises, ReportUninitialised,
            ReportPending, CountRows, ReadCycle, MissCycle, ReadMemberships,
            MissMemberships
    <2> QED
        BY <2>1 DEF vars, migrationVars, runnerState, commandVars, transactionVars
<1>4. CASE ReportLosesTables(o) \/ QueryFindsNoTables(o)
    BY <1>4 DEF ReportLosesTables, QueryFindsNoTables, TypeOK, runnerState,
        commandVars, transactionVars
<1>5. CASE ReadPeriods(o) \/ \E ps \in SUBSET Product \ {{}}, ms \in SUBSET Period :
                                ReadContracts(o, ps, ms)
    BY <1>5 DEF ReadContracts, ReadPeriods, Lock, Unlock, TypeOK, migrationVars,
        runnerState, commandVars
<1>6. CASE InspectFault(o) \/ Disconnect(o)
    BY <1>6 DEF InspectFault, Interrupt, Raise, GoTo, Disconnect, Unlock, TypeOK,
        RunnerTypeOK, runnerState, commandVars, transactionVars
<1>7. CASE EndObservation(o)
    BY <1>7 DEF EndObservation, ForgetRunner, GoTo, TypeOK, RunnerTypeOK,
        commandVars, transactionVars
<1> QED
    BY <1>1, <1>2, <1>3, <1>4, <1>5, <1>6, <1>7 DEF Observation, Diagnose

LEMMA ObservationType ==
    ASSUME TypeOK, NEW o \in Observer, Observation(o)
    PROVE  TypeOK'
<1>0. RunnerTypeOK /\ o \in Runner
    BY ObserverAssumption DEF TypeOK
<1> USE DEF TypeOK
<1>1. UNCHANGED <<schemaState, rows, phase, op, input, written>>
    BY ObservationIsOwn
<1>2. CASE StartDiagnostics(o)
    <2>1. RunnerTypeOK' /\ UNCHANGED err
        BY <1>0, <1>2, DiscoverType, PackageAssumption DEF StartDiagnostics
    <2> QED
        BY <1>1, <1>2, <2>1 DEF StartDiagnostics, transactionVars
<1>3. CASE InspectMigrations(o)
    <2>1. UNCHANGED locked
        BY <1>3 DEF InspectMigrations, transactionVars
    <2>2. RunnerTypeOK' /\ ErrStep(o)
        <3>1. CASE Inspect(o)
            BY <1>0, <3>1, InspectType
        <3>2. CASE LedgerMissing(o)
            BY <1>0, <3>2 DEF LedgerMissing, RunnerTypeOK, schemaState, runnerState,
                GoTo, Raise, Ended, Errors, ErrStep
        <3> QED
            BY <1>3, <3>1, <3>2 DEF InspectMigrations
    <2>3. err' \in [Runner -> Errors \cup PersistErrors]
        BY <2>2 DEF ErrStep
    <2> QED
        BY <1>1, <2>1, <2>2, <2>3
<1>4. CASE \/ ReportMigrationError(o) \/ InspectRaises(o) \/ ReportUninitialised(o)
           \/ ReportPending(o) \/ CountRows(o) \/ ReadCycle(o) \/ MissCycle(o)
           \/ ReadMemberships(o) \/ MissMemberships(o)
    <2>1. UNCHANGED vars
        BY <1>4 DEF ReportMigrationError, InspectRaises, ReportUninitialised,
            ReportPending, CountRows, ReadCycle, MissCycle, ReadMemberships,
            MissMemberships
    <2> QED
        BY <1>0, <2>1, RunnerTypeStable DEF vars, migrationVars, RunnerVars,
            commandVars, transactionVars
<1>5. CASE ReportLosesTables(o) \/ QueryFindsNoTables(o)
    BY <1>0, <1>5, RunnerTypeStable DEF ReportLosesTables, QueryFindsNoTables,
        RunnerVars, commandVars, transactionVars, Errors
<1>6. CASE ReadPeriods(o) \/ \E ps \in SUBSET Product \ {{}}, ms \in SUBSET Period :
                                ReadContracts(o, ps, ms)
    <2>1. UNCHANGED migrationVars /\ locked' \in [Runner -> SUBSET Tables]
        BY <1>6 DEF ReadContracts, ReadPeriods, Lock, Unlock, Tables
    <2> QED
        BY <1>0, <1>1, <2>1, RunnerTypeStable DEF migrationVars, RunnerVars
<1>7. CASE InspectFault(o) \/ Disconnect(o)
    <2>1. faults' \in 0..MaxFaults
        BY <1>0, <1>7, MaxFaultsAssumption DEF InspectFault, Interrupt, Disconnect,
            CountFault, RunnerTypeOK
    <2>2. RunnerTypeOK'
        BY <1>0, <1>7, <2>1 DEF InspectFault, Interrupt, Disconnect, Raise, GoTo,
            RunnerTypeOK, schemaState, runnerState, Ended
    <2> QED
        BY <1>1, <1>7, <2>2 DEF InspectFault, Interrupt, Disconnect, Raise, Unlock,
            transactionVars, Errors
<1>8. CASE EndObservation(o)
    <2>1. package' \in [Runner -> Ledgers] /\ inspection' \in [Runner -> Inspections]
        BY <1>0, <1>8 DEF EndObservation, ForgetRunner, RunnerTypeOK, Ledgers,
            NotInspected, Inspections
    <2>2. RunnerTypeOK'
        BY <1>0, <1>8, <2>1 DEF EndObservation, ForgetRunner, GoTo, RunnerTypeOK,
            schemaState
    <2> QED
        BY <1>1, <1>8, <2>2 DEF EndObservation, transactionVars, Errors
<1> QED
    BY <1>2, <1>3, <1>4, <1>5, <1>6, <1>7, <1>8 DEF Observation, Diagnose

\* An observer locks a table only while there is one.
LEMMA ObservationKeepsStore ==
    ASSUME StoreInv, NEW o \in Observer, Observation(o), phase[o] = "idle",
           locked'[o] \in {{}, locked[o]} \/ TablesExist
    PROVE  StoreInv'
<1>0. Inv /\ TypeOK /\ o \in Runner
    BY ObserverAssumption DEF StoreInv, Inv
<1>1. /\ UNCHANGED <<schemaState, rows, phase, op, input, written>>
      /\ \A s \in Runner \ {o} : locked'[s] = locked[s]
    BY <1>0, ObservationIsOwn
<1>2. TypeOK'
    BY <1>0, ObservationType
<1>3. TablesExist' = TablesExist
    BY <1>1 DEF schemaState, TablesExist
<1>4. ASSUME NEW s \in Runner PROVE CommandInv(s)'
    <2>1. CommandInv(s)
        BY <1>0 DEF Inv
    <2>2. Asked(s)' = Asked(s) /\ Desired(s)' = Desired(s)
        BY <1>1 DEF Asked, Desired
    <2>3. InputInv(s)'
        BY <1>1, <2>1 DEF CommandInv, InputInv
    <2>4. WrittenInv(s)' /\ PathInv(s)'
        BY <1>1, <2>1, <2>2 DEF CommandInv, WrittenInv, PathInv, Present
    <2>5. CASE s # o
        <3>1. LockInv(s)' /\ KeptInv(s)'
            BY <1>1, <1>3, <2>1, <2>2, <2>5 DEF CommandInv, LockInv, KeptInv
        <3> QED
            BY <2>3, <2>4, <3>1 DEF CommandInv
    <2>6. CASE s = o
        <3>1. LockInv(s)'
            BY <1>1, <1>3, <2>1, <2>6 DEF CommandInv, LockInv
        <3>2. Asked(s) = {}
            BY <2>6 DEF Asked, Passed
        <3> QED
            BY <2>2, <2>3, <2>4, <3>1, <3>2 DEF CommandInv, KeptInv
    <2> QED
        BY <2>5, <2>6
<1>5. StoredInv' /\ PathsAreUnique' /\ WholeDesiredStates' /\ ProductsAreFinite'
    BY <1>0, <1>1, <1>3 DEF StoreInv, Inv, StoredInv, PathsAreUnique,
        WholeDesiredStates, ProductsAreFinite, RowsOf, Present, Holds
<1>6. \A r, s \in Runner : r # s => Apart(r, s)'
    BY <1>0, <1>1 DEF Inv, Apart, Desired
<1>7. \A r \in Runner \ Observer : Free(r)'
    BY <1>1 DEF StoreInv, Free
<1> QED
    BY <1>2, <1>4, <1>5, <1>6, <1>7 DEF StoreInv, Inv

LEMMA ContractsHaveTheirs ==
    ASSUME WholeDesiredStates, NEW k \in RowsOf(rows, "futures_contracts")
    PROVE  rows[Row("periods", k.id[2])] # Unset
<1>1. k \in Present(rows) /\ k \in Key /\ k.table = "futures_contracts"
    BY DEF RowsOf, Present
<1>2. PICK in \in Inputs : Holds(rows, DesiredOf[in]) /\ DesiredOf[in][k] = rows[k]
    BY <1>1 DEF WholeDesiredStates, ValidInputs
<1>3. Row("periods", k.id[2]) \in Parents(k)
    BY <1>1 DEF Parents
<1>4. /\ Row("periods", k.id[2]) \in Key
      /\ DesiredOf[in][Row("periods", k.id[2])] # Unset
    BY <1>1, <1>2, <1>3, DesiredParents DEF Present
<1> QED
    BY <1>2, <1>4 DEF Holds

\* A step of one observer in the eyes of another one.
LooksAway(o) ==
    \A s \in Observer \ {o} :
        /\ look'[s] = look[s]
        /\ failed'[s] = failed[s]
        /\ counted'[s] = counted[s]
        /\ turn'[s] = turn[s]
        /\ fetched'[s] = fetched[s]
        /\ readyBefore'[s] = readyBefore[s]

Looks(o) ==
    /\ ObserverTypeOK'
    /\ LookInv(o)'
    /\ LooksAway(o)
    /\ locked'[o] \in {{}, locked[o]} \/ TablesExist

LEMMA ChecksHold ==
    /\ CountChecks \subseteq Checks
    /\ Cycle \subseteq Checks
    /\ \A s : FailedCounts(s) \subseteq CountChecks
BY Zenon DEF Checks, FailedCounts

\* A report that ends with the inspection.
EndsEarly(o) ==
    \/ ReportMigrationError(o)
    \/ ReportUninitialised(o)
    \/ ReportPending(o)

LEMMA EarlyEnd ==
    ASSUME NEW o \in Observer, EndsEarly(o)
    PROVE  /\ \E checks \in SUBSET Checks : EndReport(o, checks)
           /\ UNCHANGED <<vars, counted, turn, fetched, readyBefore>>
           /\ look[o] = "inspect"
<1>1. ASSUME NEW c \in Checks PROVE {c} \in SUBSET Checks
    BY <1>1
<1>2. \A c \in {"migration state", "migration initialised", "migration current"} :
            c \in Checks
    BY Zenon DEF Checks
<1>3. {"migration state"} \in SUBSET Checks /\ {"migration initialised"} \in SUBSET Checks
      /\ {"migration current"} \in SUBSET Checks
    BY <1>1, <1>2, Zenon
<1> QED
    BY <1>3, Zenon DEF EndsEarly, ReportMigrationError, ReportUninitialised, ReportPending

LEMMA DiagnosticsLook ==
    ASSUME ObserverInv, NEW o \in Observer,
           \/ StartDiagnostics(o) \/ InspectMigrations(o) \/ InspectFault(o)
           \/ InspectRaises(o) \/ EndsEarly(o)
    PROVE  Looks(o)
<1>1. ObserverTypeOK /\ LookInv(o)
    BY DEF ObserverInv
<1>2. /\ UNCHANGED <<locked, phase, turn, counted, fetched>>
      /\ look[o] \in {"idle", "inspect"} /\ look'[o] \in {"inspect", "reported", "raised"}
      /\ ObserverTypeOK' /\ LooksAway(o)
    <2>1. CASE EndsEarly(o)
        <3>1. PICK checks \in SUBSET Checks : EndReport(o, checks)
            BY <2>1, EarlyEnd
        <3> QED
            BY <1>1, <2>1, <3>1, EarlyEnd DEF EndReport, Observe, vars,
                transactionVars, ObserverTypeOK, LooksAway, Looking, Looked
    <2>2. CASE \/ StartDiagnostics(o) \/ InspectMigrations(o) \/ InspectFault(o)
               \/ InspectRaises(o)
        <3>1. readyBefore' \in [Observer -> BOOLEAN]
            BY <1>1, <2>2, Zenon DEF StartDiagnostics, InspectMigrations,
                InspectFault, InspectRaises, observerVars, reportVars,
                ObserverTypeOK, StoreReady
        <3> QED
            BY <1>1, <2>2, <3>1 DEF StartDiagnostics, InspectMigrations,
                InspectFault, InspectRaises, Observe, vars, observerVars, reportVars,
                transactionVars, ObserverTypeOK, LooksAway, Looking, Looked
    <2> QED
        BY <2>1, <2>2
<1> QED
    BY <1>1, <1>2 DEF Looks, LookInv, QueryInv, TurnInv, CountInv

LEMMA CountLooks ==
    ASSUME ObserverInv, NEW o \in Observer, CountRows(o)
    PROVE  Looks(o)
<1>1. ObserverTypeOK /\ LookInv(o) /\ TypeOK /\ WholeDesiredStates /\ ProductsAreFinite
    BY DEF ObserverInv, StoreInv, Inv
<1>2. /\ UNCHANGED <<locked, phase, turn, fetched, readyBefore>>
      /\ look[o] = "inspect" /\ turn[o] = 1
      /\ look'[o] = "cycle" /\ failed'[o] = FailedCounts(rows)
    BY <1>1 DEF CountRows, vars, transactionVars, Observe, ObserverTypeOK, LookInv, TurnInv
<1>3. FailedCounts(rows) \subseteq CountChecks /\ FailedCounts(rows) \subseteq Checks
    BY ChecksHold
<1>4. ObserverTypeOK' /\ LooksAway(o)
    BY <1>1, <1>2, <1>3, CyclesAreListed DEF CountRows, Observe, ObserverTypeOK,
        LooksAway, Looking, Looked
<1>5. CountInv(o)'
    BY <1>1, <1>2, <1>3, CountsOfWholeStates DEF CountInv
<1> QED
    BY <1>1, <1>2, <1>4, <1>5 DEF Looks, LookInv, QueryInv, TurnInv

LEMMA CyclesLook ==
    ASSUME ObserverInv, NEW o \in Observer,
           ReadCycle(o) \/ MissCycle(o) \/ ReadMemberships(o) \/ MissMemberships(o)
    PROVE  Looks(o)
<1>1. ObserverTypeOK /\ LookInv(o)
    BY DEF ObserverInv
<1>2. /\ UNCHANGED <<locked, phase, counted, fetched, readyBefore>>
      /\ look[o] \in {"cycle", "memberships"} /\ turn[o] \in DOMAIN CanonicalCycles
    BY <1>1 DEF ReadCycle, MissCycle, ReadMemberships, MissMemberships, vars,
        reportVars, transactionVars, ObserverTypeOK
<1>3. CycleAt(o) \in Cycle /\ CycleAt(o) \in Checks
    BY <1>2, CyclesAreListed, ChecksHold DEF CycleAt
<1>4. /\ look'[o] \in {"cycle", "memberships", "reported"}
      /\ look'[o] \in {"cycle", "memberships"} => turn'[o] \in DOMAIN CanonicalCycles
      /\ turn' \in [Observer -> 1..Len(CanonicalCycles) + 1]
    BY <1>1, <1>2, CyclesAreListed DEF ReadCycle, MissCycle, ReadMemberships,
        MissMemberships, NextCycle, Observe, reportVars, ObserverTypeOK
<1>5. failed'[o] \in {failed[o], failed[o] \cup {CycleAt(o)}}
    BY <1>1 DEF ReadCycle, MissCycle, ReadMemberships, MissMemberships, Fails,
        reportVars, ObserverTypeOK
<1>6. /\ look' \in [Observer -> {"idle"} \cup Looking \cup Looked]
      /\ failed' \in [Observer -> SUBSET Checks]
      /\ LooksAway(o)
    <2>1. look' \in [Observer -> {"idle"} \cup Looking \cup Looked]
        BY <1>1 DEF ReadCycle, MissCycle, ReadMemberships, MissMemberships, NextCycle,
            Observe, ObserverTypeOK, Looking, Looked
    <2>2. failed' \in [Observer -> SUBSET Checks]
        <3>1. UNCHANGED failed \/ Fails(o, CycleAt(o))
            BY DEF ReadCycle, MissCycle, ReadMemberships, MissMemberships, reportVars
        <3>2. failed[o] \cup {CycleAt(o)} \in SUBSET Checks
            BY <1>1, <1>3 DEF ObserverTypeOK
        <3> QED
            BY <1>1, <3>1, <3>2 DEF Fails, ObserverTypeOK
    <2>3. LooksAway(o)
        BY <1>1 DEF ReadCycle, MissCycle, ReadMemberships, MissMemberships, Fails,
            NextCycle, Observe, reportVars, ObserverTypeOK, LooksAway
    <2> QED
        BY <2>1, <2>2, <2>3
<1>7. ObserverTypeOK'
    BY <1>1, <1>2, <1>4, <1>6 DEF ObserverTypeOK, LooksAway
<1>8. failed'[o] \cap CountChecks = failed[o] \cap CountChecks
    BY <1>3, <1>5, CheckNamesAssumption
<1> QED
    BY <1>1, <1>2, <1>4, <1>6, <1>7, <1>8
    DEF Looks, LookInv, QueryInv, TurnInv, CountInv

LEMMA QueriesLook ==
    ASSUME ObserverInv, NEW o \in Observer,
           \/ \E ps \in SUBSET Product \ {{}}, ms \in SUBSET Period :
                    ReadContracts(o, ps, ms)
           \/ ReadPeriods(o)
    PROVE  Looks(o)
<1>1. ObserverTypeOK /\ LookInv(o) /\ TypeOK /\ WholeDesiredStates /\ o \in Runner
    BY ObserverAssumption DEF ObserverInv, StoreInv, Inv
<1>2. CASE \E ps \in SUBSET Product \ {{}}, ms \in SUBSET Period :
                ReadContracts(o, ps, ms)
    <2>1. PICK ps \in SUBSET Product \ {{}}, ms \in SUBSET Period :
                ReadContracts(o, ps, ms)
        BY <1>2
    <2>2. /\ UNCHANGED <<rows, phase, failed, counted, turn, readyBefore>>
          /\ look[o] = "idle" /\ look'[o] = "contracts"
          /\ locked'[o] = {"futures_contracts"} /\ TablesExist
          /\ fetched'[o] = ContractsOf(ps, ms)
        BY <1>1, <2>1 DEF ReadContracts, Lock, Observe, reportVars, ObserverTypeOK,
            TypeOK
    <2>3. ContractsOf(ps, ms) \subseteq RowsOf(rows, "futures_contracts")
        BY DEF ContractsOf
    <2>4. RowsOf(rows, "futures_contracts")' = RowsOf(rows, "futures_contracts")
        BY <2>2 DEF RowsOf, Present
    <2>5. RowsOf(rows, "futures_contracts") \subseteq Key
        BY DEF RowsOf, Present
    <2>6. ObserverTypeOK' /\ LooksAway(o)
        BY <1>1, <2>1, <2>2, <2>3, <2>5 DEF ReadContracts, Observe, ObserverTypeOK,
            LooksAway, Looking, Looked
    <2> QED
        BY <1>1, <2>2, <2>3, <2>4, <2>6
        DEF Looks, LookInv, QueryInv, TurnInv, CountInv
<1>3. CASE ReadPeriods(o)
    <2>1. PeriodsMissing(o) = {}
        BY <1>1, <1>3, ContractsHaveTheirs DEF ReadPeriods, LookInv, QueryInv,
            PeriodsMissing
    <2>2. /\ UNCHANGED <<phase, failed, counted, turn, fetched, readyBefore>>
          /\ look[o] = "contracts" /\ look'[o] = "answered" /\ locked'[o] = {}
        BY <1>1, <1>3, <2>1 DEF ReadPeriods, Unlock, Observe, reportVars,
            ObserverTypeOK, TypeOK
    <2>3. ObserverTypeOK' /\ LooksAway(o)
        BY <1>1, <1>3, <2>1, <2>2 DEF ReadPeriods, Observe, ObserverTypeOK,
            LooksAway, Looking, Looked
    <2> QED
        BY <1>1, <2>2, <2>3 DEF Looks, LookInv, QueryInv, TurnInv, CountInv
<1> QED
    BY <1>2, <1>3

LEMMA EndingsLook ==
    ASSUME ObserverInv, NEW o \in Observer,
           \/ ReportLosesTables(o) \/ QueryFindsNoTables(o)
           \/ Disconnect(o) \/ EndObservation(o)
    PROVE  Looks(o)
<1>1. ObserverTypeOK /\ LookInv(o) /\ TypeOK /\ o \in Runner
    BY ObserverAssumption DEF ObserverInv, StoreInv, Inv
<1>2. CASE ReportLosesTables(o) \/ QueryFindsNoTables(o) \/ Disconnect(o)
    <2>1. /\ UNCHANGED <<phase, failed, counted, turn, fetched, readyBefore>>
          /\ look'[o] = "raised" /\ locked'[o] = {}
        BY <1>1, <1>2 DEF ReportLosesTables, QueryFindsNoTables, Disconnect, Unlock,
            Observe, reportVars, transactionVars, ObserverTypeOK, TypeOK, LookInv,
            QueryInv
    <2>2. ObserverTypeOK' /\ LooksAway(o)
        BY <1>1, <1>2, <2>1 DEF ReportLosesTables, QueryFindsNoTables, Disconnect,
            Observe, ObserverTypeOK, LooksAway, Looking, Looked
    <2> QED
        BY <1>1, <2>1, <2>2 DEF Looks, LookInv, QueryInv, TurnInv, CountInv
<1>3. CASE EndObservation(o)
    <2>1. /\ UNCHANGED <<phase, locked>>
          /\ look[o] \in Looked /\ look'[o] = "idle" /\ turn'[o] = 1 /\ ~counted'[o]
        BY <1>1, <1>3 DEF EndObservation, Observe, transactionVars, ObserverTypeOK
    <2>2. ObserverTypeOK' /\ LooksAway(o)
        BY <1>1, <1>3, CyclesAreListed DEF EndObservation, Observe, ObserverTypeOK,
            LooksAway, Looking, Looked
    <2> QED
        BY <1>1, <2>1, <2>2 DEF Looks, LookInv, QueryInv, TurnInv, CountInv, Looked
<1> QED
    BY <1>2, <1>3

LEMMA ObservationBesideCommands ==
    ASSUME ObserverInv, NEW o \in Observer, Observation(o)
    PROVE  ObserverInv'
<1>1. Looks(o)
    BY DiagnosticsLook, CountLooks, CyclesLook, QueriesLook, EndingsLook
    DEF Observation, Diagnose, EndsEarly
<1>2. StoreInv'
    BY <1>1, ObservationKeepsStore DEF ObserverInv, LookInv, QueryInv, Looks
<1>3. ASSUME NEW s \in Observer, s # o PROVE LookInv(s)'
    <2>1. /\ UNCHANGED <<rows, phase>> /\ locked'[s] = locked[s]
        BY <1>3, ObservationIsOwn, ObserverAssumption DEF ObserverInv, StoreInv, Inv
    <2>2. LookInv(s)
        BY DEF ObserverInv
    <2> QED
        BY <1>1, <1>3, <2>1, <2>2 DEF Looks, LooksAway, LookInv, QueryInv, TurnInv,
            CountInv, RowsOf, Present
<1> QED
    BY <1>1, <1>2, <1>3 DEF ObserverInv, Looks

LEMMA ObserverInvStep ==
    ASSUME ObserverInv, [ObservedNext]_observedVars
    PROVE  ObserverInv'
<1>1. CASE UNCHANGED observedVars
    <2>1. UNCHANGED vars /\ UNCHANGED observerVars
        BY <1>1 DEF observedVars
    <2>2. /\ UNCHANGED <<look, failed, counted, turn, fetched, readyBefore>>
          /\ UNCHANGED <<rows, relations, phase, op, input, written, locked>>
        BY <2>1 DEF vars, observerVars, reportVars, migrationVars, schemaState,
            commandVars, transactionVars
    <2>3. Inv'
        BY <2>1 DEF vars, commandVars, transactionVars, migrationVars, schemaState,
            runnerState, ObserverInv, StoreInv, Inv, TypeOK, RunnerTypeOK, StoredInv,
            TablesExist, PathsAreUnique, Present, CommandInv, InputInv, LockInv,
            WrittenInv, KeptInv, PathInv, Asked, Desired, Apart
    <2>4. StoreInv'
        BY <2>2, <2>3 DEF ObserverInv, StoreInv, WholeDesiredStates,
            ProductsAreFinite, RowsOf, Present, Holds, Free
    <2>5. ObserverTypeOK' /\ \A o \in Observer : LookInv(o)'
        BY <2>2 DEF ObserverInv, ObserverTypeOK, LookInv, QueryInv, TurnInv,
            CountInv, RowsOf, Present
    <2> QED
        BY <2>4, <2>5 DEF ObserverInv
<1> QED
    BY <1>1, CommandBesideObservers, ObservationBesideCommands DEF ObservedNext

LEMMA ObserverInvariant == ObservedSpec => []ObserverInv
BY ObserverInvInit, ObserverInvStep, PTL DEF ObservedSpec

\* The state of every observer stays within its type, whatever the commands
\* beside it do to the store.
THEOREM ObserversTypeCorrect == ObservedSpec => []ObserverTypeOK
<1>1. ObserverInv => ObserverTypeOK
    BY DEF ObserverInv
<1> QED
    BY <1>1, ObserverInvariant, PTL

\* The two statements of a contract query fit together, whichever builds and
\* rebuilds come between them.
THEOREM QueriesNeverMissPeriods == ObservedSpec => []ContractsHavePeriods
<1>1. ObserverInv => ContractsHavePeriods
    BY DEF ObserverInv, LookInv, QueryInv, ContractsHavePeriods
<1> QED
    BY <1>1, ObserverInvariant, PTL

\* The row counts of a report are those of whole desired states, whatever is
\* built, dropped or rolled back around the transaction that counts.
THEOREM ReportsCountWholeStates == ObservedSpec => []CountsAreOfWholeStates
<1>1. ObserverInv => CountsAreOfWholeStates
    BY DEF ObserverInv, LookInv, CountInv, CountsAreOfWholeStates
<1> QED
    BY <1>1, ObserverInvariant, PTL

-----------------------------------------------------------------------------
(* While nobody rebuilds *)

BuildsOnly == "rebuild" \notin Operations

\* Every process has the same package, so the ledger holds nothing else; there
\* is a ledger where there are relations, and a schema where there is a ledger.
SchemaInv ==
    /\ \A r \in Runner : op[r] = "build"
    /\ \A r \in Runner : step[r] # "idle" => package[r] = Packaged
    /\ \A v \in Version : ledger[v] \in {Absent, Packaged[v]}
    /\ relations # {} => ledgerExists
    /\ ledgerExists => schemaExists

\* Nothing is taken from the store.
StoreGrows ==
    /\ \A k \in Key : rows[k] # Unset => rows'[k] # Unset
    /\ Recorded(ledger) \subseteq Recorded(ledger)'

LEMMA SchemaInvInit == ObservedInit => SchemaInv
BY DEF ObservedInit, Init, MigrationInit, SchemaInv

LEMMA MigrateSchema ==
    ASSUME TypeOK, SchemaInv, NEW r \in Runner, MigrateAct(r)
    PROVE  SchemaInv' /\ Recorded(ledger) \subseteq Recorded(ledger)'
<1> USE DEF GoTo, Raise, schemaState, runnerState
<1>1. /\ op' = op
      /\ step \in [Runner -> {"idle"} \cup Active \cup Ended]
      /\ package \in [Runner -> Ledgers]
      /\ ledger \in [Version -> Checksum \cup {Absent}]
      /\ Packaged \in [Version -> Checksum \cup {Absent}]
    BY TrackedType, PackageAssumption, MigrateActType
    DEF TypeOK, RunnerTypeOK, Ledgers, Packaged, commandVars
<1>2. ASSUME \A s \in Runner : step'[s] # "idle" => package'[s] = Packaged,
             UNCHANGED schemaState
      PROVE  SchemaInv' /\ Recorded(ledger) \subseteq Recorded(ledger)'
    BY <1>1, <1>2 DEF SchemaInv, Recorded
<1>3. ASSUME NEW v \in Version, step[r] = "apply", CanApply(v), CommitMigration(r, v),
             \A s \in Runner : step'[s] # "idle" => package'[s] = Packaged
      PROVE  SchemaInv' /\ Recorded(ledger) \subseteq Recorded(ledger)'
    <2>1. /\ ledger' = [ledger EXCEPT ![v] = Packaged[v]]
          /\ ledger[v] = Absent
          /\ ledgerExists /\ UNCHANGED <<ledgerExists, schemaExists>>
        BY <1>3 DEF SchemaInv, CommitMigration, CanApply
    <2> QED
        BY <1>1, <1>3, <2>1 DEF SchemaInv, Recorded
<1>4. CASE CallMigrate(r)
    BY <1>1, <1>2, <1>4 DEF CallMigrate, StartMigrate, Discover, SchemaInv, Packaged
<1>5. CASE CreateSchemaIfNotExists(r) \/ BootstrapCollides(r) \/ ReadLedger(r)
           \/ ApplyCollides(r) \/ ReturnMigrated(r) \/ Validate(r) \/ LedgerMissing(r)
           \/ Interrupt(r)
    BY <1>1, <1>2, <1>5 DEF CreateSchemaIfNotExists, BootstrapCollides, ReadLedger,
        ApplyCollides, ReturnMigrated, Validate, RejectUnknown, RejectMismatch,
        LedgerMissing, ReadingLedger, Interrupt, Active, SchemaInv
<1>6. CASE CommitBootstrap(r) \/ CommitBootstrapUnacknowledged(r)
    BY <1>1, <1>6 DEF CommitBootstrap, CommitBootstrapUnacknowledged, SchemaInv, Recorded
<1>7. CASE ApplyMigration(r) \/ CommitMigrationUnacknowledged(r)
    <2>1. \A s \in Runner : step'[s] # "idle" => package'[s] = Packaged
        BY <1>1, <1>7 DEF ApplyMigration, CommitMigrationUnacknowledged, SchemaInv
    <2>2. \E v \in Version : CanApply(v) /\ CommitMigration(r, v)
        BY <1>7 DEF ApplyMigration, CommitMigrationUnacknowledged
    <2>3. step[r] = "apply"
        BY <1>7 DEF ApplyMigration, CommitMigrationUnacknowledged
    <2> QED
        BY <1>3, <2>1, <2>2, <2>3
<1> QED
    BY <1>4, <1>5, <1>6, <1>7 DEF MigrateAct, MigrateStep, MigrateLosesLedger,
        MigrateFault, Migrate, Fault

LEMMA BuildsGrow ==
    ASSUME BuildsOnly, Inv, SchemaInv, NEW r \in Runner, Free(r), CommandStep(r)
    PROVE  SchemaInv' /\ StoreGrows
<1> USE DEF Enter, Abort
<1>1. /\ TypeOK
      /\ step \in [Runner -> {"idle"} \cup Active \cup Ended]
      /\ op \in [Runner -> {"build", "rebuild"}]
    BY DEF Inv, TypeOK, RunnerTypeOK
<1>2. ~DropOwnedSchema(r) /\ ~DropUnacknowledged(r)
    BY DEF DropOwnedSchema, DropUnacknowledged, Inv, CommandInv, InputInv, SchemaInv
<1>3. \A k \in Key : rows[k] # Unset => rows'[k] # Unset
    BY <1>2, CommandRows DEF Publishes, Overlay
<1>4. CASE Quiet(r)
    <2>1. UNCHANGED <<schemaState, step, package>>
        BY <1>4 DEF Quiet, Start, ConstructDesiredState, RejectInput, RejectWrite,
            Crash, EndCommand, migrationVars, runnerState
    <2>2. \A s \in Runner : op'[s] = "build"
        BY <1>1, <1>4, OperationsAssumption DEF Quiet, Start, ConstructDesiredState,
            RejectInput, RejectWrite, Crash, EndCommand, commandVars, SchemaInv,
            BuildsOnly
    <2> QED
        BY <1>3, <2>1, <2>2 DEF SchemaInv, StoreGrows, Recorded, schemaState
<1>5. CASE MigrateAct(r)
    BY <1>1, <1>3, <1>5, MigrateSchema DEF StoreGrows
<1>6. CASE MigrateReturns(r) \/ MigrateRaises(r)
    BY <1>1, <1>3, <1>6 DEF MigrateReturns, MigrateRaises, ForgetRunner, GoTo,
        SchemaInv, StoreGrows, Recorded, schemaState, commandVars, TypeOK, RunnerTypeOK
<1>7. CASE Writing(r) \/ Publishing(r)
    <2>1. UNCHANGED <<schemaState, step, package, op>>
        BY <1>7 DEF Writing, Write, Publishing, Commit, CommitUnacknowledged,
            migrationVars, runnerState, commandVars
    <2> QED
        BY <1>3, <2>1 DEF SchemaInv, StoreGrows, Recorded, schemaState
<1> QED
    BY <1>2, <1>4, <1>5, <1>6, <1>7, CommandSteps

LEMMA ObservationKeepsSchema ==
    ASSUME TypeOK, SchemaInv, NEW o \in Observer, Observation(o)
    PROVE  SchemaInv' /\ StoreGrows
<1>1. o \in Runner /\ RunnerTypeOK
    BY ObserverAssumption DEF TypeOK
<1>2. /\ UNCHANGED <<schemaState, rows, op>>
      /\ \A s \in Runner \ {o} : step'[s] = step[s] /\ package'[s] = package[s]
    BY ObservationIsOwn
<1>3. step'[o] # "idle" => package'[o] = Packaged
    <2>1. CASE StartDiagnostics(o)
        BY <1>1, <2>1 DEF StartDiagnostics, StartInspect, Discover, RunnerTypeOK, Packaged
    <2>2. CASE EndObservation(o)
        BY <1>1, <2>2 DEF EndObservation, ForgetRunner, GoTo, RunnerTypeOK
    <2>3. CASE Observation(o) /\ ~StartDiagnostics(o) /\ ~EndObservation(o)
        <3>1. package'[o] = package[o] /\ (step[o] # "idle" \/ step'[o] = step[o])
            <4>1. CASE InspectMigrations(o) \/ InspectFault(o)
                BY <4>1 DEF InspectMigrations, Inspect, InspectUninitialised,
                    InspectInconsistent, InspectBootstrap, InspectLedger,
                    LedgerMissing, ReadingLedger, InspectFault, Interrupt, Active,
                    runnerState
            <4>2. CASE \/ EndsEarly(o) \/ InspectRaises(o) \/ CountRows(o)
                       \/ ReadCycle(o) \/ MissCycle(o)
                       \/ ReadMemberships(o) \/ MissMemberships(o)
                <5>1. UNCHANGED vars
                    BY <4>2, EarlyEnd DEF InspectRaises, CountRows, ReadCycle,
                        MissCycle, ReadMemberships, MissMemberships
                <5> QED
                    BY <5>1 DEF vars, migrationVars, runnerState
            <4>3. CASE \/ ReportLosesTables(o) \/ QueryFindsNoTables(o)
                       \/ Disconnect(o) \/ ReadPeriods(o)
                       \/ \E ps \in SUBSET Product \ {{}}, ms \in SUBSET Period :
                                ReadContracts(o, ps, ms)
                BY <4>3 DEF ReportLosesTables, QueryFindsNoTables, Disconnect,
                    ReadPeriods, ReadContracts, migrationVars, runnerState
            <4> QED
                BY <2>3, <4>1, <4>2, <4>3 DEF Observation, Diagnose, EndsEarly
        <3> QED
            BY <1>1, <3>1 DEF SchemaInv
    <2> QED
        BY <2>1, <2>2, <2>3
<1> QED
    BY <1>2, <1>3 DEF SchemaInv, StoreGrows, Recorded, schemaState

-----------------------------------------------------------------------------
(* What a ready store is, in parts that stay as the store grows *)

Migrated == Recorded(Packaged) \subseteq Recorded(ledger)
Filled == \A t \in Tables : SomeIn(rows, t)
Stands(i) ==
    CycleIsThere(rows, CanonicalCycles[i]) /\ HasMembers(rows, CanonicalCycles[i])
IsReady == Migrated /\ Filled /\ \A i \in DOMAIN CanonicalCycles : Stands(i)

LEMMA ReadyInParts ==
    ASSUME TypeOK, WholeDesiredStates
    PROVE  StoreReady <=> IsReady
<1>1. \A t : SomeIn(rows, t) <=> \E k \in Present(rows) : k.table = t
    BY DEF SomeIn, RowsOf
<1>2. \A c : HasMembers(rows, c) <=>
            \E k \in Present(rows) : k.table = "period_cycle_memberships" /\ k.id[1] = c
    BY DEF HasMembers, RowsOf
<1>3. \A p \in Product : rows[Row("futures_products", p)] # Unset =>
                            rows[Row("futures_product_sources", p)] # Unset
    BY SourcesMatchProducts
<1> QED
    BY <1>1, <1>2, <1>3 DEF StoreReady, IsReady, Migrated, Filled, Stands,
        CycleIsThere, Packaged

LEMMA GrowthKeeps ==
    ASSUME StoreGrows
    PROVE  /\ Migrated => Migrated'
           /\ Filled => Filled'
           /\ \A i \in DOMAIN CanonicalCycles :
                /\ Stands(i) => Stands(i)'
                /\ CycleIsThere(rows, CanonicalCycles[i]) =>
                        CycleIsThere(rows, CanonicalCycles[i])'
<1>1. \A c \in Cycle : Row("period_cycles", c) \in Key
    BY DEF Row, Key
<1>2. \A t : SomeIn(rows, t) => SomeIn(rows, t)'
    BY DEF StoreGrows, SomeIn, RowsOf, Present
<1>3. \A c : HasMembers(rows, c) => HasMembers(rows, c)'
    BY DEF StoreGrows, HasMembers, RowsOf, Present
<1>4. \A c \in Cycle : CycleIsThere(rows, c) => CycleIsThere(rows, c)'
    BY <1>1 DEF StoreGrows, CycleIsThere
<1> QED
    BY <1>2, <1>3, <1>4, CyclesAreListed
    DEF StoreGrows, Migrated, Filled, Stands

\* A ready store has its schema and passes the counts.
LEMMA ReadyStoreServes ==
    ASSUME StoreInv, SchemaInv, IsReady
    PROVE  /\ TablesExist /\ ledgerExists /\ schemaExists
           /\ FailedCounts(rows) = {}
<1>1. TypeOK /\ StoredInv /\ WholeDesiredStates /\ ProductsAreFinite
    BY DEF StoreInv, Inv
<1>2. "periods" \in Tables
    BY DEF Tables
<1>3. Present(rows) # {}
    BY <1>2 DEF IsReady, Filled, SomeIn, RowsOf
<1>4. TablesExist
    BY <1>1, <1>3 DEF StoredInv
<1>5. ledgerExists /\ schemaExists
    BY <1>4 DEF TablesExist, SchemaInv
<1>6. \A t \in Tables : SomeIn(rows, t)
    BY DEF IsReady, Filled
<1>7. ProvenanceComplete(rows)
    BY <1>1, ProvenanceIsComplete
<1>8. \A check \in CountChecks : CountsPass(rows, check)
    <2>1. /\ SomeIn(rows, "futures_products")
          /\ SomeIn(rows, "periods")
          /\ SomeIn(rows, "futures_contracts")
          /\ SomeIn(rows, "period_cycles")
          /\ SomeIn(rows, "period_cycle_memberships")
        BY <1>6 DEF Tables
    <2> QED
        BY <1>7, <2>1, Zenon DEF CountChecks, CountsPass
<1> QED
    BY <1>4, <1>5, <1>8, Zenon DEF FailedCounts

-----------------------------------------------------------------------------
(* Reports while nobody rebuilds *)

\* What a report has found so far is still so.
ReportInv(o) ==
    /\ Current(inspection[o]) => Migrated
    /\ counted[o] => Current(inspection[o])
    /\ look[o] \in {"cycle", "memberships"} => counted[o]
    /\ look[o] = "memberships" => CycleIsThere(rows, CycleAt(o))
    /\ counted[o] /\ failed[o] = {} => Filled /\ \A i \in 1..turn[o] - 1 : Stands(i)
    /\ look[o] = "reported" /\ counted[o] => turn[o] = Len(CanonicalCycles) + 1

\* A report that was begun on a ready store has found nothing to complain of.
AlarmInv(o) ==
    readyBefore[o] =>
        /\ IsReady
        /\ look[o] \in {"inspect", "cycle", "memberships", "reported", "raised"}
        /\ look[o] = "inspect" =>
                \/ step[o] \in {"inspect_bootstrap", "inspect_ledger"}
                \/ step[o] = "inspected" /\ Current(inspection[o])
                \/ step[o] = "failed" /\ err[o] = "OperationalError"
        /\ look[o] \in {"cycle", "memberships", "reported"} =>
                Current(inspection[o]) /\ counted[o] /\ failed[o] = {}
        /\ look[o] = "raised" => err[o] = "OperationalError"

ReportsInv ==
    /\ ObserverInv
    /\ SchemaInv
    /\ \A o \in Observer : ReportInv(o) /\ AlarmInv(o)

LEMMA ReportsInvInit == ObservedInit => ReportsInv
<1> SUFFICES ASSUME ObservedInit PROVE ReportsInv
    OBVIOUS
<1>1. \A o \in Observer : /\ ~Current(inspection[o]) /\ ~counted[o]
                          /\ look[o] = "idle" /\ ~readyBefore[o]
    BY ObserverAssumption DEF ObservedInit, Init, MigrationInit, NotInspected, Current
<1> QED
    BY <1>1, ObserverInvInit, SchemaInvInit DEF ReportsInv, ReportInv, AlarmInv

\* Of an observer that does not move, while the store grows.
LEMMA ReportStays ==
    ASSUME ObserverTypeOK, StoreGrows,
           NEW o \in Observer, ReportInv(o), AlarmInv(o),
           step'[o] = step[o], inspection'[o] = inspection[o], err'[o] = err[o],
           look'[o] = look[o], failed'[o] = failed[o], counted'[o] = counted[o],
           turn'[o] = turn[o], readyBefore'[o] = readyBefore[o]
    PROVE  ReportInv(o)' /\ AlarmInv(o)'
<1>1. /\ Migrated => Migrated'
      /\ Filled => Filled'
      /\ \A i \in DOMAIN CanonicalCycles : Stands(i) => Stands(i)'
    BY GrowthKeeps
<1>2. look[o] = "memberships" => CycleIsThere(rows, CycleAt(o))'
    BY GrowthKeeps DEF ReportInv, ObserverTypeOK, CycleAt
<1>3. turn[o] \in Nat /\ \A i \in 1..turn[o] - 1 : i \in DOMAIN CanonicalCycles
    BY CyclesAreListed DEF ObserverTypeOK
<1>4. Current(inspection[o])' <=> Current(inspection[o])
    BY DEF Current
<1>5. IsReady => IsReady'
    BY <1>1 DEF IsReady
<1>6. ReportInv(o)'
    <2>1. look'[o] = "memberships" => CycleIsThere(rows, CycleAt(o))'
        BY <1>2
    <2> QED
        BY <1>1, <1>3, <1>4, <2>1 DEF ReportInv
<1>7. AlarmInv(o)'
    BY <1>4, <1>5 DEF AlarmInv
<1> QED
    BY <1>6, <1>7

\* Of an observer's own step the store notices nothing.
LEMMA StoreIsStill ==
    ASSUME UNCHANGED <<schemaState, rows>>
    PROVE  /\ Migrated' = Migrated /\ Filled' = Filled /\ IsReady' = IsReady
           /\ \A i : Stands(i)' = Stands(i)
           /\ \A c : CycleIsThere(rows, c)' = CycleIsThere(rows, c)
BY DEF schemaState, Migrated, Filled, IsReady, Stands, SomeIn, CycleIsThere,
    HasMembers, RowsOf, Present, Recorded

LEMMA BeginReport ==
    ASSUME ReportsInv, NEW o \in Observer, StartDiagnostics(o)
    PROVE  ReportInv(o)' /\ AlarmInv(o)'
<1>1. /\ TypeOK /\ RunnerTypeOK /\ WholeDesiredStates /\ o \in Runner
      /\ ObserverTypeOK /\ CountInv(o) /\ ReportInv(o)
    BY ObserverAssumption DEF ReportsInv, ObserverInv, StoreInv, Inv, TypeOK, LookInv
<1>2. UNCHANGED <<schemaState, rows, inspection, counted>>
    BY <1>1 DEF StartDiagnostics, StartInspect, Discover
<1>3. /\ look[o] = "idle" /\ look'[o] = "inspect"
      /\ step'[o] = "inspect_bootstrap"
      /\ readyBefore'[o] = StoreReady
    BY <1>1 DEF StartDiagnostics, StartInspect, Discover, GoTo, Observe, RunnerTypeOK,
        ObserverTypeOK
<1>4. ~counted[o]
    BY <1>1, <1>3 DEF CountInv
<1>5. StoreReady <=> IsReady
    BY <1>1, ReadyInParts
<1> QED
    BY <1>1, <1>2, <1>3, <1>4, <1>5, StoreIsStill DEF ReportInv, AlarmInv, Current

LEMMA InspectReport ==
    ASSUME ReportsInv, NEW o \in Observer, InspectMigrations(o) \/ InspectFault(o)
    PROVE  ReportInv(o)' /\ AlarmInv(o)'
<1> USE DEF GoTo, Raise
<1>1. /\ TypeOK /\ RunnerTypeOK /\ o \in Runner /\ StoreInv /\ SchemaInv
      /\ ObserverTypeOK /\ CountInv(o) /\ ReportInv(o) /\ AlarmInv(o)
    BY ObserverAssumption DEF ReportsInv, ObserverInv, StoreInv, Inv, TypeOK, LookInv
<1>2. /\ UNCHANGED <<schemaState, rows, look, failed, counted, turn, readyBefore>>
      /\ look[o] = "inspect" /\ ~counted[o]
    BY <1>1 DEF InspectMigrations, Inspect, InspectUninitialised, InspectInconsistent,
        InspectBootstrap, InspectLedger, LedgerMissing, InspectFault, Interrupt,
        observerVars, reportVars, CountInv
<1>3. Current(inspection'[o]) => Migrated
    <2>1. CASE InspectLedger(o)
        <3>1. package[o] = Packaged
            BY <1>1, <2>1 DEF InspectLedger, SchemaInv
        <3>2. inspection'[o].pending = PendingIn(package[o])
            BY <1>1, <2>1 DEF InspectLedger, Report, RunnerTypeOK
        <3> QED
            BY <3>1, <3>2 DEF Current, PendingIn, Migrated
    <2>2. CASE InspectUninitialised(o)
        BY <1>1, <2>2 DEF InspectUninitialised, Report, RunnerTypeOK, Current
    <2>3. CASE \/ InspectInconsistent(o) \/ InspectBootstrap(o)
               \/ LedgerMissing(o) \/ InspectFault(o)
        <3>1. UNCHANGED inspection
            BY <2>3 DEF InspectInconsistent, InspectBootstrap, LedgerMissing,
                InspectFault, Interrupt, runnerState
        <3> QED
            BY <1>1, <3>1 DEF ReportInv
    <2> QED
        BY <2>1, <2>2, <2>3 DEF InspectMigrations, Inspect
<1>4. ReportInv(o)'
    BY <1>1, <1>2, <1>3, StoreIsStill DEF ReportInv, Current
<1>5. ASSUME readyBefore[o]
      PROVE  \/ step'[o] = "inspect_ledger"
             \/ step'[o] = "inspected" /\ Current(inspection'[o])
             \/ step'[o] = "failed" /\ err'[o] = "OperationalError"
    <2>1. IsReady /\ ledgerExists /\ schemaExists
        BY <1>1, <1>5, ReadyStoreServes DEF AlarmInv
    <2>2. CASE InspectLedger(o)
        <3>1. package[o] = Packaged
            BY <1>1, <2>2 DEF InspectLedger, SchemaInv
        <3>2. /\ inspection'[o].pending = PendingIn(package[o])
              /\ inspection'[o].initialised
              /\ step'[o] = "inspected"
            BY <1>1, <2>2 DEF InspectLedger, Report, RunnerTypeOK
        <3> QED
            BY <2>1, <3>1, <3>2 DEF Current, PendingIn, IsReady, Migrated
    <2>3. CASE InspectBootstrap(o)
        BY <1>1, <2>3 DEF InspectBootstrap, RunnerTypeOK
    <2>4. CASE InspectFault(o)
        BY <1>1, <2>4 DEF InspectFault, Interrupt, RunnerTypeOK, TypeOK
    <2>5. ~InspectUninitialised(o) /\ ~InspectInconsistent(o) /\ ~LedgerMissing(o)
        BY <2>1 DEF InspectUninitialised, InspectInconsistent, LedgerMissing
    <2> QED
        BY <2>2, <2>3, <2>4, <2>5 DEF InspectMigrations, Inspect
<1>6. AlarmInv(o)'
    BY <1>1, <1>2, <1>5, StoreIsStill DEF AlarmInv, Current
<1> QED
    BY <1>4, <1>6

\* A report that ends with the inspection was not begun on a ready store.
LEMMA EarlyReport ==
    ASSUME ReportsInv, NEW o \in Observer, EndsEarly(o) \/ InspectRaises(o)
    PROVE  ReportInv(o)' /\ AlarmInv(o)'
<1>1. /\ ObserverTypeOK /\ CountInv(o) /\ ReportInv(o) /\ AlarmInv(o)
    BY DEF ReportsInv, ObserverInv, LookInv
<1>2. /\ UNCHANGED <<vars, counted, turn, readyBefore>>
      /\ look[o] = "inspect" /\ ~counted[o]
      /\ look'[o] \in {"reported", "raised"}
      /\ look'[o] = "raised" => step[o] = "failed"
    <2>1. CASE EndsEarly(o)
        BY <1>1, <2>1, EarlyEnd DEF EndReport, Observe, ObserverTypeOK, CountInv
    <2>2. CASE InspectRaises(o)
        BY <1>1, <2>2 DEF InspectRaises, Observe, reportVars, ObserverTypeOK, CountInv
    <2> QED
        BY <2>1, <2>2
<1>3. UNCHANGED <<schemaState, rows, step, inspection, err>>
    BY <1>2 DEF vars, migrationVars, runnerState
<1>4. readyBefore[o] => look'[o] = "raised"
    <2>1. ~EndsEarly(o) \/ ~readyBefore[o]
        BY <1>1, <1>2 DEF EndsEarly, ReportMigrationError, ReportUninitialised,
            ReportPending, AlarmInv, Current
    <2>2. InspectRaises(o) => look'[o] = "raised"
        BY <1>1 DEF InspectRaises, Observe, ObserverTypeOK
    <2> QED
        BY <2>1, <2>2
<1> QED
    BY <1>1, <1>2, <1>3, <1>4, StoreIsStill DEF ReportInv, AlarmInv, Current

LEMMA CountReport ==
    ASSUME ReportsInv, NEW o \in Observer, CountRows(o)
    PROVE  ReportInv(o)' /\ AlarmInv(o)'
<1>1. /\ StoreInv /\ SchemaInv /\ TypeOK /\ WholeDesiredStates
      /\ ObserverTypeOK /\ TurnInv(o) /\ ReportInv(o) /\ AlarmInv(o)
    BY DEF ReportsInv, ObserverInv, StoreInv, Inv, LookInv
<1>2. /\ UNCHANGED <<vars, turn, readyBefore>>
      /\ look[o] = "inspect" /\ look'[o] = "cycle"
      /\ Current(inspection[o]) /\ counted'[o] /\ failed'[o] = FailedCounts(rows)
      /\ turn[o] = 1
    BY <1>1, Zenon DEF CountRows, Observe, ObserverTypeOK, TurnInv
<1>3. UNCHANGED <<schemaState, rows, step, inspection, err>>
    BY <1>2 DEF vars, migrationVars, runnerState
<1>4. FailedCounts(rows) = {} => Filled
    BY <1>1, CountsFillTables DEF Filled
<1>5. readyBefore[o] => FailedCounts(rows) = {}
    BY <1>1, ReadyStoreServes DEF AlarmInv
<1>6. ReportInv(o)'
    BY <1>1, <1>2, <1>3, <1>4, StoreIsStill DEF ReportInv, Current
<1>7. AlarmInv(o)'
    BY <1>1, <1>2, <1>3, <1>5, StoreIsStill DEF AlarmInv, Current
<1> QED
    BY <1>6, <1>7

LEMMA CycleReport ==
    ASSUME ReportsInv, NEW o \in Observer,
           ReadCycle(o) \/ MissCycle(o) \/ ReadMemberships(o) \/ MissMemberships(o)
    PROVE  ReportInv(o)' /\ AlarmInv(o)'
<1>1. /\ ObserverTypeOK /\ ReportInv(o) /\ AlarmInv(o)
    BY DEF ReportsInv, ObserverInv
<1>2. /\ UNCHANGED <<vars, counted, readyBefore>>
      /\ look[o] \in {"cycle", "memberships"} /\ turn[o] \in DOMAIN CanonicalCycles
      /\ look'[o] \in {"cycle", "memberships", "reported"}
    BY <1>1 DEF ReadCycle, MissCycle, ReadMemberships, MissMemberships, reportVars,
        NextCycle, Observe, ObserverTypeOK
<1>3. UNCHANGED <<schemaState, rows, step, inspection, err>>
    BY <1>2 DEF vars, migrationVars, runnerState
<1>4. /\ counted[o] /\ Current(inspection[o]) /\ Migrated
      /\ turn[o] \in 1..Len(CanonicalCycles) /\ Len(CanonicalCycles) \in Nat
    BY <1>1, <1>2, CyclesAreListed DEF ReportInv
<1>5. CASE ReadCycle(o)
    <2>1. UNCHANGED <<failed, turn>> /\ look'[o] = "memberships"
          /\ CycleIsThere(rows, CycleAt(o))
        BY <1>1, <1>5 DEF ReadCycle, reportVars, Observe, ObserverTypeOK
    <2> QED
        BY <1>1, <1>2, <1>3, <1>4, <2>1, StoreIsStill
        DEF ReportInv, AlarmInv, Current, CycleAt
<1>6. CASE ReadMemberships(o)
    <2>1. /\ UNCHANGED failed /\ turn'[o] = turn[o] + 1
          /\ look'[o] = IF turn[o] = Len(CanonicalCycles) THEN "reported" ELSE "cycle"
          /\ Stands(turn[o])
        BY <1>1, <1>6 DEF ReadMemberships, NextCycle, Observe, ObserverTypeOK,
            ReportInv, CycleAt, Stands
    <2>2. 1..turn'[o] - 1 = (1..turn[o] - 1) \cup {turn[o]}
        BY <1>4, <2>1
    <2>3. ReportInv(o)'
        BY <1>1, <1>2, <1>3, <1>4, <2>1, <2>2, StoreIsStill DEF ReportInv, Current
    <2>4. AlarmInv(o)'
        BY <1>1, <1>2, <1>3, <1>4, <2>1, StoreIsStill DEF AlarmInv, Current
    <2> QED
        BY <2>3, <2>4
<1>7. CASE MissCycle(o) \/ MissMemberships(o)
    <2>1. /\ failed'[o] = failed[o] \cup {CycleAt(o)} /\ turn'[o] = turn[o] + 1
          /\ look'[o] = IF turn[o] = Len(CanonicalCycles) THEN "reported" ELSE "cycle"
          /\ ~Stands(turn[o])
        BY <1>1, <1>7 DEF MissCycle, MissMemberships, Fails, NextCycle, Observe,
            ObserverTypeOK, CycleAt, Stands
    <2>2. ~readyBefore[o]
        BY <1>1, <1>2, <2>1 DEF AlarmInv, IsReady
    <2> QED
        BY <1>1, <1>2, <1>3, <1>4, <2>1, <2>2, StoreIsStill
        DEF ReportInv, AlarmInv, Current
<1> QED
    BY <1>5, <1>6, <1>7

LEMMA OtherReport ==
    ASSUME ReportsInv, NEW o \in Observer,
           \/ \E ps \in SUBSET Product \ {{}}, ms \in SUBSET Period :
                    ReadContracts(o, ps, ms)
           \/ ReadPeriods(o) \/ QueryFindsNoTables(o) \/ ReportLosesTables(o)
           \/ Disconnect(o) \/ EndObservation(o)
    PROVE  ReportInv(o)' /\ AlarmInv(o)'
<1>1. /\ ObserverTypeOK /\ LookInv(o) /\ ReportInv(o) /\ AlarmInv(o)
      /\ TypeOK /\ RunnerTypeOK /\ o \in Runner
    BY ObserverAssumption DEF ReportsInv, ObserverInv, StoreInv, Inv, TypeOK
<1>2. CASE \/ \E ps \in SUBSET Product \ {{}}, ms \in SUBSET Period :
                    ReadContracts(o, ps, ms)
           \/ ReadPeriods(o)
    <2>1. /\ UNCHANGED <<schemaState, rows, step, inspection, failed, counted, turn,
                         readyBefore>>
          /\ look[o] \in {"idle", "contracts"}
          /\ look'[o] \in {"contracts", "answered", "lookup_error"}
        BY <1>1, <1>2 DEF ReadContracts, ReadPeriods, Observe, migrationVars,
            runnerState, reportVars, ObserverTypeOK
    <2>2. ~readyBefore[o]
        BY <1>1, <2>1 DEF AlarmInv
    <2> QED
        BY <1>1, <2>1, <2>2, StoreIsStill DEF ReportInv, AlarmInv, Current
<1>3. CASE QueryFindsNoTables(o) \/ ReportLosesTables(o) \/ Disconnect(o)
    <2>1. /\ UNCHANGED <<schemaState, rows, step, inspection, failed, counted, turn,
                         readyBefore>>
          /\ look'[o] = "raised"
        BY <1>1, <1>3 DEF QueryFindsNoTables, ReportLosesTables, Disconnect, Observe,
            runnerState, reportVars, ObserverTypeOK
    <2>2. readyBefore[o] => IsReady /\ err'[o] = "OperationalError"
        <3>1. ASSUME readyBefore[o] PROVE IsReady /\ TablesExist
            BY <1>1, <3>1, ReadyStoreServes DEF AlarmInv, ReportsInv, ObserverInv
        <3> QED
            BY <1>1, <1>3, <3>1 DEF QueryFindsNoTables, ReportLosesTables, Disconnect,
                TypeOK
    <2> QED
        BY <1>1, <2>1, <2>2, StoreIsStill DEF ReportInv, AlarmInv, Current
<1>4. CASE EndObservation(o)
    <2>1. /\ UNCHANGED <<schemaState, rows>>
          /\ look'[o] = "idle" /\ inspection'[o] = NotInspected
          /\ ~counted'[o] /\ ~readyBefore'[o]
        BY <1>1, <1>4 DEF EndObservation, Observe, ObserverTypeOK, RunnerTypeOK
    <2> QED
        BY <2>1 DEF ReportInv, AlarmInv, Current, NotInspected
<1> QED
    BY <1>2, <1>3, <1>4

LEMMA ReportsInvStep ==
    ASSUME BuildsOnly, ReportsInv, [ObservedNext]_observedVars
    PROVE  ReportsInv'
<1>1. /\ ObserverInv /\ ObserverTypeOK /\ SchemaInv /\ StoreInv /\ Inv /\ TypeOK
      /\ ObserverInv'
    BY ObserverInvStep DEF ReportsInv, ObserverInv, StoreInv, Inv
<1>2. ASSUME NEW o \in Observer, SchemaInv', StoreGrows,
             step'[o] = step[o], inspection'[o] = inspection[o], err'[o] = err[o],
             look'[o] = look[o], failed'[o] = failed[o], counted'[o] = counted[o],
             turn'[o] = turn[o], readyBefore'[o] = readyBefore[o]
      PROVE  ReportInv(o)' /\ AlarmInv(o)'
    BY <1>1, <1>2, ReportStays DEF ReportsInv
<1>3. CASE UNCHANGED observedVars
    <2>1. /\ UNCHANGED <<rows, schemaState, op, step, package, inspection, err>>
          /\ UNCHANGED <<look, failed, counted, turn, readyBefore>>
        BY <1>3 DEF observedVars, observerVars, reportVars, vars, migrationVars,
            runnerState, commandVars
    <2>2. SchemaInv' /\ StoreGrows
        BY <1>1, <2>1 DEF SchemaInv, StoreGrows, schemaState, Recorded
    <2> QED
        BY <1>1, <1>2, <2>1, <2>2 DEF ReportsInv
<1>4. ASSUME NEW r \in Runner \ Observer, CommandStep(r), UNCHANGED observerVars
      PROVE  ReportsInv'
    <2>1. SchemaInv' /\ StoreGrows
        BY <1>1, <1>4, BuildsGrow DEF StoreInv
    <2>2. UNCHANGED <<look, failed, counted, turn, readyBefore>>
        BY <1>4 DEF observerVars, reportVars
    <2>3. ASSUME NEW o \in Observer
          PROVE  step'[o] = step[o] /\ inspection'[o] = inspection[o] /\ err'[o] = err[o]
        <3>1. Free(r) /\ o \in Runner \ {r}
            BY <1>1, ObserverAssumption DEF StoreInv
        <3> QED
            BY <1>1, <1>4, <3>1, CommandIsOwn
    <2> QED
        BY <1>1, <1>2, <2>1, <2>2, <2>3 DEF ReportsInv
<1>5. ASSUME NEW o \in Observer, Observation(o) PROVE ReportsInv'
    <2>1. SchemaInv' /\ StoreGrows
        BY <1>1, <1>5, ObservationKeepsSchema
    <2>2. LooksAway(o)
        BY <1>1, <1>5, DiagnosticsLook, CountLooks, CyclesLook, QueriesLook, EndingsLook
        DEF Observation, Diagnose, EndsEarly, Looks
    <2>3. ASSUME NEW s \in Observer, s # o PROVE ReportInv(s)' /\ AlarmInv(s)'
        <3>1. step'[s] = step[s] /\ inspection'[s] = inspection[s] /\ err'[s] = err[s]
            BY <1>1, <1>5, <2>3, ObservationIsOwn, ObserverAssumption
        <3> QED
            BY <1>2, <2>1, <2>2, <2>3, <3>1 DEF LooksAway
    <2>4. ReportInv(o)' /\ AlarmInv(o)'
        BY <1>5, BeginReport, InspectReport, EarlyReport, CountReport, CycleReport,
            OtherReport
        DEF Observation, Diagnose, EndsEarly
    <2> QED
        BY <1>1, <2>1, <2>3, <2>4 DEF ReportsInv
<1> QED
    BY <1>3, <1>4, <1>5 DEF ObservedNext

LEMMA ReportsInvariant == BuildsOnly => (ObservedSpec => []ReportsInv)
<1> SUFFICES ASSUME BuildsOnly PROVE ObservedSpec => []ReportsInv
    OBVIOUS
<1>1. ReportsInv /\ [ObservedNext]_observedVars => ReportsInv'
    BY ReportsInvStep
<1> QED
    BY <1>1, ReportsInvInit, PTL DEF ObservedSpec

\* A report that says ready is right when it is read, while every command is a
\* build: its parts were observed at different times, and what each of them
\* found is not taken back by whatever is built, retried or rolled back.
THEOREM ReadyReportsAreRight == BuildsOnly => (ObservedSpec => []ReadyReportsHold)
<1>1. ASSUME ReportsInv PROVE ReadyReportsHold
    <2> SUFFICES ASSUME NEW o \in Observer, Ready(o) PROVE StoreReady
        BY DEF ReadyReportsHold
    <2>1. TypeOK /\ WholeDesiredStates /\ ObserverTypeOK /\ ReportInv(o)
        BY <1>1 DEF ReportsInv, ObserverInv, StoreInv, Inv
    <2>2. turn[o] = Len(CanonicalCycles) + 1 /\ DOMAIN CanonicalCycles = 1..turn[o] - 1
        BY <2>1, CyclesAreListed DEF Ready, ReportInv
    <2> QED
        BY <2>1, <2>2, ReadyInParts DEF Ready, ReportInv, IsReady
<1> QED
    BY <1>1, ReportsInvariant, PTL

\* A store that was ready when a report was begun is reported ready, while every
\* command is a build, unless the connection of the observer itself fails: no
\* build that runs beside the report, or fails, makes a check of it fail.
THEOREM ReadyStoresAreReported == BuildsOnly => (ObservedSpec => []NoFalseAlarm)
<1>1. ASSUME ReportsInv PROVE NoFalseAlarm
    BY <1>1 DEF ReportsInv, AlarmInv, NoFalseAlarm, Ready
<1> QED
    BY <1>1, ReportsInvariant, PTL
=============================================================================
