------------------------- MODULE MaterialisationProofs -------------------------
(***************************************************************************)
(* Proofs about materialisation: for any number of processes, inputs and    *)
(* failures the committed rows are whole desired states, and the commands   *)
(* implement the abstract store.                                            *)
(***************************************************************************)
EXTENDS Materialisation, MigrationsProofs

-----------------------------------------------------------------------------
(* Facts about rows and desired states *)

LEMMA KeyShape ==
    ASSUME NEW k \in Key
    PROVE  /\ k = Row(k.table, k.id)
           /\ \/ k.table = "periods" /\ k.id \in Period
              \/ k.table = "period_cycles" /\ k.id \in Cycle
              \/ k.table = "period_cycle_memberships" /\ k.id \in Members
              \/ k.table = "futures_products" /\ k.id \in Product
              \/ k.table = "futures_product_sources" /\ k.id \in Product
              \/ k.table = "futures_contracts" /\ k.id \in Product \X Period
BY DEF Key, Row

LEMMA KeyTable == ASSUME NEW k \in Key PROVE k.table \in Tables
BY KeyShape DEF Tables

LEMMA DesiredRowType ==
    ASSUME NEW in \in Inputs, NEW k \in Key
    PROVE  DesiredRow(in, k) \in Value \cup {Unset}
<1>1. in \in InputType
    BY InputsAssumption
<1>2. CASE k.table = "periods" \/ k.table = "period_cycles"
    BY <1>2, KeyShape DEF DesiredRow, Value
<1>3. CASE k.table = "period_cycle_memberships"
    <2>1. k.id[2] \in Period
        BY <1>3, KeyShape DEF Members
    <2> QED
        BY <1>3, <2>1 DEF DesiredRow, Value
<1>4. CASE k.table = "futures_products"
    <2>1. k.id \in Product
        BY <1>4, KeyShape
    <2> QED
        BY <1>1, <1>4, <2>1 DEF DesiredRow, Value, InputType
<1>5. CASE k.table = "futures_product_sources"
    <2>1. k.id \in Product
        BY <1>5, KeyShape
    <2>2. [path |-> in.path[k.id], revision |-> in.revision] \in Provenance
        BY <1>1, <2>1 DEF InputType, Provenance
    <2> QED
        BY <1>5, <2>2 DEF DesiredRow, Value
<1>6. CASE k.table = "futures_contracts"
    <2>1. k.id[1] \in Product
        BY <1>6, KeyShape
    <2>2. ASSUME HasContract(in, k.id[1], k.id[2])
          PROVE  [definition |-> in.definition[k.id[1]], calendar |-> in.calendar]
                    \in Lifecycle
        BY <1>1, <2>1, <2>2 DEF InputType, Lifecycle, HasContract
    <2> QED
        BY <1>6, <2>2 DEF DesiredRow, Value
<1> QED
    BY <1>2, <1>3, <1>4, <1>5, <1>6, KeyShape

LEMMA DesiredType ==
    ASSUME NEW in \in Inputs
    PROVE  /\ DesiredOf[in] \in States
           /\ \A k \in Key : DesiredOf[in][k] = DesiredRow(in, k)
BY DesiredRowType DEF DesiredOf, BuildDesiredState, States

LEMMA SourceRow ==
    ASSUME NEW in \in Inputs, NEW k \in Key, IsSource(k), DesiredOf[in][k] # Unset
    PROVE  /\ k.id \in Product
           /\ in.definition[k.id] # Unset
           /\ DesiredOf[in][k].path = in.path[k.id]
<1>1. k.id \in Product
    BY KeyShape DEF IsSource
<1>2. DesiredRow(in, k) = IF in.definition[k.id] = Unset THEN Unset
                          ELSE [path |-> in.path[k.id], revision |-> in.revision]
    BY DEF IsSource, DesiredRow
<1>3. DesiredOf[in][k] = DesiredRow(in, k)
    BY DesiredType
<1> QED
    BY <1>1, <1>2, <1>3

\* One input has one product per path.
LEMMA DesiredPaths ==
    ASSUME NEW in \in Inputs, NEW j \in Key, NEW k \in Key, IsSource(j), IsSource(k),
           DesiredOf[in][j] # Unset, DesiredOf[in][k] # Unset,
           DesiredOf[in][j].path = DesiredOf[in][k].path
    PROVE  j = k
<1>1. j.id = k.id
    BY SourceRow, PathAssumption
<1> QED
    BY <1>1, KeyShape DEF IsSource

-----------------------------------------------------------------------------
(* Type correctness *)

RunnerVars == <<schemaState, step, runnerState, faults>>

LEMMA RunnerTypeStable == ASSUME RunnerTypeOK, UNCHANGED RunnerVars PROVE RunnerTypeOK'
BY DEF RunnerTypeOK, RunnerVars, schemaState, runnerState

LEMMA TypeInit == Init => TypeOK
<1> SUFFICES ASSUME Init PROVE TypeOK
    OBVIOUS
<1>1. MigrationTypeOK
    BY MigrationTypeInit DEF Init
<1>2. rows \in States
    BY DEF Init, Empty, States
<1> QED
    BY <1>1, <1>2 DEF Init, TypeOK, MigrationTypeOK

\* A step of the runner inside a command.
MigrateAct(r) ==
    CallMigrate(r) \/ MigrateStep(r) \/ MigrateLosesLedger(r) \/ MigrateFault(r)

LEMMA MigrateActType ==
    ASSUME TypeOK, NEW r \in Runner, MigrateAct(r)
    PROVE  /\ TypeOK'
           /\ phase[r] = "migrate"
           /\ ErrStep(r)
           /\ UNCHANGED <<rows, phase, commandVars, transactionVars>>
<1>1. RunnerTypeOK
    BY DEF TypeOK
<1>2. /\ phase[r] = "migrate"
      /\ UNCHANGED <<rows, phase, commandVars, transactionVars>>
    BY DEF MigrateAct, CallMigrate, MigrateStep, MigrateLosesLedger, MigrateFault
<1>3. RunnerTypeOK' /\ ErrStep(r)
    <2>1. CASE CallMigrate(r)
        BY <1>1, <2>1, PackageAssumption, DiscoverType DEF CallMigrate, ErrStep
    <2>2. CASE MigrateStep(r)
        BY <1>1, <2>2, MigrateType, ValidateType DEF MigrateStep
    <2>3. CASE MigrateLosesLedger(r)
        BY <1>1, <2>3 DEF MigrateLosesLedger, LedgerMissing, RunnerTypeOK,
            schemaState, runnerState, GoTo, Raise, Ended, Errors, ErrStep
    <2>4. CASE MigrateFault(r)
        BY <1>1, <2>4, FaultType DEF MigrateFault
    <2> QED
        BY <2>1, <2>2, <2>3, <2>4 DEF MigrateAct
<1>4. err' \in [Runner -> Errors \cup PersistErrors]
    BY <1>3 DEF ErrStep, TypeOK
<1> QED
    BY <1>2, <1>3, <1>4 DEF TypeOK, commandVars, transactionVars

LEMMA ForgetRunnerType ==
    ASSUME TypeOK, NEW r \in Runner, MigrateReturns(r) \/ MigrateRaises(r)
    PROVE  TypeOK'
<1>1. ForgetRunner(r) /\ UNCHANGED <<schemaState, inspection, faults>>
    BY DEF MigrateReturns, MigrateRaises
<1>2. package' \in [Runner -> Ledgers]
    BY <1>1 DEF ForgetRunner, TypeOK, RunnerTypeOK, Ledgers
<1>3. RunnerTypeOK'
    BY <1>1, <1>2 DEF ForgetRunner, GoTo, TypeOK, RunnerTypeOK, schemaState
<1>4. CASE MigrateReturns(r)
    BY <1>3, <1>4 DEF MigrateReturns, Enter, TypeOK, Running, Persisting, Tables,
        commandVars, transactionVars
<1>5. CASE MigrateRaises(r)
    BY <1>3, <1>5 DEF MigrateRaises, Enter, Abort, TypeOK, Over, commandVars
<1> QED
    BY <1>4, <1>5

LEMMA DropType ==
    ASSUME TypeOK, NEW r \in Runner, DropOwnedSchema(r) \/ DropUnacknowledged(r)
    PROVE  TypeOK'
<1>1. faults' \in 0..MaxFaults
    BY MaxFaultsAssumption DEF DropOwnedSchema, DropUnacknowledged, CountFault,
        TypeOK, RunnerTypeOK
<1>2. RunnerTypeOK'
    BY <1>1 DEF DropOwnedSchema, DropUnacknowledged, DropEverything, TypeOK,
        RunnerTypeOK, runnerState, Ledgers
<1>3. rows' \in States
    BY DEF DropOwnedSchema, DropUnacknowledged, DropEverything, Empty, States
<1> QED
    BY <1>2, <1>3 DEF DropOwnedSchema, DropUnacknowledged, Enter, Abort, TypeOK,
        Running, Over, Errors, commandVars, transactionVars

\* Between transactions, and when one is rolled back.
Quiet(r) ==
    \/ \E o \in Operations, in \in Inputs : Start(r, o, in)
    \/ ConstructDesiredState(r)
    \/ RejectInput(r)
    \/ RejectWrite(r)
    \/ Crash(r)
    \/ EndCommand(r)

LEMMA RefusedType ==
    ASSUME NEW r \in Runner, NEW t \in Tables
    PROVE  Refused(r, t) \in {"none", "UndefinedTable"} \cup PersistErrors
BY DEF Refused, PersistErrors

LEMMA QuietType ==
    ASSUME TypeOK, NEW r \in Runner, Quiet(r)
    PROVE  TypeOK'
<1> USE DEF TypeOK, Enter, Abort, Running, Persisting, Over, commandVars,
        transactionVars
<1>1. CASE \E o \in Operations, in \in Inputs : Start(r, o, in)
    BY <1>1, OperationsAssumption, RunnerTypeStable
    DEF Start, RunnerVars, migrationVars
<1>2. CASE ConstructDesiredState(r)
    BY <1>2, RunnerTypeStable
    DEF ConstructDesiredState, AfterConstruct, RunnerVars, migrationVars
<1>3. CASE RejectInput(r)
    BY <1>3, RunnerTypeStable DEF RejectInput, RunnerVars, PersistErrors
<1>4. CASE RejectWrite(r)
    BY <1>4, RunnerTypeStable, RefusedType DEF RejectWrite, RunnerVars, Errors
<1>5. CASE Crash(r)
    <2>1. faults' \in 0..MaxFaults
        BY <1>5, MaxFaultsAssumption DEF Crash, CountFault, RunnerTypeOK
    <2>2. RunnerTypeOK'
        BY <1>5, <2>1 DEF Crash, RunnerTypeOK, schemaState, runnerState
    <2> QED
        BY <1>5, <2>2 DEF Crash, Errors
<1>6. CASE EndCommand(r)
    BY <1>6, RunnerTypeStable DEF EndCommand, RunnerVars, Errors
<1> QED
    BY <1>1, <1>2, <1>3, <1>4, <1>5, <1>6 DEF Quiet

\* A write operation of the open transaction, and the phase it leads to.
Follows ==
    {<<"periods", "period_cycles">>,
     <<"period_cycles", "period_cycle_memberships">>,
     <<"period_cycle_memberships", "futures_products">>,
     <<"futures_products", "futures_product_sources">>,
     <<"futures_product_sources", "futures_contracts">>,
     <<"futures_contracts", "commit">>}

Writing(r) == \E w \in Follows : Write(r, w[1], w[2])

LEMMA WantedKeys ==
    ASSUME NEW r \in Runner, NEW t \in Tables, input[r] \in Inputs
    PROVE  Wanted(r, t) = {k \in Key : k.table = t /\ Desired(r)[k] # Unset}
BY DEF Wanted, WantedOf, Present, Desired

LEMMA WriteType ==
    ASSUME TypeOK, NEW r \in Runner, input[r] \in Inputs, Writing(r)
    PROVE  TypeOK'
<1>1. PICK w \in Follows : Write(r, w[1], w[2])
    BY DEF Writing
<1>2. w[1] \in Tables /\ w[2] \in Persisting
    BY DEF Follows, Tables, Persisting
<1>3. NewVersions(r, w[1]) \subseteq Key /\ TablesOf(Wanted(r, w[1])) \subseteq Tables
    BY <1>2, WantedKeys DEF NewVersions, TablesOf
<1>4. RunnerTypeOK'
    BY <1>1, RunnerTypeStable DEF Write, migrationVars, RunnerVars, TypeOK
<1> QED
    BY <1>1, <1>2, <1>3, <1>4 DEF Write, Enter, TypeOK, Running, migrationVars,
        commandVars

\* The end of the transaction, whether or not the process learns of it.
Publishing(r) == Commit(r) \/ CommitUnacknowledged(r)

LEMMA PublishType ==
    ASSUME TypeOK, NEW r \in Runner, input[r] \in Inputs, Publishing(r)
    PROVE  TypeOK'
<1>1. rows' = [k \in Key |-> IF Uncommitted(r)[k] # Unset THEN Uncommitted(r)[k]
                             ELSE rows[k]]
    BY DEF Publishing, Commit, CommitUnacknowledged, Publish, Visible, Overlay
<1>2. Uncommitted(r) \in States
    BY DesiredType DEF Uncommitted, Desired, States
<1>3. rows' \in States
    BY <1>1, <1>2 DEF TypeOK, States
<1>4. faults' \in 0..MaxFaults
    BY MaxFaultsAssumption DEF Publishing, Commit, CommitUnacknowledged,
        CountFault, TypeOK, RunnerTypeOK, migrationVars
<1>5. RunnerTypeOK'
    BY <1>4 DEF Publishing, Commit, CommitUnacknowledged, TypeOK, RunnerTypeOK,
        migrationVars, schemaState, runnerState
<1> QED
    BY <1>3, <1>5 DEF Publishing, Commit, CommitUnacknowledged, Enter, Abort,
        TypeOK, Over, Errors, migrationVars, commandVars

\* The steps of a command, grouped by what they do to the database.
LEMMA CommandSteps ==
    ASSUME NEW r \in Runner, CommandStep(r)
    PROVE  \/ Quiet(r)
           \/ MigrateAct(r)
           \/ MigrateReturns(r) \/ MigrateRaises(r)
           \/ DropOwnedSchema(r) \/ DropUnacknowledged(r)
           \/ Writing(r)
           \/ Publishing(r)
<1>1. Persist(r) => Writing(r) \/ RejectWrite(r) \/ Commit(r)
    <2> SUFFICES ASSUME Persist(r)
                 PROVE  Writing(r) \/ RejectWrite(r) \/ Commit(r)
        OBVIOUS
    <2>1. ASSUME NEW t, NEW u, <<t, u>> \in Follows, Write(r, t, u)
          PROVE  Writing(r)
        BY <2>1 DEF Writing
    <2> QED
        BY <2>1 DEF Persist, InsertPeriods, InsertPeriodCycles,
            InsertPeriodCycleMemberships, InsertFuturesProducts,
            UpsertFuturesProductSources, InsertFuturesContracts, Follows
<1> QED
    BY <1>1 DEF CommandStep, Command, CommandFault, Quiet, MigrateAct, Publishing

LEMMA NextSteps ==
    ASSUME Next
    PROVE  \E r \in Runner :
              \/ Quiet(r)
              \/ MigrateAct(r)
              \/ MigrateReturns(r) \/ MigrateRaises(r)
              \/ DropOwnedSchema(r) \/ DropUnacknowledged(r)
              \/ Writing(r)
              \/ Publishing(r)
BY CommandSteps DEF Next
-----------------------------------------------------------------------------
(* The inductive invariant *)

\* The tables whose operations the open transaction has behind it.
Passed(p) ==
    CASE p = "period_cycles" -> {"periods"}
      [] p = "period_cycle_memberships" -> {"periods", "period_cycles"}
      [] p = "futures_products" ->
            {"periods", "period_cycles", "period_cycle_memberships"}
      [] p = "futures_product_sources" ->
            {"periods", "period_cycles", "period_cycle_memberships",
             "futures_products"}
      [] p = "futures_contracts" ->
            {"periods", "period_cycles", "period_cycle_memberships",
             "futures_products", "futures_product_sources"}
      [] p = "commit" -> Tables
      [] OTHER -> {}

\* The rows that the transaction has so far asked for.
Asked(r) == {k \in Key : k.table \in Passed(phase[r]) /\ Desired(r)[k] # Unset}

\* The database is touched for a constructed desired state only, dropped by
\* rebuilds only, and what is committed has valid contracts.
InputInv(r) ==
    /\ phase[r] # "idle" => input[r] \in Inputs
    /\ phase[r] \in {"drop", "migrate"} \cup Persisting => input[r].constructible
    /\ phase[r] = "commit" => input[r] \in ValidInputs
    /\ phase[r] = "drop" => op[r] = "rebuild"

\* A transaction keeps the tables it has used from being dropped.
LockInv(r) ==
    /\ phase[r] # "idle" => locked[r] \subseteq Passed(phase[r])
    /\ locked[r] # {} => TablesExist

\* A process that runs no command, and does not read, holds no table.
Free(r) == phase[r] = "idle" => locked[r] = {}

\* Its own rows were asked for, and replace no committed operational row.
WrittenInv(r) == \A k \in written[r] : k \in Asked(r) /\ (IsSource(k) \/ rows[k] = Unset)

\* A row it asked for is its own or was there before, with the same value, and
\* stays there.
KeptInv(r) ==
    \A k \in Asked(r) :
        /\ k.table \in locked[r]
        /\ k \in written[r] \/ ~IsSource(k)
        /\ k \in written[r] \/ rows[k] = Desired(r)[k]

\* A path it uses is free, or its owner's row is also its own.
PathInv(r) ==
    \A k \in written[r], j \in Present(rows) :
        IsSource(k) /\ IsSource(j) /\ rows[j].path = Desired(r)[k].path
            => j \in written[r]

CommandInv(r) == InputInv(r) /\ LockInv(r) /\ WrittenInv(r) /\ KeptInv(r) /\ PathInv(r)

\* Two transactions have no row and no path in common.
Apart(r, s) ==
    /\ written[r] \cap written[s] = {}
    /\ \A j \in written[r], k \in written[s] :
        IsSource(j) /\ IsSource(k) => Desired(r)[j].path # Desired(s)[k].path

StoredInv == Present(rows) # {} => TablesExist

Inv ==
    /\ TypeOK
    /\ StoredInv
    /\ PathsAreUnique
    /\ \A r \in Runner : CommandInv(r)
    /\ \A r, s \in Runner : r # s => Apart(r, s)

LEMMA InvInit == Init => Inv
<1> SUFFICES ASSUME Init PROVE Inv
    OBVIOUS
<1>1. TypeOK
    BY TypeInit
<1>2. Present(rows) = {}
    BY DEF Init, Empty, Present
<1>3. ASSUME NEW r \in Runner PROVE CommandInv(r)
    <2>1. phase[r] = "idle" /\ written[r] = {} /\ locked[r] = {}
        BY DEF Init
    <2>2. Passed(phase[r]) = {}
        BY <2>1 DEF Passed
    <2> QED
        BY <2>1, <2>2 DEF CommandInv, InputInv, LockInv, WrittenInv, KeptInv,
            PathInv, Asked, Persisting, Tables
<1>4. \A r \in Runner : written[r] = {}
    BY DEF Init
<1> QED
    BY <1>1, <1>2, <1>3, <1>4 DEF Inv, StoredInv, PathsAreUnique, Apart

\* A step that leaves the committed rows alone and, if anything, ends or has not
\* yet begun the transaction of the process that takes it.
LEMMA MoveOnInv ==
    ASSUME Inv, TypeOK', NEW r \in Runner,
           UNCHANGED rows,
           TablesExist => TablesExist',
           \A s \in Runner \ {r} : /\ phase'[s] = phase[s]
                                   /\ op'[s] = op[s]
                                   /\ input'[s] = input[s]
                                   /\ written'[s] = written[s]
                                   /\ locked'[s] = locked[s],
           Passed(phase'[r]) = {},
           written'[r] = {},
           locked'[r] = {},
           InputInv(r)'
    PROVE  Inv'
<1>1. StoredInv' /\ PathsAreUnique'
    BY DEF Inv, StoredInv, PathsAreUnique, Present
<1>2. CommandInv(r)'
    BY DEF CommandInv, LockInv, WrittenInv, KeptInv, PathInv, Asked
<1>3. ASSUME NEW s \in Runner, s # r PROVE CommandInv(s)'
    <2>1. CommandInv(s)
        BY DEF Inv
    <2>2. Asked(s)' = Asked(s) /\ Desired(s)' = Desired(s)
        BY <1>3 DEF Asked, Desired
    <2>3. InputInv(s)' /\ LockInv(s)'
        BY <1>3, <2>1 DEF CommandInv, InputInv, LockInv
    <2>4. WrittenInv(s)' /\ KeptInv(s)' /\ PathInv(s)'
        BY <1>3, <2>1, <2>2 DEF CommandInv, WrittenInv, KeptInv, PathInv, Present
    <2> QED
        BY <2>3, <2>4 DEF CommandInv
<1>4. ASSUME NEW s \in Runner, NEW u \in Runner, s # u PROVE Apart(s, u)'
    <2>1. Apart(s, u)
        BY <1>4 DEF Inv
    <2> QED
        BY <1>4, <2>1 DEF Apart, Desired
<1> QED
    BY <1>1, <1>2, <1>3, <1>4 DEF Inv

NoTables == {"idle", "construct", "drop", "migrate", "periods", "done", "failed"}

LEMMA PassedNone == ASSUME NEW p \in NoTables PROVE Passed(p) = {}
BY DEF NoTables, Passed

LEMMA NoTransaction ==
    ASSUME Inv, NEW r \in Runner, Free(r), phase[r] \in NoTables
    PROVE  written[r] = {} /\ locked[r] = {}
<1>1. CommandInv(r)
    BY DEF Inv
<1> QED
    BY <1>1, PassedNone DEF CommandInv, LockInv, Free, WrittenInv, Asked

LEMMA QuietInv ==
    ASSUME Inv, NEW r \in Runner, Free(r), Quiet(r)
    PROVE  Inv'
<1> USE DEF Enter, Abort
<1>1. TypeOK /\ CommandInv(r)
    BY DEF Inv
<1>2. TypeOK'
    BY <1>1, QuietType
<1>3. /\ UNCHANGED rows
      /\ TablesExist => TablesExist'
      /\ \A s \in Runner \ {r} : /\ phase'[s] = phase[s]
                                 /\ op'[s] = op[s]
                                 /\ input'[s] = input[s]
                                 /\ written'[s] = written[s]
                                 /\ locked'[s] = locked[s]
    BY <1>1 DEF Quiet, Start, ConstructDesiredState, RejectInput, RejectWrite,
        Crash, EndCommand, TypeOK, TablesExist, migrationVars, schemaState,
        commandVars, transactionVars
<1>4. phase'[r] \in NoTables
    BY <1>1 DEF Quiet, Start, ConstructDesiredState, AfterConstruct, RejectInput,
        RejectWrite, Crash, EndCommand, TypeOK, NoTables
<1>5. written'[r] = {} /\ locked'[r] = {}
    <2>1. CASE \E o \in Operations, in \in Inputs : Start(r, o, in)
        BY <1>1, <2>1, NoTransaction DEF Start, NoTables, transactionVars
    <2>2. CASE ConstructDesiredState(r)
        BY <1>1, <2>2, NoTransaction
        DEF ConstructDesiredState, NoTables, transactionVars
    <2>3. CASE RejectInput(r) \/ RejectWrite(r) \/ Crash(r)
        BY <1>1, <2>3 DEF RejectInput, RejectWrite, Crash, TypeOK
    <2>4. CASE EndCommand(r)
        BY <1>1, <2>4, NoTransaction DEF EndCommand, Over, NoTables,
            transactionVars
    <2> QED
        BY <2>1, <2>2, <2>3, <2>4 DEF Quiet
<1>6. InputInv(r)'
    <2>1. CASE \E o \in Operations, in \in Inputs : Start(r, o, in)
        BY <1>1, <2>1 DEF Start, InputInv, TypeOK, Persisting, Tables
    <2>2. CASE ConstructDesiredState(r)
        BY <1>1, <2>2 DEF ConstructDesiredState, AfterConstruct, CommandInv,
            InputInv, TypeOK, commandVars
    <2>3. CASE RejectInput(r) \/ RejectWrite(r) \/ Crash(r)
        BY <1>1, <2>3 DEF RejectInput, RejectWrite, Crash, CommandInv, InputInv,
            TypeOK, Persisting, Running, Tables, commandVars
    <2>4. CASE EndCommand(r)
        BY <1>1, <2>4 DEF EndCommand, InputInv, TypeOK, Persisting, Tables
    <2> QED
        BY <2>1, <2>2, <2>3, <2>4 DEF Quiet
<1> QED
    BY <1>2, <1>3, <1>4, <1>5, <1>6, PassedNone, MoveOnInv

LEMMA MigrateActGrows ==
    ASSUME TypeOK, NEW r \in Runner, MigrateAct(r)
    PROVE  relations \subseteq relations'
BY DEF MigrateAct, CallMigrate, MigrateStep, MigrateLosesLedger, MigrateFault,
    StartMigrate, Discover, Migrate, CreateSchemaIfNotExists, CommitBootstrap,
    BootstrapCollides, ReadLedger, ApplyMigration, CommitMigration,
    ApplyCollides, ReturnMigrated, Validate, RejectUnknown, RejectMismatch,
    LedgerMissing, Fault, Interrupt, CommitMigrationUnacknowledged,
    CommitBootstrapUnacknowledged, schemaState

LEMMA MigrateActInv ==
    ASSUME Inv, NEW r \in Runner, MigrateAct(r)
    PROVE  Inv'
<1>1. TypeOK /\ CommandInv(r)
    BY DEF Inv
<1>2. /\ TypeOK'
      /\ phase[r] = "migrate"
      /\ UNCHANGED <<rows, phase, op, input, written, locked>>
    BY <1>1, MigrateActType DEF commandVars, transactionVars
<1>3. TablesExist => TablesExist'
    BY <1>1, MigrateActGrows DEF TablesExist
<1>4. written[r] = {} /\ locked[r] = {} /\ Passed(phase[r]) = {}
    BY <1>2, NoTransaction, PassedNone DEF NoTables, Free
<1>5. InputInv(r)'
    BY <1>1, <1>2 DEF CommandInv, InputInv
<1> QED
    BY <1>2, <1>3, <1>4, <1>5, MoveOnInv

LEMMA ForgetRunnerInv ==
    ASSUME Inv, NEW r \in Runner, MigrateReturns(r) \/ MigrateRaises(r)
    PROVE  Inv'
<1> USE DEF Enter, Abort
<1>1. TypeOK /\ CommandInv(r)
    BY DEF Inv
<1>2. TypeOK'
    BY <1>1, ForgetRunnerType
<1>3. phase[r] = "migrate" /\ phase'[r] \in {"periods", "failed"}
    BY <1>1 DEF MigrateReturns, MigrateRaises, TypeOK
<1>4. written[r] = {} /\ locked[r] = {}
    BY <1>3, NoTransaction DEF NoTables, Free
<1>5. UNCHANGED <<relations, rows, op, input>>
    BY DEF MigrateReturns, MigrateRaises, schemaState, commandVars
<1>6. /\ \A s \in Runner \ {r} : /\ phase'[s] = phase[s]
                                 /\ written'[s] = written[s]
                                 /\ locked'[s] = locked[s]
      /\ written'[r] = {}
      /\ locked'[r] = {}
    BY <1>1, <1>4 DEF MigrateReturns, MigrateRaises, TypeOK, transactionVars
<1>7. InputInv(r)'
    BY <1>1, <1>3, <1>5 DEF CommandInv, InputInv, Persisting, Tables
<1>8. Passed(phase'[r]) = {}
    BY <1>3, PassedNone DEF NoTables
<1> QED
    BY <1>2, <1>5, <1>6, <1>7, <1>8, MoveOnInv DEF TablesExist

LEMMA DropInv ==
    ASSUME Inv, NEW r \in Runner, DropOwnedSchema(r) \/ DropUnacknowledged(r)
    PROVE  Inv'
<1> USE DEF Enter, Abort
<1>1. TypeOK /\ CommandInv(r)
    BY DEF Inv
<1>2. TypeOK'
    BY <1>1, DropType
<1>3. rows' = Empty /\ phase[r] = "drop" /\ phase'[r] \in {"migrate", "failed"}
    BY <1>1 DEF DropOwnedSchema, DropUnacknowledged, DropEverything, TypeOK
<1>4. Present(rows)' = {}
    BY <1>3 DEF Present, Empty
<1>5. \A s \in Runner : locked[s] = {} /\ Asked(s) = {} /\ written[s] = {}
    <2>1. \A s \in Runner : locked[s] = {}
        BY <1>3, NoTransaction DEF NoTables, Free, DropOwnedSchema,
            DropUnacknowledged, TablesUnused
    <2> QED
        BY <2>1 DEF Inv, CommandInv, KeptInv, WrittenInv
<1>6. /\ UNCHANGED <<op, input>>
      /\ \A s \in Runner : written'[s] = {} /\ locked'[s] = {}
      /\ \A s \in Runner \ {r} : phase'[s] = phase[s]
    BY <1>1, <1>5 DEF DropOwnedSchema, DropUnacknowledged, TypeOK, commandVars,
        transactionVars
<1>7. ASSUME NEW s \in Runner PROVE CommandInv(s)'
    <2>1. Asked(s)' = {}
        <3>1. CASE s = r
            BY <1>3, <3>1, PassedNone DEF Asked, NoTables
        <3>2. CASE s # r
            BY <1>5, <1>6, <3>2 DEF Asked, Desired
        <3> QED
            BY <3>1, <3>2
    <2>2. InputInv(s)'
        <3>1. InputInv(s) /\ InputInv(r)
            BY DEF Inv, CommandInv
        <3> QED
            BY <1>3, <1>6, <3>1 DEF InputInv, Persisting, Tables
    <2> QED
        BY <1>6, <2>1, <2>2 DEF CommandInv, LockInv, WrittenInv, KeptInv, PathInv
<1> QED
    BY <1>2, <1>4, <1>6, <1>7 DEF Inv, StoredInv, PathsAreUnique, Apart

LEMMA PassedNext ==
    ASSUME NEW w \in Follows
    PROVE  /\ w[1] \in Tables
           /\ w[2] \in Persisting
           /\ Passed(w[2]) = Passed(w[1]) \cup {w[1]}
           /\ w[1] \notin Passed(w[1])
           /\ w[2] = "commit" => w[1] = "futures_contracts"
<1>1. \/ w = <<"periods", "period_cycles">>
      \/ w = <<"period_cycles", "period_cycle_memberships">>
      \/ w = <<"period_cycle_memberships", "futures_products">>
      \/ w = <<"futures_products", "futures_product_sources">>
      \/ w = <<"futures_product_sources", "futures_contracts">>
      \/ w = <<"futures_contracts", "commit">>
    BY DEF Follows
<1> QED
    BY <1>1 DEF Passed, Tables, Persisting

LEMMA Accepted ==
    ASSUME NEW r \in Runner, NEW t \in Tables, Refused(r, t) = "none",
           Wanted(r, t) # {}
    PROVE  TablesExist /\ ~ReferenceMissing(r, t) /\ ~PathTaken(r, t) /\ ~RowsDiffer(r, t)
BY DEF Refused

LEMMA AcceptedContracts ==
    ASSUME NEW r \in Runner, Refused(r, "futures_contracts") = "none",
           input[r] \in Inputs, input[r].constructible
    PROVE  input[r] \in ValidInputs
BY DEF Refused, ContractRefused, ValidInputs, Desired

LEMMA WriteInv ==
    ASSUME Inv, NEW r \in Runner, Writing(r)
    PROVE  Inv'
<1> USE DEF Enter
<1>1. PICK w \in Follows : Write(r, w[1], w[2])
    BY DEF Writing
<1> DEFINE t == w[1]
           W == Wanted(r, t)
           N == NewVersions(r, t)
<1>2. TypeOK /\ CommandInv(r)
    BY DEF Inv
<1>3. /\ t \in Tables
      /\ Passed(w[2]) = Passed(t) \cup {t}
      /\ w[2] \in Persisting
      /\ w[2] = "commit" => t = "futures_contracts"
    BY PassedNext
<1>4. /\ phase[r] = t /\ phase'[r] = w[2]
      /\ written'[r] = written[r] \cup N
      /\ locked'[r] = locked[r] \cup TablesOf(W)
      /\ \A s \in Runner \ {r} : /\ phase'[s] = phase[s]
                                 /\ written'[s] = written[s]
                                 /\ locked'[s] = locked[s]
      /\ UNCHANGED <<rows, op, input, relations>>
      /\ ~Waits(r, t)
      /\ Refused(r, t) = "none"
    BY <1>1, <1>2 DEF Write, TypeOK, commandVars, migrationVars, schemaState
<1>5. input[r] \in Inputs /\ input[r].constructible
    BY <1>2, <1>3, <1>4 DEF CommandInv, InputInv, Persisting, Tables
<1>6. TypeOK'
    BY <1>2, <1>5, WriteType
<1>7. W = {k \in Key : k.table = t /\ Desired(r)[k] # Unset} /\ N \subseteq W
    BY <1>3, <1>5, WantedKeys DEF NewVersions
<1>8. W # {} => TablesExist /\ ~PathTaken(r, t) /\ ~RowsDiffer(r, t)
    BY <1>3, <1>4, Accepted
<1>9. Asked(r)' = Asked(r) \cup W
    BY <1>3, <1>4, <1>7 DEF Asked, Desired
<1>10. CommandInv(r)'
    <2>1. InputInv(r)'
        BY <1>2, <1>3, <1>4, <1>5, AcceptedContracts DEF InputInv, Persisting, Tables
    <2>2. LockInv(r)'
        <3>1. TablesOf(W) \subseteq {t}
            BY <1>7 DEF TablesOf
        <3>2. TablesOf(W) # {} => TablesExist
            BY <1>8 DEF TablesOf
        <3>3. locked[r] \subseteq Passed(t) /\ (locked[r] # {} => TablesExist)
            BY <1>2, <1>3, <1>4 DEF CommandInv, LockInv, Tables
        <3> QED
            BY <1>3, <1>4, <3>1, <3>2, <3>3 DEF LockInv, TablesExist
    <2>3. WrittenInv(r)'
        <3>1. \A k \in N : IsSource(k) \/ rows[k] = Unset
            BY DEF NewVersions
        <3> QED
            BY <1>2, <1>4, <1>7, <1>9, <3>1 DEF CommandInv, WrittenInv
    <2>4. KeptInv(r)'
        <3>1. ASSUME NEW k \in W
              PROVE  /\ k.table \in TablesOf(W)
                     /\ k \in N \/ ~IsSource(k)
                     /\ k \in N \/ rows[k] = Desired(r)[k]
            BY <1>8 DEF TablesOf, NewVersions, RowsDiffer
        <3> QED
            BY <1>2, <1>4, <1>9, <3>1 DEF CommandInv, KeptInv, Desired
    <2>5. PathInv(r)'
        <3> SUFFICES ASSUME NEW k \in written[r] \cup N, NEW j \in Present(rows),
                            IsSource(k), IsSource(j),
                            rows[j].path = Desired(r)[k].path
                     PROVE  j \in written[r] \cup N
            BY <1>4 DEF PathInv, Present, Desired
        <3>1. CASE k \in written[r]
            BY <1>2, <3>1 DEF CommandInv, PathInv
        <3>2. CASE k \in N
            <4>1. k \in W
                BY <1>7, <3>2
            <4>2. j \in W
                BY <1>8, <4>1 DEF PathTaken
            <4> QED
                BY <4>2 DEF NewVersions
        <3> QED
            BY <3>1, <3>2
    <2> QED
        BY <2>1, <2>2, <2>3, <2>4, <2>5 DEF CommandInv
<1>11. ASSUME NEW s \in Runner, s # r PROVE CommandInv(s)'
    <2>1. CommandInv(s)
        BY DEF Inv
    <2>2. Asked(s)' = Asked(s) /\ Desired(s)' = Desired(s)
        BY <1>4, <1>11 DEF Asked, Desired
    <2>3. InputInv(s)' /\ LockInv(s)'
        BY <1>4, <1>11, <2>1 DEF CommandInv, InputInv, LockInv, TablesExist
    <2>4. WrittenInv(s)' /\ KeptInv(s)' /\ PathInv(s)'
        BY <1>4, <1>11, <2>1, <2>2
        DEF CommandInv, WrittenInv, KeptInv, PathInv, Present
    <2> QED
        BY <2>3, <2>4 DEF CommandInv
<1>12. ASSUME NEW s \in Runner, s # r PROVE Apart(r, s)' /\ Apart(s, r)'
    <2>1. Apart(r, s) /\ Apart(s, r)
        BY <1>12 DEF Inv
    <2>2. ~WaitsFor(r, s, t)
        BY <1>4, <1>12 DEF Waits
    <2>3. N \cap written[s] = {}
        BY <1>7, <2>2 DEF WaitsFor
    <2>4. ASSUME NEW j \in N, NEW k \in written[s], IsSource(j), IsSource(k)
          PROVE  Desired(r)[j].path # Desired(s)[k].path
        <3>1. j \in Present(Desired(r)) /\ t = "futures_product_sources"
            BY <1>7, <2>4 DEF Present, IsSource
        <3>2. Desired(r)[j].path \in PathsOf(Desired(r))
            BY <2>4, <3>1 DEF PathsOf
        <3> QED
            BY <2>2, <2>4, <3>1, <3>2 DEF WaitsFor
    <2>5. Desired(r)' = Desired(r) /\ Desired(s)' = Desired(s)
        BY <1>4 DEF Desired
    <2> QED
        BY <1>4, <1>12, <2>1, <2>3, <2>4, <2>5 DEF Apart
<1>13. ASSUME NEW s \in Runner, NEW u \in Runner, s # u PROVE Apart(s, u)'
    <2>1. CASE s = r \/ u = r
        BY <1>12, <1>13, <2>1
    <2>2. CASE s # r /\ u # r
        BY <1>4, <1>13, <2>2 DEF Inv, Apart, Desired
    <2> QED
        BY <2>1, <2>2
<1>14. StoredInv' /\ PathsAreUnique'
    BY <1>4 DEF Inv, StoredInv, PathsAreUnique, Present, TablesExist
<1> QED
    BY <1>6, <1>10, <1>11, <1>13, <1>14 DEF Inv

LEMMA ValidAreInputs == ValidInputs \subseteq Inputs
BY DEF ValidInputs

\* What a transaction publishes is its whole desired state over the committed
\* rows, none of which it contradicts.
Publishes(in) ==
    /\ in \in ValidInputs
    /\ Compatible(rows, DesiredOf[in])
    /\ rows' = Overlay(rows, DesiredOf[in])
    /\ TablesExist' = TablesExist
    /\ Present(DesiredOf[in]) # {} => TablesExist

LEMMA PublishIsWhole ==
    ASSUME Inv, NEW r \in Runner, Publishing(r)
    PROVE  Publishes(input[r])
<1>1. CommandInv(r) /\ TypeOK
    BY DEF Inv
<1>2. phase[r] = "commit" /\ UNCHANGED relations
    BY DEF Publishing, Commit, CommitUnacknowledged, migrationVars, schemaState
<1>3. input[r] \in ValidInputs
    BY <1>1, <1>2 DEF CommandInv, InputInv
<1>4. Asked(r) = Present(Desired(r))
    <2>1. Passed(phase[r]) = Tables
        BY <1>2 DEF Passed
    <2> QED
        BY <2>1, KeyTable DEF Asked, Present
<1>5. rows' = [k \in Key |-> IF k \in written[r] /\ Desired(r)[k] # Unset
                             THEN Desired(r)[k] ELSE rows[k]]
    BY DEF Publishing, Commit, CommitUnacknowledged, Publish, Visible, Overlay,
        Uncommitted
<1>6. ASSUME NEW k \in Key, Desired(r)[k] # Unset
      PROVE  /\ k \in written[r] \/ rows[k] = Desired(r)[k]
             /\ IsSource(k) \/ rows[k] = Unset \/ rows[k] = Desired(r)[k]
             /\ TablesExist
    BY <1>1, <1>4, <1>6 DEF CommandInv, KeptInv, WrittenInv, LockInv, Present
<1>7. rows' = Overlay(rows, DesiredOf[input[r]])
    BY <1>5, <1>6 DEF Overlay, Desired
<1>8. Compatible(rows, DesiredOf[input[r]])
    BY <1>6 DEF Compatible, Desired
<1>9. TablesExist' = TablesExist
    BY <1>2 DEF TablesExist
<1>10. Present(DesiredOf[input[r]]) # {} => TablesExist
    BY <1>6 DEF Present, Desired
<1> QED
    BY <1>3, <1>7, <1>8, <1>9, <1>10 DEF Publishes

LEMMA PublishInv ==
    ASSUME Inv, NEW r \in Runner, Publishing(r)
    PROVE  Inv'
<1> USE DEF Enter, Abort
<1>1. TypeOK /\ CommandInv(r)
    BY DEF Inv
<1>2. Publishes(input[r])
    BY PublishIsWhole
<1>3. phase[r] = "commit" /\ phase'[r] \in {"done", "failed"}
    BY <1>1 DEF Publishing, Commit, CommitUnacknowledged, TypeOK
<1>4. TypeOK'
    BY <1>1, <1>2, PublishType, ValidAreInputs DEF Publishes
<1>5. /\ UNCHANGED <<op, input>>
      /\ written'[r] = {} /\ locked'[r] = {}
      /\ \A s \in Runner \ {r} : /\ phase'[s] = phase[s]
                                 /\ written'[s] = written[s]
                                 /\ locked'[s] = locked[s]
    BY <1>1 DEF Publishing, Commit, CommitUnacknowledged, TypeOK, commandVars
<1>6. /\ written[r] \subseteq Key
      /\ \A k \in written[r] : rows'[k] = Desired(r)[k] /\ Desired(r)[k] # Unset
      /\ \A k \in Key \ written[r] : rows'[k] = rows[k]
    <2>1. rows' = [k \in Key |-> IF k \in written[r] /\ Desired(r)[k] # Unset
                                 THEN Desired(r)[k] ELSE rows[k]]
        BY DEF Publishing, Commit, CommitUnacknowledged, Publish, Visible,
            Overlay, Uncommitted
    <2> QED
        BY <1>1, <2>1 DEF CommandInv, WrittenInv, Asked
<1>7. StoredInv'
    BY <1>2, <1>6 DEF Inv, StoredInv, Publishes, Present, Desired
<1>8. PathsAreUnique'
    <2> SUFFICES ASSUME NEW j \in Key, NEW k \in Key,
                        rows'[j] # Unset, rows'[k] # Unset,
                        IsSource(j), IsSource(k), rows'[j].path = rows'[k].path
                 PROVE  j = k
        BY DEF PathsAreUnique, Present
    <2>1. CASE j \in written[r] /\ k \in written[r]
        BY <1>2, <1>6, <2>1, DesiredPaths, ValidAreInputs DEF Publishes, Desired
    <2>2. CASE j \notin written[r] /\ k \notin written[r]
        BY <1>6, <2>2 DEF Inv, PathsAreUnique, Present
    <2>3. CASE j \in written[r] /\ k \notin written[r]
        BY <1>1, <1>6, <2>3 DEF CommandInv, PathInv, Present
    <2>4. CASE j \notin written[r] /\ k \in written[r]
        BY <1>1, <1>6, <2>4 DEF CommandInv, PathInv, Present
    <2> QED
        BY <2>1, <2>2, <2>3, <2>4
<1>9. CommandInv(r)'
    <2>1. Asked(r)' = {}
        BY <1>3, PassedNone DEF Asked, NoTables
    <2>2. InputInv(r)'
        BY <1>2, <1>3, <1>5, ValidAreInputs DEF Publishes, InputInv, Persisting, Tables
    <2> QED
        BY <1>5, <2>1, <2>2 DEF CommandInv, LockInv, WrittenInv, KeptInv, PathInv
<1>10. ASSUME NEW s \in Runner, s # r PROVE CommandInv(s)'
    <2>1. CommandInv(s) /\ Apart(r, s)
        BY <1>10 DEF Inv
    <2>2. Asked(s)' = Asked(s) /\ Desired(s)' = Desired(s)
        BY <1>5, <1>10 DEF Asked, Desired
    <2>3. InputInv(s)' /\ LockInv(s)'
        BY <1>2, <1>5, <1>10, <2>1 DEF CommandInv, InputInv, LockInv, Publishes
    <2>4. \A k \in written[s] : rows'[k] = rows[k]
        BY <1>6, <2>1 DEF CommandInv, WrittenInv, Asked, Apart
    <2>5. WrittenInv(s)'
        BY <1>5, <1>10, <2>1, <2>2, <2>4 DEF CommandInv, WrittenInv
    <2>6. KeptInv(s)'
        <3> SUFFICES ASSUME NEW k \in Asked(s)
                     PROVE  /\ k.table \in locked[s]
                            /\ k \in written[s] \/ ~IsSource(k)
                            /\ k \in written[s] \/ rows'[k] = Desired(s)[k]
            BY <1>5, <1>10, <2>2 DEF KeptInv
        <3>1. /\ k.table \in locked[s]
              /\ k \in written[s] \/ ~IsSource(k)
              /\ k \in written[s] \/ rows[k] = Desired(s)[k]
            BY <2>1 DEF CommandInv, KeptInv
        <3>2. k \in Key /\ Desired(s)[k] # Unset
            BY DEF Asked
        <3>3. k \notin written[s] => k \notin written[r]
            BY <1>1, <3>1, <3>2 DEF CommandInv, WrittenInv
        <3> QED
            BY <1>6, <3>1, <3>2, <3>3
    <2>7. PathInv(s)'
        <3> SUFFICES ASSUME NEW k \in written[s], NEW j \in Key, rows'[j] # Unset,
                            IsSource(k), IsSource(j),
                            rows'[j].path = Desired(s)[k].path
                     PROVE  j \in written[s]
            BY <1>5, <1>10, <2>2 DEF PathInv, Present
        <3>1. CASE j \in written[r]
            BY <1>6, <2>1, <3>1 DEF Apart
        <3>2. CASE j \notin written[r]
            BY <1>6, <2>1, <3>2 DEF CommandInv, PathInv, Present
        <3> QED
            BY <3>1, <3>2
    <2> QED
        BY <2>3, <2>5, <2>6, <2>7 DEF CommandInv
<1>11. ASSUME NEW s \in Runner, NEW u \in Runner, s # u PROVE Apart(s, u)'
    <2>1. Apart(s, u)
        BY <1>11 DEF Inv
    <2> QED
        BY <1>5, <1>11, <2>1 DEF Apart, Desired
<1> QED
    BY <1>4, <1>7, <1>8, <1>9, <1>10, <1>11 DEF Inv

\* What a command keeps, beside processes of which only it must be free.
LEMMA CommandKeepsInv ==
    ASSUME Inv, NEW r \in Runner, Free(r), CommandStep(r)
    PROVE  Inv'
BY CommandSteps, QuietInv, MigrateActInv, ForgetRunnerInv, DropInv, WriteInv, PublishInv

\* A command is the affair of its own process, which holds no table in the end.
LEMMA CommandIsOwn ==
    ASSUME Inv, NEW r \in Runner, Free(r), CommandStep(r)
    PROVE  /\ Free(r)'
           /\ \A s \in Runner \ {r} : /\ phase'[s] = phase[s]
                                      /\ op'[s] = op[s]
                                      /\ input'[s] = input[s]
                                      /\ locked'[s] = locked[s]
                                      /\ step'[s] = step[s]
                                      /\ package'[s] = package[s]
                                      /\ inspection'[s] = inspection[s]
                                      /\ err'[s] = err[s]
<1> USE DEF Enter, Abort
<1>1. TypeOK /\ RunnerTypeOK
    BY DEF Inv, TypeOK
<1>2. CASE Quiet(r)
    <2>1. Free(r)'
        <3>1. CASE EndCommand(r)
            BY <1>1, <3>1, NoTransaction
            DEF EndCommand, Free, Over, NoTables, transactionVars
        <3>2. CASE Quiet(r) /\ ~EndCommand(r)
            BY <1>1, <3>2 DEF Quiet, Start, ConstructDesiredState, AfterConstruct,
                RejectInput, RejectWrite, Crash, TypeOK, Free
        <3> QED
            BY <1>2, <3>1, <3>2
    <2> QED
        BY <1>1, <1>2, <2>1 DEF Quiet, Start, ConstructDesiredState, AfterConstruct,
            RejectInput, RejectWrite, Crash, EndCommand, TypeOK, migrationVars,
            runnerState, commandVars, transactionVars
<1>3. CASE MigrateAct(r)
    <2>1. /\ phase[r] = "migrate"
          /\ ErrStep(r)
          /\ UNCHANGED <<phase, op, input, locked>>
        BY <1>1, <1>3, MigrateActType DEF commandVars, transactionVars
    <2>2. \A s \in Runner \ {r} : /\ step'[s] = step[s]
                                  /\ package'[s] = package[s]
                                  /\ inspection'[s] = inspection[s]
        BY <1>1, <1>3 DEF MigrateAct, CallMigrate, MigrateStep, MigrateLosesLedger,
            MigrateFault, StartMigrate, Discover, Migrate, CreateSchemaIfNotExists,
            CommitBootstrap, BootstrapCollides, ReadLedger, ApplyMigration,
            ApplyCollides, ReturnMigrated, Validate, RejectUnknown, RejectMismatch,
            LedgerMissing, Fault, Interrupt, CommitMigrationUnacknowledged,
            CommitBootstrapUnacknowledged, RunnerTypeOK, runnerState, GoTo, Raise
    <2> QED
        BY <1>1, <2>1, <2>2 DEF ErrStep, Free, TypeOK
<1>4. CASE MigrateReturns(r) \/ MigrateRaises(r)
    BY <1>1, <1>4 DEF MigrateReturns, MigrateRaises, ForgetRunner, GoTo, TypeOK,
        RunnerTypeOK, commandVars, transactionVars, Free
<1>5. CASE DropOwnedSchema(r) \/ DropUnacknowledged(r)
    BY <1>1, <1>5 DEF DropOwnedSchema, DropUnacknowledged, TypeOK, runnerState,
        commandVars, transactionVars, Free
<1>6. CASE Writing(r)
    BY <1>1, <1>6 DEF Writing, Write, Follows, TypeOK, migrationVars, runnerState,
        commandVars, Free
<1>7. CASE Publishing(r)
    BY <1>1, <1>7 DEF Publishing, Commit, CommitUnacknowledged, TypeOK,
        migrationVars, runnerState, commandVars, Free
<1> QED
    BY <1>2, <1>3, <1>4, <1>5, <1>6, <1>7, CommandSteps

AllFree == \A r \in Runner : Free(r)

LEMMA InvStep ==
    ASSUME Inv, AllFree, [Next]_vars
    PROVE  Inv' /\ AllFree'
<1>1. CASE UNCHANGED vars
    BY <1>1 DEF vars, commandVars, transactionVars, migrationVars, schemaState,
        runnerState, Inv, TypeOK, RunnerTypeOK, StoredInv, TablesExist,
        PathsAreUnique, Present, CommandInv, InputInv, LockInv, WrittenInv,
        KeptInv, PathInv, Asked, Desired, Apart, AllFree, Free
<1>2. ASSUME NEW r \in Runner, CommandStep(r) PROVE Inv' /\ AllFree'
    BY <1>2, CommandKeepsInv, CommandIsOwn DEF AllFree, Free
<1> QED
    BY <1>1, <1>2 DEF Next

THEOREM Inductive == Spec => []Inv
<1>1. Init => AllFree
    BY DEF Init, AllFree, Free
<1> QED
    BY <1>1, InvInit, InvStep, PTL DEF Spec

\* Every variable of the commands, their transactions and the committed rows
\* stays within its type, for any number of processes, inputs and failures.
THEOREM TypeCorrect == Spec => []TypeOK
<1>1. Inv => TypeOK
    BY DEF Inv
<1> QED
    BY <1>1, Inductive, PTL

\* However builds interleave, no two committed sources have the same path.
THEOREM SourcePathsAreUnique == Spec => []PathsAreUnique
<1>1. Inv => PathsAreUnique
    BY DEF Inv
<1> QED
    BY <1>1, Inductive, PTL
-----------------------------------------------------------------------------
(* What steps do to the committed rows *)

LEMMA CommandRows ==
    ASSUME Inv, NEW r \in Runner, CommandStep(r)
    PROVE  \/ UNCHANGED rows /\ (TablesExist => TablesExist')
           \/ DropOwnedSchema(r) \/ DropUnacknowledged(r)
           \/ phase[r] = "commit" /\ Publishes(input[r])
<1>1. CASE Quiet(r)
    BY <1>1 DEF Quiet, Start, ConstructDesiredState, RejectInput, RejectWrite,
        Crash, EndCommand, migrationVars, schemaState, TablesExist
<1>2. CASE MigrateAct(r)
    BY <1>2, MigrateActType, MigrateActGrows DEF TablesExist, Inv
<1>3. CASE MigrateReturns(r) \/ MigrateRaises(r)
    BY <1>3 DEF MigrateReturns, MigrateRaises, schemaState, TablesExist
<1>4. CASE Writing(r)
    BY <1>4 DEF Writing, Write, migrationVars, schemaState, TablesExist
<1>5. CASE Publishing(r)
    BY <1>5, PublishIsWhole DEF Publishing, Commit, CommitUnacknowledged
<1> QED
    BY <1>1, <1>2, <1>3, <1>4, <1>5, CommandSteps

LEMMA RowSteps ==
    ASSUME Inv, [Next]_vars
    PROVE  \/ UNCHANGED rows /\ (TablesExist => TablesExist')
           \/ \E r \in Runner : DropOwnedSchema(r) \/ DropUnacknowledged(r)
           \/ \E r \in Runner : phase[r] = "commit" /\ Publishes(input[r])
<1>1. CASE UNCHANGED vars
    BY <1>1 DEF vars, migrationVars, schemaState, TablesExist
<1> QED
    BY <1>1, CommandRows DEF Next

\* Builds and rebuilds never alter or remove an operational row by itself, for
\* any inputs and any interleaving.
THEOREM OperationalRowsStay == Spec => OperationalRowsAreImmutable
<1>1. ASSUME Inv, [Next]_vars
      PROVE  [rows' = Empty \/ \A k \in Present(rows) :
                                  IsSource(k) \/ rows'[k] = rows[k]]_vars
    <2>1. ASSUME NEW r \in Runner, Publishes(input[r]), NEW k \in Present(rows)
          PROVE  IsSource(k) \/ rows'[k] = rows[k]
        BY <2>1 DEF Publishes, Overlay, Compatible, Present
    <2> QED
        BY <1>1, <2>1, RowSteps DEF DropOwnedSchema, DropUnacknowledged,
            DropEverything
<1> QED
    BY <1>1, Inductive, PTL DEF Spec, OperationalRowsAreImmutable

LEMMA DropLeavesNothing ==
    ASSUME Inv, NEW r \in Runner, DropOwnedSchema(r) \/ DropUnacknowledged(r)
    PROVE  \A s \in Runner : Visible(s)' = Empty
<1>1. rows' = Empty /\ phase[r] = "drop"
    BY DEF DropOwnedSchema, DropUnacknowledged, DropEverything
<1>2. Asked(r) = {}
    BY <1>1, PassedNone DEF NoTables, Asked
<1>3. \A s \in Runner \ {r} : Asked(s) = {}
    BY DEF DropOwnedSchema, DropUnacknowledged, TablesUnused, Inv, CommandInv, KeptInv
<1>4. \A s \in Runner : written[s] = {}
    BY <1>2, <1>3 DEF Inv, CommandInv, WrittenInv
<1>5. \A s \in Runner : written'[s] = {}
    BY <1>4 DEF DropOwnedSchema, DropUnacknowledged, Abort, transactionVars, Inv, TypeOK
<1> QED
    BY <1>1, <1>5 DEF Visible, Overlay, Uncommitted, Empty

\* Rows are lost only where a rebuild, its desired state constructed, drops the
\* schema, and no transaction of any other command goes on beside it with rows
\* that relied on them.
THEOREM RowsAreDroppedCleanly == Spec => DropsAreClean
<1>1. ASSUME Inv, [Next]_vars PROVE DropIsClean
    <2> SUFFICES ASSUME NEW k \in Present(rows), rows'[k] = Unset
                 PROVE  /\ \E r \in Runner :
                              /\ phase[r] = "drop" /\ phase'[r] # "drop"
                              /\ op[r] = "rebuild" /\ input[r].constructible
                        /\ \A s \in Runner : Visible(s)' = Empty
        BY DEF DropIsClean
    <2>1. k \in Key /\ rows[k] # Unset
        BY DEF Present
    <2>2. ~UNCHANGED rows
        BY <2>1
    <2>3. ASSUME NEW r \in Runner, Publishes(input[r])
          PROVE  FALSE
        BY <2>1, <2>3 DEF Publishes, Overlay
    <2>4. PICK r \in Runner : DropOwnedSchema(r) \/ DropUnacknowledged(r)
        BY <1>1, <2>2, <2>3, RowSteps
    <2>5. phase[r] = "drop" /\ phase'[r] # "drop"
        BY <1>1, <2>4 DEF DropOwnedSchema, DropUnacknowledged, Enter, Abort, Inv,
            TypeOK
    <2>6. op[r] = "rebuild" /\ input[r].constructible
        BY <1>1, <2>5 DEF Inv, CommandInv, InputInv
    <2> QED
        BY <1>1, <2>4, <2>5, <2>6, DropLeavesNothing
<1> QED
    BY <1>1, Inductive, PTL DEF Spec, DropsAreClean

-----------------------------------------------------------------------------
(* Whole desired states *)

LEMMA WholeKept ==
    ASSUME WholeDesiredStates,
           UNCHANGED rows \/ rows' = Empty \/ \E in \in ValidInputs : Publishes(in)
    PROVE  WholeDesiredStates'
<1>1. CASE UNCHANGED rows
    BY <1>1 DEF WholeDesiredStates, Present, Holds
<1>2. CASE rows' = Empty
    BY <1>2 DEF WholeDesiredStates, Present, Empty
<1>3. ASSUME NEW new \in ValidInputs, Publishes(new) PROVE WholeDesiredStates'
    <2>1. \A k \in Key : rows'[k] = IF DesiredOf[new][k] # Unset
                                    THEN DesiredOf[new][k] ELSE rows[k]
        BY <1>3 DEF Publishes, Overlay
    <2>2. new \in ValidInputs /\ Holds(rows, DesiredOf[new])'
        BY <1>3, <2>1 DEF Publishes, Holds
    <2>3. ASSUME NEW in \in ValidInputs, Holds(rows, DesiredOf[in])
          PROVE  Holds(rows, DesiredOf[in])'
        <3> SUFFICES ASSUME NEW k \in Key, DesiredOf[in][k] # Unset
                     PROVE  /\ rows'[k] # Unset
                            /\ IsSource(k) \/ rows'[k] = DesiredOf[in][k]
            BY DEF Holds
        <3>1. rows[k] # Unset /\ (IsSource(k) \/ rows[k] = DesiredOf[in][k])
            BY <2>3 DEF Holds
        <3>2. DesiredOf[new][k] = Unset \/ IsSource(k) \/ rows[k] = DesiredOf[new][k]
            BY <1>3, <3>1 DEF Publishes, Compatible
        <3> QED
            BY <2>1, <3>1, <3>2
    <2>4. ASSUME NEW k \in Key, rows'[k] # Unset
          PROVE  \E in \in ValidInputs : /\ Holds(rows, DesiredOf[in])'
                                         /\ DesiredOf[in][k] = rows'[k]
        <3>1. CASE DesiredOf[new][k] # Unset
            BY <2>1, <2>2, <3>1
        <3>2. CASE DesiredOf[new][k] = Unset
            <4>1. PICK in \in ValidInputs : /\ Holds(rows, DesiredOf[in])
                                            /\ DesiredOf[in][k] = rows[k]
                BY <2>1, <2>4, <3>2 DEF WholeDesiredStates, Present
            <4> QED
                BY <2>1, <2>3, <3>2, <4>1
        <3> QED
            BY <3>1, <3>2
    <2> QED
        BY <2>4 DEF WholeDesiredStates, Present
<1> QED
    BY <1>1, <1>2, <1>3

LEMMA WholeStep ==
    ASSUME Inv, WholeDesiredStates, [Next]_vars
    PROVE  WholeDesiredStates'
BY WholeKept, RowSteps DEF DropOwnedSchema, DropUnacknowledged, DropEverything, Publishes

LEMMA WholeInit == Init => WholeDesiredStates
BY DEF Init, Empty, WholeDesiredStates, Present

\* Whatever crashes, collides or is rolled back, each committed row belongs to a
\* valid desired state that is there as a whole.
THEOREM StoreHoldsWholeStates == Spec => []WholeDesiredStates
BY WholeInit, WholeStep, Inductive, PTL DEF Spec

-----------------------------------------------------------------------------
(* Conflicts *)

\* The rows a desired row refers to are desired, and their operations earlier.
LEMMA DesiredParents ==
    ASSUME NEW in \in Inputs, NEW k \in Key, DesiredOf[in][k] # Unset,
           NEW j \in Parents(k)
    PROVE  j \in Key /\ DesiredOf[in][j] # Unset /\ j.table \in Passed(k.table)
<1>1. DesiredRow(in, k) # Unset
    BY DesiredType
<1> SUFFICES j \in Key /\ DesiredRow(in, j) # Unset /\ j.table \in Passed(k.table)
    BY DesiredType
<1>2. Unset \notin Period /\ Unset \notin Cycle
    BY UnsetAssumption DEF Value
<1>3. \A m \in Period : m \in in.horizon =>
        /\ Row("periods", m) \in Key
        /\ DesiredRow(in, Row("periods", m)) # Unset
    BY <1>2 DEF Row, Key, DesiredRow
<1>4. \A p \in Product : in.definition[p] # Unset =>
        /\ Row("futures_products", p) \in Key
        /\ DesiredRow(in, Row("futures_products", p)) # Unset
    BY DEF Row, Key, DesiredRow
<1>5. CASE k.table = "period_cycle_memberships"
    <2>1. /\ k.id[1] \in Cycle /\ k.id[2] \in Period
          /\ j \in {Row("period_cycles", k.id[1]), Row("periods", k.id[2])}
        BY <1>5, KeyShape DEF Members, Parents
    <2>2. k.id[2] \in in.horizon
        BY <1>1, <1>5 DEF DesiredRow
    <2>3. /\ Row("period_cycles", k.id[1]) \in Key
          /\ DesiredRow(in, Row("period_cycles", k.id[1])) # Unset
        BY <1>2, <2>1 DEF Row, Key, DesiredRow
    <2>4. j.table \in {"periods", "period_cycles"}
        BY <2>1 DEF Row
    <2> QED
        BY <1>3, <1>5, <2>1, <2>2, <2>3, <2>4 DEF Passed
<1>6. CASE k.table = "futures_product_sources"
    <2>1. k.id \in Product /\ j = Row("futures_products", k.id)
        BY <1>6, KeyShape DEF Parents
    <2>2. in.definition[k.id] # Unset
        BY <1>1, <1>6 DEF DesiredRow
    <2>3. j.table = "futures_products"
        BY <2>1 DEF Row
    <2> QED
        BY <1>4, <1>6, <2>1, <2>2, <2>3 DEF Passed
<1>7. CASE k.table = "futures_contracts"
    <2>1. /\ k.id[1] \in Product /\ k.id[2] \in Period
          /\ j \in {Row("futures_products", k.id[1]), Row("periods", k.id[2])}
        BY <1>7, KeyShape DEF Parents
    <2>2. HasContract(in, k.id[1], k.id[2])
        BY <1>1, <1>7 DEF DesiredRow
    <2>3. j.table \in {"periods", "futures_products"}
        BY <2>1 DEF Row
    <2> QED
        BY <1>3, <1>4, <1>7, <2>1, <2>2, <2>3 DEF Passed, HasContract
<1>8. k.table \in {"period_cycle_memberships", "futures_product_sources",
                   "futures_contracts"}
    BY KeyTable DEF Parents, Tables
<1> QED
    BY <1>5, <1>6, <1>7, <1>8

LEMMA ReferencesPresent ==
    ASSUME Inv, NEW r \in Runner, phase[r] \in Tables
    PROVE  ~ReferenceMissing(r, phase[r])
<1>1. CommandInv(r)
    BY DEF Inv
<1>2. input[r] \in Inputs
    BY <1>1 DEF CommandInv, InputInv, Tables
<1>3. ASSUME NEW k \in Wanted(r, phase[r]), NEW j \in Parents(k)
      PROVE  Visible(r)[j] # Unset
    <2>1. k \in Key /\ k.table = phase[r] /\ DesiredOf[input[r]][k] # Unset
        BY <1>2, WantedKeys DEF Desired
    <2>2. j \in Asked(r)
        BY <1>2, <2>1, DesiredParents DEF Asked, Desired
    <2>3. j \in Key /\ Desired(r)[j] # Unset
        BY <2>2 DEF Asked
    <2>4. j \in written[r] \/ rows[j] # Unset
        BY <1>1, <2>2, <2>3 DEF CommandInv, KeptInv
    <2> QED
        BY <2>3, <2>4 DEF Visible, Overlay, Uncommitted
<1> QED
    BY <1>3 DEF ReferenceMissing

\* A process that has not failed carries no error of the persistence layer.
ErrInv(r) == phase[r] \notin Over => err[r] \in Errors

LEMMA RejectWriteIsReal ==
    ASSUME Inv, WholeDesiredStates, NEW r \in Runner, RejectWrite(r)
    PROVE  ConflictIsReal(r)
<1>1. phase[r] \in Tables /\ err'[r] = Refused(r, phase[r])
    BY DEF RejectWrite, Abort, Inv, TypeOK
<1>2. Refused(r, phase[r]) # "ForeignKeyViolation"
    BY <1>1, ReferencesPresent DEF Refused
<1>3. ASSUME Refused(r, phase[r]) = "ConflictError"
      PROVE  \E in \in ValidInputs : /\ Holds(rows, DesiredOf[in])
                                     /\ ~Compatible(Desired(r), DesiredOf[in])
    <2>1. RowsDiffer(r, phase[r])
        BY <1>3 DEF Refused
    <2>2. PICK k \in Wanted(r, phase[r]) \ NewVersions(r, phase[r]) :
                rows[k] # Desired(r)[k]
        BY <2>1 DEF RowsDiffer
    <2>3. input[r] \in Inputs
        BY <1>1 DEF Inv, CommandInv, InputInv, Tables
    <2>4. k \in Key /\ Desired(r)[k] # Unset
        BY <1>1, <2>2, <2>3, WantedKeys
    <2>5. ~IsSource(k) /\ rows[k] # Unset
        BY <2>2 DEF NewVersions
    <2>6. PICK in \in ValidInputs : Holds(rows, DesiredOf[in]) /\ DesiredOf[in][k] = rows[k]
        BY <2>4, <2>5 DEF WholeDesiredStates, Present
    <2>7. ~Compatible(Desired(r), DesiredOf[in])
        BY <2>2, <2>4, <2>5, <2>6 DEF Compatible
    <2> QED
        BY <2>6, <2>7
<1> QED
    BY <1>1, <1>2, <1>3 DEF ConflictIsReal

\* Every other step that ends a command in failure does so for another reason.
LEMMA OtherStepsAreReal ==
    ASSUME Inv, \A s \in Runner : ErrInv(s), NEW r \in Runner, CommandStep(r),
           ~RejectWrite(r)
    PROVE  ErrInv(r)' /\ ConflictIsReal(r)
<1> USE DEF Enter, Abort
<1>1. TypeOK
    BY DEF Inv
<1>2. CASE Quiet(r)
    <2>1. CASE (\E o \in Operations, in \in Inputs : Start(r, o, in))
               \/ ConstructDesiredState(r)
        BY <1>1, <2>1 DEF Start, ConstructDesiredState, AfterConstruct,
            TypeOK, ErrInv, Over, migrationVars, ConflictIsReal
    <2>2. CASE RejectInput(r) \/ Crash(r) \/ EndCommand(r)
        BY <1>1, <2>2 DEF RejectInput, Crash, EndCommand, TypeOK, ErrInv,
            Over, Errors, ConflictIsReal
    <2> QED
        BY <1>2, <2>1, <2>2 DEF Quiet
<1>3. CASE MigrateAct(r)
    <2>1. /\ phase[r] = "migrate"
          /\ ErrStep(r)
          /\ UNCHANGED phase
        BY <1>1, <1>3, MigrateActType
    <2> QED
        BY <1>1, <2>1 DEF ErrStep, TypeOK, ErrInv, ConflictIsReal
<1>4. CASE MigrateReturns(r) \/ MigrateRaises(r)
    <2>1. phase[r] = "migrate"
        BY <1>4 DEF MigrateReturns, MigrateRaises
    <2>2. err[r] \in Errors
        BY <2>1 DEF ErrInv, Over
    <2>3. err'[r] \in Errors
        BY <1>1, <1>4, <2>2 DEF MigrateReturns, MigrateRaises, TypeOK
    <2> QED
        BY <2>3 DEF ErrInv, Errors, ConflictIsReal
<1>5. CASE \/ DropOwnedSchema(r) \/ DropUnacknowledged(r)
           \/ Writing(r) \/ Publishing(r)
    <2>1. phase[r] \notin Over
        BY <1>5 DEF DropOwnedSchema, DropUnacknowledged, Writing, Write, Follows,
            Publishing, Commit, CommitUnacknowledged, Over
    <2>2. err[r] \in Errors
        BY <2>1 DEF ErrInv
    <2>3. err'[r] \in Errors
        BY <1>1, <1>5, <2>2 DEF DropOwnedSchema, DropUnacknowledged, Writing,
            Write, Publishing, Commit, CommitUnacknowledged, TypeOK,
            migrationVars, Errors
    <2> QED
        BY <2>3 DEF ErrInv, Errors, ConflictIsReal
<1> QED
    BY <1>2, <1>3, <1>4, <1>5, CommandSteps

LEMMA RealStep ==
    ASSUME Inv, AllFree, WholeDesiredStates, \A s \in Runner : ErrInv(s), [Next]_vars
    PROVE  /\ \A s \in Runner : ErrInv(s)'
           /\ \A s \in Runner : ConflictIsReal(s)
<1>1. CASE UNCHANGED vars
    BY <1>1 DEF vars, migrationVars, ErrInv, ConflictIsReal
<1>2. ASSUME NEW r \in Runner, CommandStep(r)
      PROVE  /\ \A s \in Runner : ErrInv(s)'
             /\ \A s \in Runner : ConflictIsReal(s)
    <2>1. \A s \in Runner \ {r} : phase'[s] = phase[s] /\ err'[s] = err[s]
        BY <1>2, CommandIsOwn DEF AllFree
    <2>2. \A s \in Runner \ {r} : ErrInv(s)' /\ ConflictIsReal(s)
        BY <2>1 DEF ErrInv, ConflictIsReal
    <2>3. CASE RejectWrite(r)
        <3>1. phase'[r] = "failed"
            BY <2>3 DEF RejectWrite, Abort, Enter, Inv, TypeOK
        <3> QED
            BY <2>2, <2>3, <3>1, RejectWriteIsReal DEF ErrInv, Over
    <2>4. CASE ~RejectWrite(r)
        BY <1>2, <2>2, <2>4, OtherStepsAreReal
    <2> QED
        BY <2>3, <2>4
<1> QED
    BY <1>1, <1>2 DEF Next

LEMMA NothingFailedYet == Init => \A r \in Runner : ErrInv(r)
BY DEF Init, MigrationInit, ErrInv, Errors

\* Interleavings, crashes and retries alone never make up a conflict: what a
\* command disagrees with is a desired state that is stored as a whole; and no
\* write operation is refused for a missing reference.
THEOREM RefusalsAreReal == Spec => ConflictsAreReal
<1>1. Init => AllFree
    BY DEF Init, AllFree, Free
<1>2. Inv /\ AllFree /\ [Next]_vars => AllFree'
    BY InvStep
<1>3. Inv /\ AllFree /\ WholeDesiredStates /\ (\A r \in Runner : ErrInv(r)) /\ [Next]_vars
        => (\A r \in Runner : ErrInv(r))'
    BY RealStep
<1>4. Inv /\ AllFree /\ WholeDesiredStates /\ (\A r \in Runner : ErrInv(r)) /\ [Next]_vars
        => [\A r \in Runner : ConflictIsReal(r)]_vars
    BY RealStep
<1> QED
    BY <1>1, <1>2, <1>3, <1>4, NothingFailedYet, Inductive, StoreHoldsWholeStates, PTL
    DEF Spec, ConflictsAreReal

-----------------------------------------------------------------------------
(* One process alone *)

\* No other process builds, migrates or rebuilds meanwhile.
Alone == \A r, s \in Runner : r = s

Packaged == Tracked(PackageRes)

\* What the runner of a rebuild finds after its own drop: a ledger of packaged
\* migrations only, their relations and no others.
FreshLedger ==
    /\ \A v \in Version : ledger[v] \in {Absent, Packaged[v]}
    /\ relations = Recorded(ledger)

\* Nothing the runner of a rebuild has read can be outdated.
FreshRunner(r) ==
    /\ step[r] \in {"idle", "bootstrap", "create_ledger", "read_ledger", "apply",
                    "migrated", "failed"}
    /\ step[r] \notin {"idle", "failed"} => package[r] = Packaged
    /\ step[r] = "create_ledger" => sawSchema[r] = schemaExists
    /\ step[r] \in {"read_ledger", "apply"} => ledgerExists
    /\ step[r] = "apply" => pending[r] = Recorded(Packaged) \ Recorded(ledger)
    /\ step[r] = "migrated" => Recorded(Packaged) \subseteq Recorded(ledger)
    /\ step[r] = "failed" => err[r] = "OperationalError"

\* After the drop a rebuild finds an empty, fresh schema until it commits.
RebuildInv(r) ==
    /\ phase[r] # "migrate" => step[r] = "idle"
    /\ op[r] = "rebuild" =>
        /\ phase[r] \in {"migrate"} \cup Persisting => rows = Empty
        /\ phase[r] = "migrate" => FreshLedger /\ FreshRunner(r)
        /\ phase[r] \in Persisting => TablesExist
        /\ phase[r] = "done" => rows = Desired(r)
        /\ phase[r] = "failed" /\ input[r] \in ValidInputs => err[r] = "OperationalError"

\* A migration that goes on, collides with nothing, or loses its connection.
LEMMA FreshMigrate ==
    ASSUME TypeOK, NEW r \in Runner, phase[r] = "migrate",
           FreshLedger, FreshRunner(r), MigrateAct(r)
    PROVE  FreshLedger' /\ FreshRunner(r)'
<1> USE DEF TypeOK, RunnerTypeOK, GoTo, Raise, FreshRunner, schemaState, runnerState
<1>0. /\ step \in [Runner -> {"idle"} \cup Active \cup Ended]
      /\ package \in [Runner -> Ledgers]
      /\ sawSchema \in [Runner -> BOOLEAN]
      /\ pending \in [Runner -> SUBSET Version]
      /\ err \in [Runner -> Errors \cup PersistErrors]
      /\ ledger \in [Version -> Checksum \cup {Absent}]
      /\ Packaged \in [Version -> Checksum \cup {Absent}]
    BY TrackedType, PackageAssumption DEF Ledgers, Packaged
<1>1. Unknown(Packaged) = {} /\ Mismatched(Packaged) = {}
    BY <1>0 DEF FreshLedger, Unknown, Mismatched, Recorded
<1>2. ASSUME UNCHANGED <<ledger, relations>> PROVE FreshLedger'
    BY <1>2 DEF FreshLedger, Recorded
<1>3. ASSUME NEW v \in Version, step[r] = "apply", IsNext(r, v), CommitMigration(r, v)
      PROVE  /\ FreshLedger'
             /\ Recorded(ledger') = Recorded(ledger) \cup {v}
             /\ ledgerExists'
    <2>1. ledger' = [ledger EXCEPT ![v] = Packaged[v]] /\ relations' = relations \cup {v}
        BY <1>3 DEF CommitMigration
    <2>2. v \in Recorded(Packaged) /\ Packaged[v] # Absent
        BY <1>3 DEF IsNext, Recorded
    <2> QED
        BY <1>0, <1>3, <2>1, <2>2 DEF FreshLedger, Recorded, CommitMigration
<1>4. CASE CallMigrate(r)
    BY <1>0, <1>2, <1>4 DEF CallMigrate, StartMigrate, Discover, Packaged
<1>5. CASE CreateSchemaIfNotExists(r)
    BY <1>0, <1>2, <1>5 DEF CreateSchemaIfNotExists
<1>6. CASE CommitBootstrap(r)
    BY <1>0, <1>2, <1>6 DEF CommitBootstrap
<1>7. CASE ReadLedger(r)
    BY <1>0, <1>2, <1>7 DEF ReadLedger, PendingIn, Recorded
<1>8. CASE ApplyMigration(r)
    <2>1. PICK v \in Version :
            /\ IsNext(r, v)
            /\ CommitMigration(r, v)
            /\ pending' = [pending EXCEPT ![r] = @ \ {v}]
        BY <1>8 DEF ApplyMigration
    <2> QED
        BY <1>0, <1>3, <1>8, <2>1 DEF ApplyMigration
<1>9. CASE ReturnMigrated(r)
    BY <1>0, <1>2, <1>9 DEF ReturnMigrated, Recorded
<1>10. ~BootstrapCollides(r) /\ ~Validate(r) /\ ~LedgerMissing(r)
    BY <1>1 DEF BootstrapCollides, Validate, RejectUnknown, RejectMismatch,
        LedgerMissing, ReadingLedger
<1>11. ~ApplyCollides(r)
    <2> SUFFICES ASSUME step[r] = "apply", NEW v \in Version, IsNext(r, v)
                 PROVE  CanApply(v)
        BY DEF ApplyCollides
    <2> QED
        BY DEF IsNext, CanApply, FreshLedger, Recorded
<1>12. CASE Fault(r)
    <2>1. CASE Interrupt(r)
        BY <1>0, <1>2, <2>1 DEF Interrupt
    <2>2. CASE CommitMigrationUnacknowledged(r)
        <3>1. FreshLedger'
            BY <1>3, <2>2 DEF CommitMigrationUnacknowledged
        <3> QED
            BY <1>0, <2>2, <3>1 DEF CommitMigrationUnacknowledged
    <2>3. CASE CommitBootstrapUnacknowledged(r)
        BY <1>0, <1>2, <2>3 DEF CommitBootstrapUnacknowledged
    <2> QED
        BY <1>12, <2>1, <2>2, <2>3 DEF Fault
<1> QED
    BY <1>4, <1>5, <1>6, <1>7, <1>8, <1>9, <1>10, <1>11, <1>12
    DEF MigrateAct, MigrateStep, MigrateLosesLedger, MigrateFault, Migrate

\* An empty store of fresh tables refuses no write of valid contracts.
LEMMA FreshWrite ==
    ASSUME Inv, NEW r \in Runner, phase[r] \in Tables, TablesExist, rows = Empty,
           input[r] \in ValidInputs
    PROVE  Refused(r, phase[r]) = "none"
<1>1. input[r] \in Inputs
    BY DEF Inv, CommandInv, InputInv, Tables
<1>2. Present(rows) = {}
    BY DEF Present, Empty
<1>3. \A k \in Wanted(r, phase[r]) : k \in Key /\ rows[k] = Unset
    BY <1>1, WantedKeys DEF Empty
<1>4. ~PathTaken(r, phase[r]) /\ ~RowsDiffer(r, phase[r])
    BY <1>2, <1>3 DEF PathTaken, RowsDiffer, NewVersions
<1>5. ~ContractRefused(r, phase[r])
    BY DEF ContractRefused, ValidInputs, Desired
<1> QED
    BY <1>4, <1>5, ReferencesPresent DEF Refused

LEMMA RebuildStep ==
    ASSUME Alone, Inv, NEW r \in Runner, RebuildInv(r), [Next]_vars
    PROVE  RebuildInv(r)'
<1> USE DEF Enter, Abort
<1>1. /\ TypeOK
      /\ phase \in [Runner -> {"idle"} \cup Running \cup Over]
      /\ op \in [Runner -> {"build", "rebuild"}]
      /\ input \in [Runner -> Inputs \cup {Unset}]
      /\ err \in [Runner -> Errors \cup PersistErrors]
      /\ step \in [Runner -> {"idle"} \cup Active \cup Ended]
    BY DEF Inv, TypeOK, RunnerTypeOK
<1>2. CASE UNCHANGED vars
    BY <1>2 DEF vars, migrationVars, schemaState, runnerState, commandVars,
        RebuildInv, FreshLedger, FreshRunner, Recorded, TablesExist, Desired
<1>3. ASSUME NEW s \in Runner PROVE s = r
    BY DEF Alone
<1>4. CASE Quiet(r)
    <2>1. UNCHANGED <<schemaState, step, rows>> /\ phase[r] # "migrate"
        BY <1>4 DEF Quiet, Start, ConstructDesiredState, RejectInput, RejectWrite,
            Crash, EndCommand, migrationVars, Tables, Over
    <2>2. CASE \E o \in Operations, in \in Inputs : Start(r, o, in)
        <3>1. phase'[r] = "construct"
            BY <1>1, <2>2 DEF Start
        <3> QED
            BY <2>1, <3>1 DEF RebuildInv, Persisting, Tables
    <2>3. CASE ConstructDesiredState(r)
        <3>1. op'[r] = "rebuild" => phase'[r] = "drop"
            BY <1>1, <2>3 DEF ConstructDesiredState, AfterConstruct, commandVars
        <3> QED
            BY <2>1, <3>1 DEF RebuildInv, Persisting, Tables
    <2>4. CASE RejectInput(r)
        <3>1. phase'[r] = "failed" /\ input'[r] \notin ValidInputs
            BY <1>1, <2>4 DEF RejectInput, ValidInputs, commandVars
        <3> QED
            BY <2>1, <3>1 DEF RebuildInv, Persisting, Tables
    <2>5. CASE RejectWrite(r)
        <3>1. op[r] # "rebuild" \/ input[r] \notin ValidInputs
            BY <2>5, FreshWrite DEF RejectWrite, RebuildInv, Persisting
        <3>2. phase'[r] = "failed" /\ UNCHANGED <<op, input>>
            BY <1>1, <2>5 DEF RejectWrite, commandVars
        <3> QED
            BY <2>1, <3>1, <3>2 DEF RebuildInv, Persisting, Tables
    <2>6. CASE Crash(r)
        <3>1. phase'[r] = "failed" /\ err'[r] = "OperationalError"
            BY <1>1, <2>6 DEF Crash
        <3> QED
            BY <2>1, <3>1 DEF RebuildInv, Persisting, Tables
    <2>7. CASE EndCommand(r)
        <3>1. phase'[r] = "idle"
            BY <1>1, <2>7 DEF EndCommand
        <3> QED
            BY <2>1, <3>1 DEF RebuildInv, Persisting, Tables
    <2> QED
        BY <1>4, <2>2, <2>3, <2>4, <2>5, <2>6, <2>7 DEF Quiet
<1>5. CASE MigrateAct(r)
    <2>1. phase[r] = "migrate" /\ UNCHANGED <<rows, phase, op, input>>
        BY <1>1, <1>5, MigrateActType DEF commandVars
    <2>2. op[r] = "rebuild" => FreshLedger' /\ FreshRunner(r)'
        BY <1>1, <1>5, <2>1, FreshMigrate DEF RebuildInv
    <2> QED
        BY <2>1, <2>2 DEF RebuildInv, Persisting, Tables
<1>6. CASE MigrateReturns(r)
    <2>1. /\ phase[r] = "migrate" /\ phase'[r] = "periods" /\ step'[r] = "idle"
          /\ step[r] = "migrated"
          /\ UNCHANGED <<rows, relations, op, input>>
        BY <1>1, <1>6 DEF MigrateReturns, ForgetRunner, GoTo, schemaState, commandVars
    <2>2. op[r] = "rebuild" => TablesExist
        BY <2>1, TablesVersionAssumption
        DEF RebuildInv, FreshRunner, FreshLedger, TablesExist, Packaged
    <2> QED
        BY <2>1, <2>2 DEF RebuildInv, TablesExist
<1>7. CASE MigrateRaises(r)
    <2>1. /\ phase[r] = "migrate" /\ phase'[r] = "failed" /\ step'[r] = "idle"
          /\ step[r] = "failed" /\ err'[r] = err[r]
          /\ UNCHANGED <<op, input>>
        BY <1>1, <1>7 DEF MigrateRaises, ForgetRunner, GoTo, commandVars
    <2> QED
        BY <2>1 DEF RebuildInv, FreshRunner, Persisting, Tables
<1>8. CASE DropOwnedSchema(r)
    <2>1. /\ phase[r] = "drop" /\ phase'[r] = "migrate" /\ step'[r] = "idle"
          /\ rows' = Empty /\ relations' = {} /\ Recorded(ledger') = {}
          /\ ledger' = [v \in Version |-> Absent]
        BY <1>1, <1>8 DEF DropOwnedSchema, DropEverything, Recorded, RebuildInv
    <2> QED
        BY <2>1 DEF RebuildInv, FreshLedger, FreshRunner, Persisting, Tables
<1>9. CASE DropUnacknowledged(r)
    <2>1. /\ phase[r] = "drop" /\ phase'[r] = "failed" /\ step'[r] = "idle"
          /\ err'[r] = "OperationalError"
        BY <1>1, <1>9 DEF DropUnacknowledged, RebuildInv
    <2> QED
        BY <2>1 DEF RebuildInv, Persisting, Tables
<1>10. CASE Writing(r)
    <2>1. PICK w \in Follows : Write(r, w[1], w[2])
        BY <1>10 DEF Writing
    <2>2. /\ phase[r] \in Persisting /\ phase'[r] \in Persisting
          /\ UNCHANGED <<rows, relations, op, step>>
        BY <1>1, <2>1, PassedNext DEF Write, Persisting, migrationVars, schemaState,
            commandVars
    <2> QED
        BY <2>2 DEF RebuildInv, TablesExist, Persisting, Tables
<1>11. CASE Publishing(r)
    <2>1. /\ phase[r] = "commit" /\ phase'[r] \in {"done", "failed"}
          /\ phase'[r] = "failed" => err'[r] = "OperationalError"
          /\ UNCHANGED <<op, input, step>>
        BY <1>1, <1>11 DEF Publishing, Commit, CommitUnacknowledged, migrationVars,
            commandVars
    <2>2. rows' = Overlay(rows, Desired(r)) /\ Desired(r) \in States
        BY <1>11, PublishIsWhole, DesiredType, ValidAreInputs DEF Publishes, Desired
    <2>3. rows = Empty => rows' = Desired(r)
        BY <2>2 DEF Overlay, Empty, States
    <2> QED
        BY <2>1, <2>3 DEF RebuildInv, Persisting, Tables, Desired
<1> QED
    BY <1>2, <1>3, <1>4, <1>5, <1>6, <1>7, <1>8, <1>9, <1>10, <1>11, NextSteps

LEMMA RebuildInvariant == Alone => (Spec => [](\A r \in Runner : RebuildInv(r)))
<1> SUFFICES ASSUME Alone PROVE Spec => [](\A r \in Runner : RebuildInv(r))
    OBVIOUS
<1>1. Init => \A r \in Runner : RebuildInv(r)
    BY DEF Init, MigrationInit, RebuildInv, Persisting, Tables
<1>2. Inv /\ (\A r \in Runner : RebuildInv(r)) /\ [Next]_vars
        => (\A r \in Runner : RebuildInv(r))'
    BY RebuildStep
<1> QED
    BY <1>1, <1>2, Inductive, PTL DEF Spec

\* A rebuild that returns leaves exactly its desired state, whatever earlier
\* commands of the process had left in the schema, or its failures cut short.
THEOREM RebuildsAreExact == Alone => (Spec => []RebuildIsExact)
<1>1. (\A r \in Runner : RebuildInv(r)) => RebuildIsExact
    BY DEF RebuildInv, RebuildIsExact
<1> QED
    BY <1>1, RebuildInvariant, PTL

\* A rebuild of a valid source recovers from every state the process may have
\* left: neither its migrations nor its writes can be refused.
THEOREM RebuildsRecover == Alone => (Spec => []RebuildRecovers)
<1>1. (\A r \in Runner : RebuildInv(r)) => RebuildRecovers
    BY DEF RebuildInv, RebuildRecovers
<1> QED
    BY <1>1, RebuildInvariant, PTL

\* No contract that would be refused is ever stored.
LEMMA StoredContractsAreValid ==
    ASSUME WholeDesiredStates, NEW k \in Present(rows), k.table = "futures_contracts"
    PROVE  <<rows[k], k.id[2]>> \notin InvalidContracts
<1>1. PICK in \in ValidInputs : DesiredOf[in][k] = rows[k]
    BY DEF WholeDesiredStates
<1> QED
    BY <1>1 DEF ValidInputs, ContractsAreValid, Present

\* What a write operation is refused for: some row it wants is not there as it
\* wants it.
LEMMA RefusedRowDiffers ==
    ASSUME Inv, WholeDesiredStates, NEW r \in Runner, phase[r] \in Tables,
           Refused(r, phase[r]) \in PersistErrors
    PROVE  \E k \in Present(Desired(r)) : rows[k] # Desired(r)[k]
<1>1. input[r] \in Inputs
    BY DEF Inv, CommandInv, InputInv, Tables
<1>2. \A k \in Wanted(r, phase[r]) : k \in Key /\ Desired(r)[k] # Unset
    BY <1>1, WantedKeys
<1>3. CASE RowsDiffer(r, phase[r])
    BY <1>2, <1>3 DEF RowsDiffer, Present
<1>4. CASE PathTaken(r, phase[r])
    <2>1. PICK k \in Wanted(r, phase[r]), q \in Present(rows) :
            /\ IsSource(k) /\ IsSource(q) /\ k # q
            /\ rows[q].path = Desired(r)[k].path
        BY <1>4 DEF PathTaken
    <2>2. rows[k] # Desired(r)[k]
        BY <1>2, <2>1 DEF Inv, PathsAreUnique, Present
    <2> QED
        BY <1>2, <2>1, <2>2 DEF Present
<1>5. CASE ContractRefused(r, phase[r])
    <2>1. PICK k \in Key : /\ k.table = "futures_contracts" /\ Desired(r)[k] # Unset
                           /\ <<Desired(r)[k], k.id[2]>> \in InvalidContracts
        BY <1>5 DEF ContractRefused, ContractsAreValid
    <2>2. rows[k] # Desired(r)[k]
        BY <2>1, StoredContractsAreValid DEF Present
    <2> QED
        BY <2>1, <2>2 DEF Present
<1> QED
    BY <1>3, <1>4, <1>5, ReferencesPresent DEF Refused, PersistErrors

\* A failed write of a process that has not moved on since.
RefusalInv(r) ==
    /\ phase[r] \notin Over => err[r] \in Errors
    /\ phase[r] = "failed" /\ err[r] \in PersistErrors \ {"ValueError"} =>
            \E k \in Present(Desired(r)) : rows[k] # Desired(r)[k]

LEMMA RefusalStep ==
    ASSUME Alone, Inv, WholeDesiredStates, NEW r \in Runner, RefusalInv(r), [Next]_vars
    PROVE  RefusalInv(r)'
<1> USE DEF Enter, Abort
<1>0. TypeOK
    BY DEF Inv
<1>1. CASE UNCHANGED vars
    BY <1>1 DEF vars, migrationVars, commandVars, RefusalInv, Desired, Present
<1>2. CASE RejectWrite(r)
    <2>1. /\ phase[r] \in Tables /\ phase'[r] = "failed"
          /\ err'[r] = Refused(r, phase[r])
          /\ UNCHANGED <<rows, input>>
        BY <1>0, <1>2 DEF RejectWrite, TypeOK, commandVars
    <2> QED
        BY <2>1, RefusedRowDiffers DEF RefusalInv, Over, Desired, Present
<1>3. ASSUME phase'[r] \notin Over => err'[r] \in Errors,
             phase'[r] = "failed" => err'[r] \in Errors \cup {"ValueError"}
      PROVE  RefusalInv(r)'
    BY <1>3 DEF RefusalInv, Errors, PersistErrors
<1>4. CASE Quiet(r) /\ ~RejectWrite(r)
    <2>1. CASE (\E o \in Operations, in \in Inputs : Start(r, o, in))
               \/ ConstructDesiredState(r)
        BY <1>0, <1>3, <2>1 DEF Start, ConstructDesiredState, AfterConstruct,
            TypeOK, RefusalInv, Over, migrationVars
    <2>2. CASE RejectInput(r) \/ Crash(r) \/ EndCommand(r)
        BY <1>0, <1>3, <2>2 DEF RejectInput, Crash, EndCommand, TypeOK, Over, Errors
    <2> QED
        BY <1>4, <2>1, <2>2 DEF Quiet
<1>5. CASE MigrateAct(r)
    <2>1. phase'[r] = "migrate" /\ ErrStep(r) /\ phase[r] = "migrate"
        BY <1>0, <1>5, MigrateActType
    <2>2. err'[r] \in Errors
        BY <1>0, <2>1 DEF ErrStep, TypeOK, RefusalInv, Over
    <2> QED
        BY <1>3, <2>1, <2>2
<1>6. CASE MigrateReturns(r) \/ MigrateRaises(r)
    <2>1. phase[r] = "migrate" /\ err[r] \in Errors
        BY <1>6 DEF MigrateReturns, MigrateRaises, RefusalInv, Over
    <2>2. err'[r] = err[r]
        BY <1>0, <1>6 DEF MigrateReturns, MigrateRaises, TypeOK
    <2> QED
        BY <1>3, <2>1, <2>2
<1>7. CASE \/ DropOwnedSchema(r) \/ DropUnacknowledged(r)
           \/ Writing(r) \/ Publishing(r)
    <2>1. phase[r] \notin Over
        BY <1>7 DEF DropOwnedSchema, DropUnacknowledged, Writing, Write, Follows,
            Publishing, Commit, CommitUnacknowledged, Over
    <2>2. err[r] \in Errors
        BY <2>1 DEF RefusalInv
    <2>3. err'[r] \in Errors
        BY <1>0, <1>7, <2>2 DEF DropOwnedSchema, DropUnacknowledged, Writing,
            Write, Publishing, Commit, CommitUnacknowledged, TypeOK,
            migrationVars, Errors
    <2> QED
        BY <1>3, <2>3
<1> QED
    BY <1>1, <1>2, <1>4, <1>5, <1>6, <1>7, NextSteps DEF Alone

\* A command whose desired rows are all there, with the values it asks for, is
\* refused by no write operation.
THEOREM RepeatedBuildsAreAccepted == Alone => (Spec => []RepeatedBuildIsAccepted)
<1> SUFFICES ASSUME Alone PROVE Spec => []RepeatedBuildIsAccepted
    OBVIOUS
<1>1. Init => \A r \in Runner : RefusalInv(r)
    BY DEF Init, MigrationInit, RefusalInv, Errors
<1>2. Inv /\ WholeDesiredStates /\ (\A r \in Runner : RefusalInv(r)) /\ [Next]_vars
        => (\A r \in Runner : RefusalInv(r))'
    BY RefusalStep
<1>3. (\A r \in Runner : RefusalInv(r)) => RepeatedBuildIsAccepted
    BY DEF RefusalInv, RepeatedBuildIsAccepted
<1> QED
    BY <1>1, <1>2, <1>3, Inductive, StoreHoldsWholeStates, PTL DEF Spec

-----------------------------------------------------------------------------
(* Refinement of the abstract store *)

\* The instance repeats the definitions of RefDataState; they are the same.
LEMMA SameData ==
    /\ Store!Empty = Empty
    /\ Store!DesiredOf = DesiredOf
    /\ Store!ValidInputs = ValidInputs
    /\ \A s, t : Store!Compatible(s, t) <=> Compatible(s, t)
    /\ \A s, t : Store!Overlay(s, t) = Overlay(s, t)
<1>1. Store!Key = Key
    BY DEF Store!Key, Key, Store!Members, Members
<1>2. \A in, k : Store!DesiredRow(in, k) = DesiredRow(in, k)
    BY DEF Store!DesiredRow, DesiredRow, Store!HasContract, HasContract
<1> QED
    BY <1>1, <1>2 DEF Store!Empty, Empty, Store!DesiredOf, DesiredOf,
        Store!BuildDesiredState, BuildDesiredState, Store!Compatible, Compatible,
        Store!Overlay, Overlay, Store!IsSource, IsSource, Store!ValidInputs,
        ValidInputs, Store!ContractsAreValid, ContractsAreValid

LEMMA StoreInitially == Init => Store!StoreInit
BY SameData DEF Init, MigrationInit, Store!StoreInit, TablesExist

LEMMA StoreStep ==
    ASSUME Inv, [Next]_vars
    PROVE  [Store!StoreNext]_Store!storeVars
<1>1. CASE UNCHANGED rows /\ (TablesExist => TablesExist')
    <2>1. CASE TablesExist \/ ~TablesExist'
        <3>1. TablesExist' = TablesExist
            BY <1>1, <2>1 DEF TablesExist
        <3> QED
            BY <1>1, <3>1 DEF Store!storeVars
    <2>2. CASE ~TablesExist /\ TablesExist'
        BY <1>1, <2>2 DEF Store!StoreNext, Store!Create, TablesExist
    <2> QED
        BY <2>1, <2>2
<1>2. CASE \E r \in Runner : DropOwnedSchema(r) \/ DropUnacknowledged(r)
    BY <1>2, SameData DEF DropOwnedSchema, DropUnacknowledged, DropEverything,
        TablesExist, Store!StoreNext, Store!Discard
<1>3. ASSUME NEW in \in ValidInputs, Publishes(in)
      PROVE  [Store!StoreNext]_Store!storeVars
    <2>1. CASE TablesExist
        BY <1>3, <2>1, SameData DEF Publishes, Store!StoreNext, Store!Materialise
    <2>2. CASE ~TablesExist
        <3>1. Present(DesiredOf[in]) = {}
            BY <1>3, <2>2 DEF Publishes
        <3>2. rows' = rows
            BY <1>3, <3>1 DEF Publishes, Overlay, Present, Inv, TypeOK, States
        <3> QED
            BY <1>3, <3>2 DEF Publishes, Store!storeVars
    <2> QED
        BY <2>1, <2>2
<1>4. (\E r \in Runner : Publishes(input[r])) => [Store!StoreNext]_Store!storeVars
    BY <1>3 DEF Publishes
<1> QED
    BY <1>1, <1>2, <1>4, RowSteps

\* The commands implement the abstract store: READ COMMITTED statements of
\* concurrent transactions amount to atomic commands.
THEOREM MaterialisationImplementsStore == Spec => ImplementsStore
BY StoreInitially, StoreStep, Inductive, PTL
DEF Spec, ImplementsStore, Store!StoreSpec
=============================================================================
