---------------------------- MODULE Materialisation ----------------------------
(***************************************************************************)
(* build_refdata() and rebuild_refdata() of mxm-refdata                     *)
(* (materialisation.py), run by several processes against one PostgreSQL    *)
(* schema, with the transactions of sql/postgres.py and the write           *)
(* operations of sql/periods.py, period_cycles.py, futures_products.py and  *)
(* futures_contracts.py.                                                    *)
(*                                                                          *)
(* A command is a sequence of transactions: the drop (rebuild only), those  *)
(* of migrate(), and one that writes the six tables.  A step of that last   *)
(* transaction is one write operation.  PostgreSQL runs it at READ          *)
(* COMMITTED: a statement sees the rows committed before it and those of    *)
(* its own transaction; it waits for a transaction that holds an            *)
(* uncommitted row it collides with; a table written to is locked against   *)
(* DROP until the transaction ends.  A write operation sends its rows one   *)
(* by one in the order of their identities; all processes follow the same   *)
(* order, so waiting for the whole operation is as good as waiting for a    *)
(* row of it.  What is read back afterwards is covered by the row locks.    *)
(***************************************************************************)
EXTENDS Migrations, RefDataState

CONSTANTS
    Operations,     \* the commands processes run, of {"build", "rebuild"}
    PackageRes,     \* the packaged migration resources
    TablesVersion   \* the tracked migration that creates the six tables

ASSUME OperationsAssumption == Operations \subseteq {"build", "rebuild"}
ASSUME PackageAssumption ==
    PackageRes \in Resources /\ Discoverable(PackageRes)
ASSUME TablesVersionAssumption == TablesVersion \in Recorded(Tracked(PackageRes))

VARIABLES
    rows,     \* the committed rows of the six tables
    phase,    \* where each command is
    op,       \* which command it is
    input,    \* what its desired state is built from
    written,  \* keys of rows its open transaction has inserted or updated
    locked    \* tables its open transaction holds against DROP

commandVars == <<op, input>>
transactionVars == <<written, locked>>
vars == <<migrationVars, rows, phase, commandVars, transactionVars>>

Persisting == Tables \cup {"commit"}
Running == {"construct", "drop", "migrate"} \cup Persisting
Over == {"done", "failed"}
PersistErrors ==
    {"ValueError", "PersistenceError", "ConflictError", "ForeignKeyViolation",
     "UniqueViolation"}

Desired(r) == DesiredOf[input[r]]
WantedOf == [in \in Inputs |-> [t \in Tables |->
                {k \in Present(DesiredOf[in]) : k.table = t}]]
Wanted(r, t) == WantedOf[input[r]][t]

Uncommitted(r) == [k \in Key |-> IF k \in written[r] THEN Desired(r)[k] ELSE Unset]
Visible(r) == Overlay(rows, Uncommitted(r))

Enter(r, p) == phase' = [phase EXCEPT ![r] = p]
Abort(r, e) ==
    /\ Enter(r, "failed")
    /\ err' = [err EXCEPT ![r] = e]
    /\ written' = [written EXCEPT ![r] = {}]
    /\ locked' = [locked EXCEPT ![r] = {}]

Init ==
    /\ MigrationInit
    /\ rows = Empty
    /\ phase = [r \in Runner |-> "idle"]
    /\ op = [r \in Runner |-> "build"]
    /\ input = [r \in Runner |-> Unset]
    /\ written = [r \in Runner |-> {}]
    /\ locked = [r \in Runner |-> {}]

-----------------------------------------------------------------------------
(* _build_desired_state(): before the database is touched *)

Start(r, o, in) ==
    /\ phase[r] = "idle"
    /\ op' = [op EXCEPT ![r] = o]
    /\ input' = [input EXCEPT ![r] = in]
    /\ Enter(r, "construct")
    /\ UNCHANGED <<migrationVars, rows, transactionVars>>

NeverDrops(r) == "migrate"
AfterConstruct(r) == IF op[r] = "rebuild" THEN "drop" ELSE "migrate"

ConstructDesiredState(r) ==
    /\ phase[r] = "construct"
    /\ input[r].constructible
    /\ Enter(r, AfterConstruct(r))
    /\ UNCHANGED <<migrationVars, rows, commandVars, transactionVars>>

\* Bad configuration, bad source or too little calendar coverage.
RejectInput(r) ==
    /\ phase[r] = "construct"
    /\ ~input[r].constructible
    /\ Abort(r, "ValueError")
    /\ UNCHANGED <<schemaState, step, runnerState, faults, rows, commandVars>>

-----------------------------------------------------------------------------
(* _drop_owned_schema(): one transaction of its own *)

\* DROP ... CASCADE needs every table; a writer holds those it has written to,
\* a reader those it has read (Observers).
LocksIgnored(r) == TRUE
TablesUnused(r) == \A s \in Runner \ {r} : locked[s] = {}

DropEverything ==
    /\ schemaExists' = FALSE
    /\ ledgerExists' = FALSE
    /\ ledger' = [v \in Version |-> Absent]
    /\ relations' = {}
    /\ rows' = Empty

DropOwnedSchema(r) ==
    /\ phase[r] = "drop"
    /\ TablesUnused(r)
    /\ DropEverything
    /\ Enter(r, "migrate")
    /\ UNCHANGED <<step, runnerState, err, faults, commandVars, transactionVars>>

-----------------------------------------------------------------------------
(* MigrationRunner(database).migrate() *)

CallMigrate(r) ==
    /\ phase[r] = "migrate"
    /\ StartMigrate(r, PackageRes)
    /\ UNCHANGED <<rows, phase, commandVars, transactionVars>>

MigrateStep(r) ==
    /\ phase[r] = "migrate"
    /\ Migrate(r) \/ Validate(r)
    /\ UNCHANGED <<rows, phase, commandVars, transactionVars>>

\* A rebuild of another process dropped the schema after the bootstrap.
MigrateLosesLedger(r) ==
    /\ phase[r] = "migrate"
    /\ LedgerMissing(r)
    /\ UNCHANGED <<rows, phase, commandVars, transactionVars>>

MigrateFault(r) ==
    /\ phase[r] = "migrate"
    /\ Fault(r)
    /\ UNCHANGED <<rows, phase, commandVars, transactionVars>>

ForgetRunner(r) ==
    /\ GoTo(r, "idle")
    /\ package' = [package EXCEPT ![r] = [v \in Version |-> Absent]]
    /\ pending' = [pending EXCEPT ![r] = {}]
    /\ newly' = [newly EXCEPT ![r] = {}]
    /\ sawSchema' = [sawSchema EXCEPT ![r] = FALSE]

MigrateReturns(r) ==
    /\ phase[r] = "migrate"
    /\ step[r] = "migrated"
    /\ ForgetRunner(r)
    /\ Enter(r, "periods")
    /\ UNCHANGED <<schemaState, inspection, err, faults, rows, commandVars,
                   transactionVars>>

MigrateRaises(r) ==
    /\ phase[r] = "migrate"
    /\ step[r] = "failed"
    /\ ForgetRunner(r)
    /\ Abort(r, err[r])
    /\ UNCHANGED <<schemaState, inspection, faults, rows, commandVars>>

-----------------------------------------------------------------------------
(* _persist_desired_state(): one transaction, one operation per table *)

TablesExist == TablesVersion \in relations

\* Another transaction has an uncommitted version of a wanted row, or (in the
\* table of sources) of a row whose path, old or new, is wanted.
PathsOf(s) == {s[k].path : k \in {q \in Present(s) : IsSource(q)}}

WaitsFor(r, s, t) ==
    \/ Wanted(r, t) \cap written[s] # {}
    \/ /\ t = "futures_product_sources"
       /\ \E k \in written[s] :
            /\ IsSource(k)
            /\ \/ Desired(s)[k].path \in PathsOf(Desired(r))
               \/ rows[k] # Unset /\ rows[k].path \in PathsOf(Desired(r))

Waits(r, t) == \E s \in Runner \ {r} : WaitsFor(r, s, t)

ReferenceMissing(r, t) ==
    \E k \in Wanted(r, t) : \E j \in Parents(k) : Visible(r)[j] = Unset

\* The keys a write operation leaves with an uncommitted version: ON CONFLICT
\* DO NOTHING for operational rows, DO UPDATE for sources.
OverwriteAll(r, t) == Wanted(r, t)
NewVersions(r, t) == {k \in Wanted(r, t) : IsSource(k) \/ rows[k] = Unset}

\* Reading the wanted rows back finds a kept row with another value.
NeverDiffer(r, t) == FALSE
RowsExist(r, t) == Wanted(r, t) # NewVersions(r, t)
RowsDiffer(r, t) ==
    \E k \in Wanted(r, t) \ NewVersions(r, t) : rows[k] # Desired(r)[k]

\* Sources are upserted one by one in the order of the product ids and the
\* path is unique at every row: q keeps its path until its own turn.
PathMayRepeat(r, t) == FALSE
PathTaken(r, t) ==
    \E k \in Wanted(r, t), q \in Present(rows) :
        /\ IsSource(k) /\ IsSource(q) /\ k # q
        /\ rows[q].path = Desired(r)[k].path
        /\ ~(q.id < k.id /\ q \in Wanted(r, t))

\* Contracts are validated when they are inserted, by then a rebuild has dropped
\* the schema: before a row is sent, so without waiting for anybody.
ContractRefused(r, t) == t = "futures_contracts" /\ ~ContractsAreValid(Desired(r))

Refused(r, t) ==
    CASE ContractRefused(r, t) -> "PersistenceError"
      [] ~ContractRefused(r, t) /\ Wanted(r, t) = {} -> "none"
      [] ~ContractRefused(r, t) /\ Wanted(r, t) # {} /\ ~TablesExist -> "UndefinedTable"
      [] OTHER -> IF ReferenceMissing(r, t) THEN "ForeignKeyViolation"
                  ELSE IF PathTaken(r, t) THEN "UniqueViolation"
                  ELSE IF RowsDiffer(r, t) THEN "ConflictError"
                  ELSE "none"

IdentitiesOf(keys) == {k.id : k \in keys}
TablesOf(keys) == {k.table : k \in keys}

WriteAndCommit(r, t, next) ==
    /\ phase[r] = t
    /\ ~Waits(r, t)
    /\ Refused(r, t) = "none"
    /\ rows' = [k \in Key |-> IF k \in NewVersions(r, t) THEN Desired(r)[k] ELSE rows[k]]
    /\ Enter(r, next)
    /\ UNCHANGED <<migrationVars, commandVars, transactionVars>>

Write(r, t, next) ==
    /\ phase[r] = t
    /\ ~Waits(r, t)
    /\ Refused(r, t) = "none"
    /\ written' = [written EXCEPT ![r] = @ \cup NewVersions(r, t)]
    /\ locked' = [locked EXCEPT ![r] = @ \cup TablesOf(Wanted(r, t))]
    /\ Enter(r, next)
    /\ UNCHANGED <<migrationVars, rows, commandVars>>

InsertPeriods(r) == Write(r, "periods", "period_cycles")
InsertPeriodCycles(r) == Write(r, "period_cycles", "period_cycle_memberships")
InsertPeriodCycleMemberships(r) ==
    Write(r, "period_cycle_memberships", "futures_products")
SkipFuturesProducts(r) ==
    /\ phase[r] = "futures_products"
    /\ Enter(r, "futures_product_sources")
    /\ UNCHANGED <<migrationVars, rows, commandVars, transactionVars>>
InsertFuturesProducts(r) ==
    Write(r, "futures_products", "futures_product_sources")
UpsertFuturesProductSources(r) ==
    Write(r, "futures_product_sources", "futures_contracts")
InsertFuturesContracts(r) == Write(r, "futures_contracts", "commit")

\* An exception leaves the transaction block: rolled back, and raised.
RejectWrite(r) ==
    /\ phase[r] \in Tables
    /\ ContractRefused(r, phase[r]) \/ ~Waits(r, phase[r])
    /\ Refused(r, phase[r]) # "none"
    /\ Abort(r, Refused(r, phase[r]))
    /\ UNCHANGED <<schemaState, step, runnerState, faults, rows, commandVars>>

PublishNothing(r) == UNCHANGED rows
Publish(r) == rows' = Visible(r)

Commit(r) ==
    /\ phase[r] = "commit"
    /\ Publish(r)
    /\ written' = [written EXCEPT ![r] = {}]
    /\ locked' = [locked EXCEPT ![r] = {}]
    /\ Enter(r, "done")
    /\ UNCHANGED <<migrationVars, commandVars>>

-----------------------------------------------------------------------------
(* Failures, and the end of a command *)

\* The process dies, the connection fails or PostgreSQL cancels the session
\* (a deadlock with DROP, for one): an open transaction is rolled back.
Crash(r) ==
    /\ phase[r] \in Running \ {"migrate"}
    /\ CountFault
    /\ Abort(r, "OperationalError")
    /\ UNCHANGED <<schemaState, step, runnerState, rows, commandVars>>

\* The server commits, and the connection fails before the client learns it.
CommitUnacknowledged(r) ==
    /\ phase[r] = "commit"
    /\ Publish(r)
    /\ CountFault
    /\ Abort(r, "OperationalError")
    /\ UNCHANGED <<schemaState, step, runnerState, commandVars>>

DropUnacknowledged(r) ==
    /\ phase[r] = "drop"
    /\ TablesUnused(r)
    /\ DropEverything
    /\ CountFault
    /\ Abort(r, "OperationalError")
    /\ UNCHANGED <<step, runnerState, commandVars>>

EndCommand(r) ==
    /\ phase[r] \in Over
    /\ Enter(r, "idle")
    /\ op' = [op EXCEPT ![r] = "build"]
    /\ input' = [input EXCEPT ![r] = Unset]
    /\ err' = [err EXCEPT ![r] = "none"]
    /\ UNCHANGED <<schemaState, step, runnerState, faults, rows, transactionVars>>

-----------------------------------------------------------------------------
Persist(r) ==
    \/ InsertPeriods(r)
    \/ InsertPeriodCycles(r)
    \/ InsertPeriodCycleMemberships(r)
    \/ InsertFuturesProducts(r)
    \/ UpsertFuturesProductSources(r)
    \/ InsertFuturesContracts(r)
    \/ RejectWrite(r)
    \/ Commit(r)

Command(r) ==
    \/ ConstructDesiredState(r)
    \/ RejectInput(r)
    \/ DropOwnedSchema(r)
    \/ CallMigrate(r)
    \/ MigrateStep(r)
    \/ MigrateLosesLedger(r)
    \/ MigrateReturns(r)
    \/ MigrateRaises(r)
    \/ Persist(r)

CommandFault(r) ==
    \/ MigrateFault(r)
    \/ Crash(r)
    \/ CommitUnacknowledged(r)
    \/ DropUnacknowledged(r)

CommandStep(r) ==
    \/ \E o \in Operations, in \in Inputs : Start(r, o, in)
    \/ Command(r)
    \/ CommandFault(r)
    \/ EndCommand(r)

Next == \E r \in Runner : CommandStep(r)

Spec == Init /\ [][Next]_vars
-----------------------------------------------------------------------------
(* Properties.  Some definitions above precede a faulty variant of what they   *)
(* define (NeverDrops, LocksIgnored, OverwriteAll, NeverDiffer, RowsExist,         *)
(* PathMayRepeat, IdentitiesOf, WriteAndCommit, SkipFuturesProducts,           *)
(* PublishNothing): nothing uses them, they show that each property below      *)
(* notices the fault.                                                          *)

\* Type invariant of the commands, their transactions and the committed rows.
TypeOK ==
    /\ RunnerTypeOK
    /\ err \in [Runner -> Errors \cup PersistErrors]
    /\ rows \in States
    /\ phase \in [Runner -> {"idle"} \cup Running \cup Over]
    /\ op \in [Runner -> {"build", "rebuild"}]
    /\ input \in [Runner -> Inputs \cup {Unset}]
    /\ written \in [Runner -> SUBSET Key]
    /\ locked \in [Runner -> SUBSET Tables]

\* A reader never sees part of a materialisation: whatever crashed, collided or
\* was rolled back, each committed row belongs to a desired state of which
\* every row is there, with the operational values it asked for.
WholeDesiredStates ==
    LET whole == {in \in ValidInputs : Holds(rows, DesiredOf[in])} IN
        \A k \in Present(rows) : \E in \in whole : DesiredOf[in][k] = rows[k]

\* A build never changes or removes an operational row that was committed, and
\* no command removes some rows only: the other way out is losing all of them.
OperationalRowsAreImmutable ==
    [][rows' = Empty \/ \A k \in Present(rows) :
                            IsSource(k) \/ rows'[k] = rows[k]]_vars

\* Rows disappear only at the drop of a rebuild that has got through its
\* construction (its contracts may still be refused), and then for everybody: no
\* transaction goes on with rows of its own beside those that are gone.
DropIsClean ==
    (\E k \in Present(rows) : rows'[k] = Unset) =>
        /\ \E r \in Runner : /\ phase[r] = "drop" /\ phase'[r] # "drop"
                             /\ op[r] = "rebuild" /\ input[r].constructible
        /\ \A s \in Runner : Visible(s)' = Empty
DropsAreClean == [][DropIsClean]_vars

\* No two products carry the same source path, whatever builds interleave.
PathsAreUnique ==
    \A j, k \in Present(rows) :
        IsSource(j) /\ IsSource(k) /\ rows[j].path = rows[k].path => j = k

\* A command is refused for a conflict only when the store then holds, as a
\* whole, a desired state that disagrees with its own: interleaving, crashes and
\* retries alone never make one up, and the order of the write operations
\* satisfies every foreign key.
ConflictIsReal(r) ==
    phase[r] # "failed" /\ phase'[r] = "failed" =>
        /\ err'[r] = "ConflictError" =>
                \E in \in ValidInputs : /\ Holds(rows, DesiredOf[in])
                                        /\ ~Compatible(Desired(r), DesiredOf[in])
        /\ err'[r] # "ForeignKeyViolation"
ConflictsAreReal == [][\A r \in Runner : ConflictIsReal(r)]_vars

\* Concurrent statements of READ COMMITTED transactions amount to atomic
\* commands: the committed rows change as the abstract store allows.
Store == INSTANCE MaterialisedStore
            WITH ready <- TablesExist, store <- rows
ImplementsStore == Store!StoreSpec

\* Alone, a rebuild that returns leaves exactly its desired state: nothing of
\* earlier inputs survives, after any number of failed or repeated commands.
RebuildIsExact ==
    \A r \in Runner :
        phase[r] = "done" /\ op[r] = "rebuild" => rows = Desired(r)

\* Alone, a rebuild of a valid source recovers from whatever earlier commands
\* left: only the connection can make it fail.
RebuildRecovers ==
    \A r \in Runner :
        phase[r] = "failed" /\ op[r] = "rebuild" /\ input[r] \in ValidInputs =>
            err[r] = "OperationalError"

\* "Equivalent repeated builds are idempotent": a build whose desired rows are
\* all there with the same values is never refused.
RepeatedBuildIsAccepted ==
    \A r \in Runner :
        phase[r] = "failed" /\ err[r] \in PersistErrors \ {"ValueError"} =>
            \E k \in Present(Desired(r)) : rows[k] # Desired(r)[k]

\* "Source provenance may evolve while the operational product definition
\* remains unchanged": provenance alone never makes a build fail.
ProvenanceMayEvolve ==
    \A r \in Runner :
        phase[r] = "failed" /\ err[r] = "UniqueViolation" =>
            ~Compatible(rows, Desired(r))

-----------------------------------------------------------------------------
(* Liveness *)

\* A process that can proceed does.  PostgreSQL queues the waiters of a row
\* lock and of a table lock, so a writer or a DROP is not overtaken for ever.
CommandFairness == \A r \in Runner : SF_vars(Command(r))

FairSpec == Spec /\ CommandFairness

\* Every command returns or raises: no two of them wait on each other.
CommandsEnd ==
    \A r \in Runner : phase[r] \in Running ~> phase[r] \in Over

\* Operators who keep building each of their inputs; now and then one rebuilds.
RetryBuildsSpec ==
    /\ FairSpec
    /\ \A r \in Runner : WF_vars(EndCommand(r))
    /\ \A in \in Inputs : SF_vars(\E r \in Runner : Start(r, "build", in))

\* Once nobody rebuilds any more, builds of compatible inputs end with all of
\* them in the store for good, although they collide and fail finitely often.
BuildsConverge ==
    <>[](\A r \in Runner : phase[r] \in Running => op[r] = "build")
        => <>[](\A in \in Inputs : Holds(rows, DesiredOf[in]))
=============================================================================
