------------------------------ MODULE DesiredState ------------------------------
(***************************************************************************)
(* _build_desired_state() of materialisation.py and what a command does     *)
(* with its result: configuration, the source files one by one and then     *)
(* HEAD, periods (PeriodGeneration), calendar coverage, contracts           *)
(* (Contracts) product by product, the drop of a rebuild, and the           *)
(* validation that persistence adds.  Beside it the source repository may   *)
(* move.  generate_periods() may also be called on its own.                 *)
(*                                                                          *)
(* Transactions, conflicts and failures are those of Materialisation.       *)
(***************************************************************************)
EXTENDS PeriodGeneration, Contracts

CONSTANTS
    Path,       \* source-relative paths, as numbers in the order they sort
    Commits,    \* the source documents of each commit, by path
    Drafts,     \* documents an editor may save at each path without a commit
    NoFile,     \* no document at a path
    NoCommit,   \* no checkout under way, no revision resolved
    Commands,   \* of {"generate_periods", "build", "rebuild"}
    Horizons,   \* the configured calls, of the period types materialised
    MaxMoves    \* bound on checkouts and edits

ASSUME PathAssumption == Path \subseteq Nat /\ IsFiniteSet(Path)
ASSUME CommandsAssumption == Commands \subseteq {"generate_periods", "build", "rebuild"}
ASSUME HorizonsAssumption ==
    \A c \in Horizons :
        c \in Calls /\ c.types = <<"YEAR", "QUARTER", "MONTH">> /\ ~c.partial

VARIABLES
    command,    \* what was called, with the arguments in call
    stage,      \* where it is
    error,      \* what it raised
    unread,     \* listed files that are still to be read
    records,    \* what was read: [path, document]
    revision,   \* the revision recorded for all of them
    unmade,     \* records whose contracts are still to be generated
    contracts,  \* the contracts so far
    store,      \* what the command left of the stored state: "kept", "dropped",
                \* "materialised"
    tree,       \* the working tree of the source repository
    head,       \* its HEAD
    target,     \* the commit being checked out
    moves,      \* checkouts and edits so far
    still       \* history: the tree was clean at the listing and has not moved

generationVars == <<phase, turn, current, periods>>
sourceVars == <<unread, records, revision>>
contractVars == <<unmade, contracts>>
repositoryVars == <<tree, head, target, moves>>
desiredVars == <<vars, command, stage, error, sourceVars, contractVars, store,
                 repositoryVars, still>>

Clean == target = NoCommit /\ tree = Commits[head]

DesiredInit ==
    /\ Init
    /\ command \in Commands
    /\ command = "generate_periods" \/ call \in Horizons
    /\ stage = IF command = "generate_periods" THEN "periods" ELSE "configuration"
    /\ error = "none"
    /\ unread = <<>> /\ records = <<>> /\ revision = NoCommit
    /\ unmade = <<>> /\ contracts = {}
    /\ store = "kept"
    /\ head \in DOMAIN Commits
    /\ tree = Commits[head]
    /\ target = NoCommit /\ moves = 0 /\ still = FALSE

----------------------------------------------------------------------------
(* The repository, by other hands *)

\* Nobody looks at it before the command does, or after HEAD is resolved.
RepositoryStep ==
    /\ stage \in {"listing", "reading", "revision"}
    /\ still' = FALSE
    /\ UNCHANGED <<vars, command, stage, error, sourceVars, contractVars, store>>

\* git checkout writes file after file, then HEAD.
StartCheckout(c) ==
    /\ Clean /\ c # head
    /\ moves < MaxMoves
    /\ target' = c
    /\ moves' = moves + 1
    /\ UNCHANGED <<tree, head>>
    /\ RepositoryStep

CheckoutFile(p) ==
    /\ target # NoCommit
    /\ tree[p] # Commits[target][p]
    /\ tree' = [tree EXCEPT ![p] = Commits[target][p]]
    /\ UNCHANGED <<head, target, moves>>
    /\ RepositoryStep

FinishCheckout ==
    /\ target # NoCommit
    /\ tree = Commits[target]
    /\ head' = target
    /\ target' = NoCommit
    /\ UNCHANGED <<tree, moves>>
    /\ RepositoryStep

\* A clean working tree is not required.  What is saved after a file was read
\* is never looked at.
EditFile(p, document) ==
    /\ target = NoCommit
    /\ stage = "listing" \/ \E i \in DOMAIN unread : unread[i] = p
    /\ tree[p] # document
    /\ moves < MaxMoves
    /\ tree' = [tree EXCEPT ![p] = document]
    /\ moves' = moves + 1
    /\ UNCHANGED <<head, target>>
    /\ RepositoryStep

RepositoryMoves ==
    \/ \E c \in DOMAIN Commits : StartCheckout(c)
    \/ \E p \in Path : CheckoutFile(p)
    \/ FinishCheckout
    \/ \E p \in Path : \E document \in Drafts[p] : EditFile(p, document)

----------------------------------------------------------------------------
(* Configuration and source *)

Raise(e) == stage' = "raised" /\ error' = e
Enter(s) == stage' = s /\ error' = error

ReadConfiguration ==
    /\ stage = "configuration"
    /\ IF call.start <= call.end THEN Enter("listing") ELSE Raise("configuration")
    /\ UNCHANGED <<vars, command, sourceVars, contractVars, store, repositoryVars, still>>

Files == {p \in Path : tree[p] # NoFile}

\* sorted(root.rglob("*.json"))
Sorted(paths) ==
    [i \in 1..Cardinality(paths) |->
        CHOOSE p \in paths : Cardinality({q \in paths : q < p}) = i - 1]

ListFiles ==
    /\ stage = "listing"
    /\ unread' = Sorted(Files)
    /\ still' = Clean
    /\ IF Files = {} THEN Raise("no source") ELSE Enter("reading")
    /\ UNCHANGED <<vars, command, records, revision, contractVars, store, repositoryVars>>

\* The document is parsed when it is read: reference events are known ones, and
\* a weekday rule names its weekday.
Parses(document) ==
    /\ document.parses
    /\ document.product.lastTrading.offset \in Int
    /\ document.product.lastTrading.days \in Int
    /\ document.product.lastTrading.event \in ReferenceEvents
    /\ document.product.lastTrading.event = "weekday_of_period" =>
            document.product.lastTrading.weekday \in 0..6

\* Faulty: what does not parse is passed over.
LoadWhatParses ==
    /\ stage = "reading"
    /\ unread # <<>>
    /\ LET path == Head(unread)
       IN  records' = IF tree[path] # NoFile /\ Parses(tree[path])
                      THEN Append(records, [path |-> path, document |-> tree[path]])
                      ELSE records
    /\ Enter("reading")
    /\ unread' = Tail(unread)
    /\ UNCHANGED <<vars, command, revision, contractVars, store, repositoryVars, still>>

\* Faulty: a listed file that is gone is waited for.
LoadWhenThere ==
    /\ stage = "reading"
    /\ unread # <<>>
    /\ tree[Head(unread)] # NoFile
    /\ records' = Append(records, [path |-> Head(unread), document |-> tree[Head(unread)]])
    /\ IF Parses(tree[Head(unread)]) THEN Enter("reading") ELSE Raise("no source")
    /\ unread' = Tail(unread)
    /\ UNCHANGED <<vars, command, revision, contractVars, store, repositoryVars, still>>

LoadFuturesProduct ==
    /\ stage = "reading"
    /\ unread # <<>>
    /\ LET path == Head(unread)
       IN  IF tree[path] # NoFile /\ Parses(tree[path])
           THEN /\ records' = Append(records, [path |-> path, document |-> tree[path]])
                /\ Enter("reading")
           ELSE records' = records /\ Raise("no source")
    /\ unread' = Tail(unread)
    /\ UNCHANGED <<vars, command, revision, contractVars, store, repositoryVars, still>>

Read == {records[i].document : i \in DOMAIN records}

ProductsAreDistinct ==
    \A i, j \in DOMAIN records :
        records[i].document.id = records[j].document.id => i = j

EndLoading ==
    /\ stage = "reading"
    /\ unread = <<>>
    /\ IF ProductsAreDistinct THEN Enter("revision") ELSE Raise("duplicate product")
    /\ UNCHANGED <<vars, command, sourceVars, contractVars, store, repositoryVars, still>>

ResolveRevision ==
    /\ stage = "revision"
    /\ revision' = head
    /\ Enter("periods")
    /\ UNCHANGED <<vars, command, unread, records, contractVars, store, repositoryVars, still>>

\* git fails, or the source is in no repository.
RevisionUnresolved ==
    /\ stage = "revision"
    /\ Raise("no revision")
    /\ UNCHANGED <<vars, command, sourceVars, contractVars, store, repositoryVars, still>>

----------------------------------------------------------------------------
(* Periods, and the memberships made from them *)

GeneratePeriods ==
    /\ stage = "periods"
    /\ Next
    /\ UNCHANGED <<command, stage, error, sourceVars, contractVars, store,
                   repositoryVars, still>>

EndPeriods ==
    /\ stage = "periods"
    /\ phase \in {"returned", "raised"}
    /\ IF phase = "raised" THEN Raise("periods")
       ELSE IF command = "generate_periods" THEN Enter("done")
       ELSE Enter("coverage")
    /\ Take
    /\ UNCHANGED <<command, sourceVars, contractVars, store, repositoryVars, still>>

CycleSize == [MONTH |-> 12, QUARTER |-> 4]

\* Faulty: months are placed by their quarters.
QuarterForAll(p) == QuarterNumber(p.first)

\* The cycle is that of the type; it starts anew every year.
CycleElement(p) ==
    IF p.type = "MONTH" THEN MonthOf(p.first) ELSE QuarterNumber(p.first)

Memberships ==
    {[period   |-> p.id,
      position |-> <<p.type, YearOf(p.first), CycleElement(p)>>] :
        p \in {q \in Emitted : q.type \in DOMAIN CycleSize}}

----------------------------------------------------------------------------
(* Calendar coverage and contracts *)

LookbackYears == 2
LookaheadYears == 1

\* date(d.year + years, d.month, d.day), if there is that day.
SameDateExists(day, years) == IsDate(YearOf(day) + years, MonthOf(day), DayOfMonth(day))
SameDate(day, years) == DayOf(YearOf(day) + years, MonthOf(day), DayOfMonth(day))

\* Faulty: neither looked back nor ahead.
HorizonItself(c) ==
    c \in DOMAIN Calendars /\ Covered(c, call.start) /\ Covered(c, call.end)

\* The calendar is known, and long enough.
CalendarCovers(c) ==
    /\ c \in DOMAIN Calendars
    /\ Covered(c, SameDate(call.start, -LookbackYears))
    /\ Covered(c, SameDate(call.end, LookaheadYears))

ValidateCoverage ==
    /\ stage = "coverage"
    /\ unmade' = records
    /\ IF ~(SameDateExists(call.start, -LookbackYears)
                /\ SameDateExists(call.end, LookaheadYears))
       THEN Raise("no such date")
       ELSE IF \E document \in Read : ~CalendarCovers(document.product.calendar)
       THEN Raise("calendar")
       ELSE Enter("contracts")
    /\ UNCHANGED <<vars, command, sourceVars, contracts, store, repositoryVars, still>>

\* generate_futures_contracts for the next product.
GenerateFuturesContracts ==
    /\ stage = "contracts"
    /\ unmade # <<>>
    /\ LET made == UNION {ContractsOf(document, Emitted) : document \in {Head(unmade).document}}
       IN  IF {} \in made THEN contracts' = contracts /\ Raise("contracts")
           ELSE contracts' = contracts \cup UNION made /\ Enter("contracts")
    /\ unmade' = Tail(unmade)
    /\ UNCHANGED <<vars, command, sourceVars, store, repositoryVars, still>>

EndContracts ==
    /\ stage = "contracts"
    /\ unmade = <<>>
    /\ Enter(IF command = "rebuild" THEN "drop" ELSE "persist")
    /\ UNCHANGED <<vars, command, sourceVars, contractVars, store, repositoryVars, still>>

----------------------------------------------------------------------------
(* What the command does with the desired state *)

DropOwnedSchema ==
    /\ stage = "drop"
    /\ store' = "dropped"
    /\ Enter("persist")
    /\ UNCHANGED <<vars, command, sourceVars, contractVars, repositoryVars, still>>

\* _validate_futures_contract
LifecycleIsValid(contract) == contract.interest <= contract.expiry

PersistDesiredState ==
    /\ stage = "persist"
    /\ IF \A contract \in contracts : LifecycleIsValid(contract)
       THEN store' = "materialised" /\ Enter("done")
       ELSE store' = store /\ Raise("lifecycle")
    /\ UNCHANGED <<vars, command, sourceVars, contractVars, repositoryVars, still>>

CommandStep ==
    \/ ReadConfiguration \/ ListFiles \/ LoadFuturesProduct \/ EndLoading
    \/ ResolveRevision \/ RevisionUnresolved \/ GeneratePeriods \/ EndPeriods
    \/ ValidateCoverage
    \/ GenerateFuturesContracts \/ EndContracts \/ DropOwnedSchema
    \/ PersistDesiredState

DesiredNext == CommandStep \/ RepositoryMoves

DesiredSpec == DesiredInit /\ [][DesiredNext]_desiredVars

\* A command runs on, whatever happens to the repository.
FairDesiredSpec == DesiredSpec /\ WF_desiredVars(CommandStep)

----------------------------------------------------------------------------
(* Properties *)

Held(commit) == {[path |-> p, document |-> Commits[commit][p]] :
                    p \in {q \in Path : Commits[commit][q] # NoFile}}

\* The recorded revision holds exactly the documents that were read, one for
\* each product, if the repository was clean and stood still: without a lock
\* and without looking at git before the files (sources/futures_product.py:861,
\* 890; materialisation.py:202-218).
ProvenanceIsExact ==
    still /\ revision # NoCommit =>
        /\ {records[i] : i \in DOMAIN records} = Held(revision)
        /\ \A r, s \in Held(revision) : r.document.id = s.document.id => r = s

\* Periods that are materialised together take different positions of their
\* cycles, within the size of the cycle, as the tables demand
\* (materialisation.py:259-311, sql/period_cycles.py:238).
MembershipsFitCycles ==
    phase = "returned" =>
        \A m, n \in Memberships :
            /\ m.position = n.position => m = n
            /\ m.position[3] \in 1..CycleSize[m.position[1]]

\* The dates of a contract are the counted business days before or after their
\* reference dates, whether or not those are business days themselves
\* (trading_calendars/trading_calendar.py:169-194).
DatesAreCounted ==
    stage = "persist" =>
        \A contract \in contracts, document \in Read :
            LET product == document.product
                c == product.calendar
            IN  contract.product = document.id =>
                    /\ \A day \in LastTradingReference(c, contract.period, product.lastTrading) :
                            Counted(c, day, product.lastTrading.days, contract.expiry)
                    /\ \A day \in InterestReference(c, contract.period, product.interest,
                                                    product.lastTrading) :
                            Counted(c, day, 1, contract.interest)

\* Contracts of a product expire in the order of their periods, whatever the
\* rule: also over ends of years, for days counted from either end and for
\* reference dates that are no sessions (trading_calendars/last_trading_day.py).
ExpiriesFollowPeriods ==
    \A k, l \in contracts :
        (k.product = l.product /\ k.period.first < l.period.first) => k.expiry <= l.expiry

\* What lookback and lookahead are meant for: listings of at most two years
\* before the contract, last trading days up to a year before it and after it,
\* counted from days that every month has.  Where listing waits for a last
\* trading day of the year, that one must not lie before the lookback: it may be
\* that of the month before the listing, as many months earlier as the rule says.
Modest(product) ==
    LET last == product.lastTrading
        interest == product.interest
    IN  /\ product.types = {"MONTH"}
        /\ last.offset \in -12..11 /\ last.days \in -10..10
        /\ last.n \in IF last.event = "weekday_of_period" THEN -4..4 ELSE -15..15
        /\ product.months = DOMAIN interest.shifts
        /\ \A m \in product.months : interest.shifts[m] \in 0..24
        /\ interest.type = "MONTH"
        /\ \/ interest.reference = "period"
           \/ /\ interest.reference \in DOMAIN AnnualMonth
              /\ last.offset <= 0
              /\ \A m \in product.months : interest.shifts[m] - last.offset <= 21

\* Once the coverage is validated, the contracts of such rules can be made: no
\* date falls outside the calendar, although the check looks at the ends of the
\* horizon only and periods begin before it (materialisation.py:393-425).
CoverageSuffices ==
    error = "contracts" => \E document \in Read : ~Modest(document.product)

\* "Desired state is constructed and validated before the existing schema is
\* touched" (materialisation.py:139-140): a rebuild that drops the schema is
\* not refused for what it constructed.
ValidatedBeforeDrop == stage = "raised" => store # "dropped"

\* Every call returns or raises, also while the repository moves.
CommandEnds == <>(stage \in {"done", "raised"})

================================================================================
