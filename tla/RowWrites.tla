------------------------------- MODULE RowWrites -------------------------------
(***************************************************************************)
(* The write operations of the SQL modules, row by row: normalise the       *)
(* input, execute one statement for each row in sorted order, read the rows *)
(* back and compare.  Several transactions do so on one table at READ       *)
(* COMMITTED, waiting for each other's uncommitted rows.                    *)
(*                                                                         *)
(* A row has an id, the primary key; a slot, what else must be unique: the  *)
(* position of a membership, the path of a source, product and period of a  *)
(* contract; and a value, the rest of it.                                   *)
(***************************************************************************)
EXTENDS Integers, Sequences, FiniteSets

CONSTANTS
    Session,     \* connections with a transaction each
    Table,       \* of {"memberships", "sources", "contracts"}
    Initial,     \* what the table may hold: sets of rows
    Inputs       \* what a write may be asked for: sequences of rows

Row == [id : Nat, slot : Nat, value : Nat]

Unique(set) == \A r, q \in set : (r.id = q.id \/ r.slot = q.slot) => r = q

ASSUME TableAssumption == Table \subseteq {"memberships", "sources", "contracts"}
ASSUME InitialAssumption == \A set \in Initial : set \subseteq Row /\ Unique(set)
ASSUME InputsAssumption == \A input \in Inputs : input \in Seq(Row)

VARIABLES
    table,     \* the table written to
    rows,      \* its committed rows
    input,     \* of each session, the rows it is asked to write
    phase,     \* "called", "writing", "written" (and compared), "committed"; or why
               \* it was rolled back: "conflict", "absent", "violation",
               \* "cancelled", "failed"
    todo,      \* the rows for which no statement was executed yet, sorted
    own        \* the rows it wrote and did not commit

rowVars == <<table, rows, input, phase, todo, own>>

RowInit ==
    /\ table \in Table
    /\ rows \in Initial
    /\ input \in [Session -> Inputs]
    /\ phase = [s \in Session |-> "called"]
    /\ todo = [s \in Session |-> <<>>]
    /\ own = [s \in Session |-> {}]

----------------------------------------------------------------------------

Requested(s) == {input[s][i] : i \in DOMAIN input[s]}
Ids(set) == {r.id : r \in set}

\* A row that a session wrote replaces the committed one with its id.
Overlay(set) == {r \in rows : r.id \notin Ids(set)} \cup set
Visible(s) == Overlay(own[s])

\* The input is refused before anything is written; only the contracts of one
\* product and period are not compared.
InputConflicts(s) ==
    \E r, q \in Requested(s) :
        r # q /\ (r.id = q.id \/ (r.slot = q.slot /\ table # "contracts"))

\* Memberships are sorted by position, everything else by id.
Before(r, q) ==
    IF table = "memberships" THEN r.slot < q.slot \/ (r.slot = q.slot /\ r.id < q.id)
    ELSE r.id < q.id
Sorted(set) ==
    [i \in 1..Cardinality(set) |->
        CHOOSE r \in set : Cardinality({q \in set : Before(q, r)}) = i - 1]

\* Faulty: the transaction is left open.
FailOpen(s, why) ==
    /\ phase' = [phase EXCEPT ![s] = why]
    /\ own' = own
    /\ todo' = [todo EXCEPT ![s] = <<>>]

Fail(s, why) ==
    /\ phase' = [phase EXCEPT ![s] = why]
    /\ own' = [own EXCEPT ![s] = {}]
    /\ todo' = [todo EXCEPT ![s] = <<>>]

\* Faulty: in the order of the input.
NormaliseUnsorted(s) ==
    /\ phase[s] = "called"
    /\ IF InputConflicts(s) THEN Fail(s, "conflict")
       ELSE /\ phase' = [phase EXCEPT ![s] = "writing"]
            /\ todo' = [todo EXCEPT ![s] = input[s]]
            /\ own' = own
    /\ UNCHANGED <<table, rows, input>>

\* _normalise_...
Normalise(s) ==
    /\ phase[s] = "called"
    /\ IF InputConflicts(s) THEN Fail(s, "conflict")
       ELSE /\ phase' = [phase EXCEPT ![s] = "writing"]
            /\ todo' = [todo EXCEPT ![s] = Sorted(Requested(s))]
            /\ own' = own
    /\ UNCHANGED <<table, rows, input>>

----------------------------------------------------------------------------
(* One statement of executemany *)

\* ON CONFLICT DO NOTHING, on any constraint or on the primary key.
DoesNothing(s, r) ==
    \/ table # "sources" /\ r.id \in Ids(Visible(s))
    \/ table = "memberships" /\ \E q \in Visible(s) : q.slot = r.slot

\* Sessions to be waited for: they wrote the id or took the slot, or replaced
\* the row that had it, and may roll back.
Obstacles(s, r) ==
    {t \in Session \ {s} :
        \E q \in own[t] :
            \/ q.id = r.id \/ q.slot = r.slot
            \/ \E c \in rows : c.id = q.id /\ c.slot = r.slot}

SlotTaken(s, r) == \E q \in Visible(s) : q.slot = r.slot /\ q.id # r.id

SkipRow(s) ==
    /\ phase[s] = "writing" /\ todo[s] # <<>>
    /\ DoesNothing(s, Head(todo[s]))
    /\ todo' = [todo EXCEPT ![s] = Tail(@)]
    /\ UNCHANGED <<table, rows, input, phase, own>>

\* INSERT, or UPDATE of the row with the id.
PutRow(s) ==
    /\ phase[s] = "writing" /\ todo[s] # <<>>
    /\ LET r == Head(todo[s])
       IN  /\ ~DoesNothing(s, r)
           /\ Obstacles(s, r) = {}
           /\ ~SlotTaken(s, r)
           /\ own' = [own EXCEPT ![s] = {q \in @ : q.id # r.id} \cup {r}]
    /\ todo' = [todo EXCEPT ![s] = Tail(@)]
    /\ UNCHANGED <<table, rows, input, phase>>

UniqueViolation(s) ==
    /\ phase[s] = "writing" /\ todo[s] # <<>>
    /\ ~DoesNothing(s, Head(todo[s]))
    /\ Obstacles(s, Head(todo[s])) = {}
    /\ SlotTaken(s, Head(todo[s]))
    /\ Fail(s, "violation")
    /\ UNCHANGED <<table, rows, input>>

WaitsFor(s) ==
    IF phase[s] = "writing" /\ todo[s] # <<>> /\ ~DoesNothing(s, Head(todo[s]))
    THEN Obstacles(s, Head(todo[s])) ELSE {}

\* A circle of sessions each of which waits for one of them.
Deadlocked(circle) ==
    /\ circle # {}
    /\ \A s \in circle : WaitsFor(s) \cap circle # {}

\* PostgreSQL cancels one of them.
CancelDeadlocked(s) ==
    /\ \E circle \in SUBSET Session :
        /\ s \in circle
        /\ Deadlocked(circle)
        /\ \A smaller \in SUBSET circle : Deadlocked(smaller) => smaller = circle
    /\ Fail(s, "cancelled")
    /\ UNCHANGED <<table, rows, input>>

----------------------------------------------------------------------------
(* Reading back, and the end of the transaction *)

\* Faulty: what is there under the id is not looked at.
PresenceOnly(s) ==
    IF \E r \in Requested(s) : r.id \notin Ids(Visible(s)) THEN "absent" ELSE "written"

\* What the comparison makes of the rows that are visible now: they see other
\* commits.
Compared(s) ==
    IF Requested(s) \subseteq Visible(s) THEN "written"
    ELSE IF \E r \in Requested(s), q \in Visible(s) :
                /\ q # r
                /\ q.id = r.id \/ (q.slot = r.slot /\ table = "memberships")
    THEN "conflict" ELSE "absent"

ReadBack(s) ==
    /\ phase[s] = "writing"
    /\ todo[s] = <<>>
    /\ IF Compared(s) = "written"
       THEN phase' = [phase EXCEPT ![s] = "written"] /\ UNCHANGED <<todo, own>>
       ELSE Fail(s, Compared(s))
    /\ UNCHANGED <<table, rows, input>>

Commit(s) ==
    /\ phase[s] = "written"
    /\ rows' = Visible(s)
    /\ phase' = [phase EXCEPT ![s] = "committed"]
    /\ own' = [own EXCEPT ![s] = {}]
    /\ UNCHANGED <<table, input, todo>>

\* The connection, the process or a later operation of the transaction fails.
Crash(s) ==
    /\ phase[s] \in {"called", "writing", "written"}
    /\ Fail(s, "failed")
    /\ UNCHANGED <<table, rows, input>>

Step(s) ==
    \/ Normalise(s) \/ SkipRow(s) \/ PutRow(s) \/ UniqueViolation(s)
    \/ CancelDeadlocked(s) \/ ReadBack(s) \/ Commit(s)

RowNext == \E s \in Session : Step(s) \/ Crash(s)

RowSpec == RowInit /\ [][RowNext]_rowVars

\* Every session runs on, and PostgreSQL looks for deadlocks.
FairRowSpec == RowSpec /\ \A s \in Session : WF_rowVars(Step(s))

----------------------------------------------------------------------------
(* Properties *)

RowTypeOK ==
    /\ table \in Table
    /\ rows \subseteq Row
    /\ input \in [Session -> Inputs]
    /\ phase \in [Session -> {"called", "writing", "written", "committed", "conflict",
                              "absent", "violation", "cancelled", "failed"}]
    /\ todo \in [Session -> Seq(Row)]
    /\ own \in [Session -> SUBSET Row]

\* A commit lays the whole input over the rows of that moment and changes no
\* other row; only sources are replaced, and ids and slots stay unique.  Other
\* sessions commit between the statements and between reading back and the
\* commit (sql/period_cycles.py:238-393, sql/futures_products.py:368-517,
\* sql/futures_contracts.py:378-494).
CommitsAreWhole ==
    [][\A s \in Session :
        (phase[s] # "committed" /\ phase'[s] = "committed") =>
            /\ rows' = Overlay(Requested(s))
            /\ table # "sources" => rows' = rows \cup Requested(s)
            /\ Unique(rows')]_rowVars

\* Two rows that cannot stand in one table, or not both be what was asked for;
\* the values of sources may be overwritten.
Disagree(r, q) ==
    /\ r # q
    /\ \/ r.slot = q.slot /\ r.id # q.id
       \/ r.id = q.id /\ (r.slot # q.slot \/ table # "sources")

\* A write is refused only if it asks for two rows of one id, or for a row that
\* disagrees with another one of its own or with a committed one; and it is
\* cancelled in a deadlock only if some rows disagree.  Sorted as they are, equal
\* inputs and inputs that overlap never exclude each other, whatever the others
\* do; and no row is ever absent.
RefusalsAreReal ==
    [][\A s \in Session :
        phase'[s] # phase[s] =>
            /\ phase'[s] # "absent"
            /\ phase'[s] \in {"conflict", "violation"} =>
                  \/ \E r, q \in Requested(s) : r # q /\ r.id = q.id
                  \/ \E r \in Requested(s), q \in rows \cup Requested(s) : Disagree(r, q)
            /\ phase'[s] = "cancelled" =>
                  \E r, q \in rows \cup UNION {Requested(t) : t \in Session} :
                      Disagree(r, q)]_rowVars

\* Every write ends, whoever waits for whom.
WritersEnd ==
    \A s \in Session : <>(phase[s] \notin {"called", "writing", "written"})

================================================================================
