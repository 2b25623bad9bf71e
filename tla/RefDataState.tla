----------------------------- MODULE RefDataState -----------------------------
(***************************************************************************)
(* The relational state of mxm-refdata and the desired state that           *)
(* _build_desired_state() constructs from configuration and source.         *)
(*                                                                          *)
(* A row is a key and a value.  The key is the table and the row's stable   *)
(* identity; the value is what the code compares when it reads back a row   *)
(* it did not insert itself.  A period, a cycle and a membership have a     *)
(* value that their identity determines.                                    *)
(***************************************************************************)
EXTENDS Integers, FiniteSets

CONSTANTS
    Product,    \* product ids, as numbers in the order the code sorts them
    Definition, \* operational definitions of a product
    Path,       \* source-relative paths of product files
    Revision,   \* revisions of the source repository
    Calendar,   \* editions of the trading-calendar library
    Period,     \* period ids
    Cycle,      \* period-cycle ids
    CycleOf,    \* the cycle a period belongs to, Unset for none
    Lists,      \* the periods for which a product so defined has a contract
    InvalidContracts, \* contracts that persistence refuses for what they are
    Inputs,     \* what a command may find: configuration, files, HEAD, library
    Unset       \* no row, no product, no cycle

ASSUME ProductAssumption == Product \subseteq Nat
ASSUME CycleOfAssumption == CycleOf \in [Period -> Cycle \cup {Unset}]
ASSUME ListsAssumption == Lists \in [Definition -> SUBSET Period]

Tables == {"periods", "period_cycles", "period_cycle_memberships",
           "futures_products", "futures_product_sources", "futures_contracts"}

-----------------------------------------------------------------------------
(* Keys *)

Members == {c \in Cycle \X Period : CycleOf[c[2]] = c[1]}

Key == [table : {"periods"}, id : Period]
       \cup [table : {"period_cycles"}, id : Cycle]
       \cup [table : {"period_cycle_memberships"}, id : Members]
       \cup [table : {"futures_products", "futures_product_sources"}, id : Product]
       \cup [table : {"futures_contracts"}, id : Product \X Period]

Row(t, i) == [table |-> t, id |-> i]

\* Rows a build may never change; provenance is the only mutable table.
IsSource(k) == k.table = "futures_product_sources"

\* The rows a foreign key of this row refers to.
Parents(k) ==
    CASE k.table = "period_cycle_memberships" ->
            {Row("period_cycles", k.id[1]), Row("periods", k.id[2])}
      [] k.table = "futures_product_sources" -> {Row("futures_products", k.id)}
      [] k.table = "futures_contracts" ->
            {Row("futures_products", k.id[1]), Row("periods", k.id[2])}
      [] OTHER -> {}

-----------------------------------------------------------------------------
(* Values *)

Provenance == [path : Path, revision : Revision]
Lifecycle == [definition : Definition, calendar : Calendar]
ASSUME InvalidContractsAssumption == InvalidContracts \subseteq Lifecycle \X Period

Value == Period \cup Cycle \cup Definition \cup Provenance \cup Lifecycle

ASSUME UnsetAssumption == Unset \notin Value

States == [Key -> Value \cup {Unset}]
Empty == [k \in Key |-> Unset]
Present(s) == {k \in Key : s[k] # Unset}

\* s with the rows of t put over its own.
Overlay(s, t) == [k \in Key |-> IF t[k] # Unset THEN t[k] ELSE s[k]]

-----------------------------------------------------------------------------
(* Inputs and the desired state *)

\* A loaded source tree gives one product per file; the loader rejects two
\* files of one product, and one path is one file.
InputType ==
    [definition : [Product -> Definition \cup {Unset}], path : [Product -> Path],
     revision : Revision, calendar : Calendar, horizon : SUBSET Period,
     constructible : BOOLEAN]

ASSUME InputsAssumption == Inputs \subseteq InputType
ASSUME PathAssumption ==
    \A in \in Inputs : \A p, q \in Product :
        in.definition[p] # Unset /\ in.definition[q] # Unset /\ in.path[p] = in.path[q]
            => p = q

\* A source tree is a finite list of files.
ASSUME FilesAssumption ==
    \A in \in Inputs : IsFiniteSet({p \in Product : in.definition[p] # Unset})

HasContract(in, p, m) ==
    in.definition[p] # Unset /\ m \in in.horizon /\ m \in Lists[in.definition[p]]

DesiredRow(in, k) ==
    CASE k.table = "periods" -> IF k.id \in in.horizon THEN k.id ELSE Unset
      [] k.table = "period_cycles" -> k.id
      [] k.table = "period_cycle_memberships" ->
            IF k.id[2] \in in.horizon THEN k.id[2] ELSE Unset
      [] k.table = "futures_products" -> in.definition[k.id]
      [] k.table = "futures_product_sources" ->
            IF in.definition[k.id] = Unset THEN Unset
            ELSE [path |-> in.path[k.id], revision |-> in.revision]
      [] k.table = "futures_contracts" ->
            IF HasContract(in, k.id[1], k.id[2])
            THEN [definition |-> in.definition[k.id[1]], calendar |-> in.calendar]
            ELSE Unset

BuildDesiredState(in) == [k \in Key |-> DesiredRow(in, k)]
DesiredOf == [in \in Inputs |-> BuildDesiredState(in)]

\* Contracts of a size, with a first day of interest not after the last trading
\* day.  Only persistence asks for this: a desired state without it is
\* constructed all the same.
ContractsAreValid(s) ==
    \A k \in Key : k.table = "futures_contracts" /\ s[k] # Unset
                        => <<s[k], k.id[2]>> \notin InvalidContracts

\* The inputs that can be materialised.
ValidInputs == {in \in Inputs : in.constructible /\ ContractsAreValid(DesiredOf[in])}

\* Two states agree on the operational rows they share.
Compatible(s, t) ==
    \A k \in Key : s[k] = Unset \/ t[k] = Unset \/ IsSource(k) \/ s[k] = t[k]

\* Every row of t is in s, the operational ones with t's values.
Holds(s, t) ==
    \A k \in Key : \/ t[k] = Unset
                   \/ s[k] # Unset /\ (IsSource(k) \/ s[k] = t[k])
=============================================================================
