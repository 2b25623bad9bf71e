--------------------------- MODULE MaterialisedStore ---------------------------
(***************************************************************************)
(* What materialisation promises its readers: a store that is either not    *)
(* there or holds whole desired states, changed by atomic commands.         *)
(***************************************************************************)
EXTENDS RefDataState

VARIABLES
    ready,  \* the tables exist
    store   \* the committed rows

storeVars == <<ready, store>>

StoreInit == ready = FALSE /\ store = Empty

\* Migrating creates empty tables.
Create == ~ready /\ ready' = TRUE /\ UNCHANGED store

\* Rebuilding drops everything, provenance included.
Discard == ready' = FALSE /\ store' = Empty

\* A build adds what is missing and replaces provenance; it is refused when an
\* operational row would change.
Materialise(in) ==
    /\ ready
    /\ ready' = ready
    /\ Compatible(store, DesiredOf[in])
    /\ store' = Overlay(store, DesiredOf[in])

StoreNext == Create \/ Discard \/ \E in \in ValidInputs : Materialise(in)

StoreSpec == StoreInit /\ [][StoreNext]_storeVars
=============================================================================
