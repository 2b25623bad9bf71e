--------------------------- MODULE MCMaterialisation ---------------------------
(* Commands against one schema, with a package of one tracked migration and   *)
(* inputs that differ in one respect each from a first one.                   *)
EXTENDS Materialisation, TLC

CONSTANTS d1, d2, jan, feb, months

Boot == [version |-> 0, name |-> "bootstrap", checksum |-> "c0"]
Initial == [version |-> 1, name |-> "initial_refdata", checksum |-> "c1"]
MCPackage == {Boot, Initial}
MCResources == {MCPackage}
MCVersion == {1}
MCName == {"bootstrap", "initial_refdata"}

MCProduct == 1..2
MCCycleOf == [m \in Period |-> months]
MCLists == [d \in Definition |-> {jan, feb}]

Same(x) == [p \in Product |-> x]
Files == [p \in Product |-> IF p = 1 THEN "f1" ELSE "f2"]

First == [definition |-> Same(d1), path |-> Files, revision |-> "g1",
          calendar |-> "k1", horizon |-> {jan}, constructible |-> TRUE]
\* A later revision: a longer horizon, and the file of product 2 renamed.
Later == [First EXCEPT !.revision = "g2", !.horizon = Period, !.path[2] = "f3"]
\* Product 1 redefined.
Redefined == [First EXCEPT !.definition[1] = d2, !.revision = "g2"]
\* Product 1 withdrawn from the source.
Withdrawn == [First EXCEPT !.definition[1] = Unset, !.revision = "g2"]
\* Product 1 withdrawn, and its file now describes product 2.
Merged == [Withdrawn EXCEPT !.path[2] = "f1"]
\* A library whose sessions differ: other contract dates of the same products.
Recalculated == [First EXCEPT !.calendar = "k2"]
\* The two files exchange their names.
Swapped == [First EXCEPT !.path[1] = "f2", !.path[2] = "f1", !.revision = "g2"]
\* A file that does not parse.
Unreadable == [First EXCEPT !.constructible = FALSE]
\* As redefined, product 1 lists its february contract after that has expired.
Lapsed == [Redefined EXCEPT !.horizon = Period]
MCInvalidContracts == {<<[definition |-> d2, calendar |-> c], feb>> : c \in Calendar}

OneInput == {First}
TwoInputs == {First, Later}
ConcurrentInputs == {First, Later, Redefined, Merged, Lapsed, Unreadable}
AllInputs == {First, Later, Redefined, Withdrawn, Merged, Recalculated, Swapped,
              Lapsed, Unreadable}
SwapInputs == {First, Swapped}

Both == {"build", "rebuild"}
BuildOnly == {"build"}

Symmetry == Permutations(Runner)
=============================================================================
