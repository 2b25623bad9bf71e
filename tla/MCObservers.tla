------------------------------ MODULE MCObservers ------------------------------
(* Commands and an observer beside them.  The horizon of the first input ends *)
(* before a quarter does, so that its store has a cycle without memberships.   *)
EXTENDS Observers, TLC

CONSTANTS d1, jan, q1, months, quarters

Boot == [version |-> 0, name |-> "bootstrap", checksum |-> "c0"]
Initial == [version |-> 1, name |-> "initial_refdata", checksum |-> "c1"]
MCPackage == {Boot, Initial}
MCResources == {MCPackage}
MCVersion == {1}
MCName == {"bootstrap", "initial_refdata"}

MCProduct == 1..2
MCCycleOf == [m \in Period |-> IF m = jan THEN months ELSE quarters]
MCLists == [d \in Definition |-> Period]
MCCanonical == <<months, quarters>>

Short == [definition |-> [p \in Product |-> d1],
          path |-> [p \in Product |-> IF p = 1 THEN "f1" ELSE "f2"],
          revision |-> "g1", calendar |-> "k1", horizon |-> {jan}, constructible |-> TRUE]
Long == [Short EXCEPT !.horizon = Period]
\* A source tree without products.
Bare == [Short EXCEPT !.definition = [p \in Product |-> Unset]]

Horizons == {Short, Long}
Sources == {Short, Long, Bare}

Both == {"build", "rebuild"}
BuildOnly == {"build"}
=============================================================================
