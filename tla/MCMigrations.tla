----------------------------- MODULE MCMigrations -----------------------------
(* Packages that differ as releases differ: a first release, one that adds a  *)
(* migration, one that edits the first, and three that discover() must        *)
(* reject.                                                                    *)
EXTENDS Migrations, TLC

MCVersion == 1..2
MCName == {"bootstrap", "initial", "second"}

Boot == [version |-> 0, name |-> "bootstrap", checksum |-> "c0"]
M(v, c) == [version |-> v, name |-> "initial", checksum |-> c]
Stray == [version |-> 0, name |-> "initial", checksum |-> "c1"]

Release1 == {Boot, M(1, "c1")}
Release2 == {Boot, M(1, "c1"), M(2, "c2")}
Edited == {Boot, M(1, "c3")}
NoBootstrap == {M(1, "c1")}
Duplicate == {Boot, M(1, "c1"), [M(1, "c1") EXCEPT !.name = "second"]}
Reserved == {Boot, Stray}

Releases == {Release1, Release2, Edited, NoBootstrap, Duplicate, Reserved}
OneRelease == {Release2}

Symmetry == Permutations(Runner)
=============================================================================
