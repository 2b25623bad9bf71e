------------------------------ MODULE MCRowWrites ------------------------------
(* Three transactions on an empty table or on one with two rows: lists in      *)
(* different orders that agree, lists whose slots cross, changed values, and   *)
(* lists that are refused as they are.                                        *)
EXTENDS RowWrites

R(id, slot, value) == [id |-> id, slot |-> slot, value |-> value]

MCInputs == {<<R(2, 1, 0), R(1, 2, 0)>>, <<R(1, 2, 0), R(2, 1, 0), R(1, 2, 0)>>,
             <<R(1, 1, 0), R(2, 2, 0)>>, <<R(2, 1, 1), R(3, 3, 0), R(4, 2, 0)>>,
             <<R(1, 1, 0), R(2, 1, 0)>>, <<R(1, 1, 0), R(1, 1, 1)>>}
MCInitial == {{}, {R(1, 2, 0), R(3, 3, 0)}}
================================================================================
