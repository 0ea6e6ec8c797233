------------------------------ MODULE MCDList -------------------------------
(* Three values, of which two are equal for cmp, for DList.                *)
EXTENDS DList

MCValue == 1..3
MCKey == [v \in MCValue |-> v \div 2]
MCMapped == [v \in MCValue |-> 4 - v]
=============================================================================
