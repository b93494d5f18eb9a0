------------------------------ MODULE MCNetwork ------------------------------
(***************************************************************************)
(* Instance of Network for TLC: the four orders by radio that its thread   *)
(* executes here, those of recording and of wifi; the recording goes on or *)
(* not at the start, with the switch off and no other station there.       *)
(***************************************************************************)
EXTENDS Network

MCOrders == {[record |-> TRUE], [record |-> FALSE],
              [wifi |-> TRUE], [wifi |-> FALSE]}

MCStarts == [start_rec : BOOLEAN, sw_pwr_on : {FALSE}, linked : {FALSE}]
=============================================================================
