------------------------------ MODULE MCDevice ------------------------------
(* Model-checking instance of Device: two short hash lists, one spanning   *)
(* two batches, with the batch size scaled down from 15 to 2.              *)
EXTENDS Device

MCHashLists == {<<"h1">>, <<"h1", "h2", "h3">>}


=============================================================================
