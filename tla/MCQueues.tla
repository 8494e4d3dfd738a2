------------------------------ MODULE MCQueues ------------------------------
(* Model-checking instances of EnaQueues; the bounds are in the cfg files. *)
EXTENDS EnaQueues
=============================================================================
