----------------------------- MODULE MCFeatures -----------------------------
(* The life of one device, and the numbers derived from its report.  The two *)
(* share no variable, so each is explored with the other in its first state. *)
EXTENDS EnaFeatures, EnaLimits

MCInit == Init /\ LimitsInit
MCNext == \/ LimitsInit /\ Next /\ UNCHANGED limitsVars
          \/ Init /\ LimitsNext /\ UNCHANGED vars
MCSpec == MCInit /\ [][MCNext]_<<vars, limitsVars>>
=============================================================================
