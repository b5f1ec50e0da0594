------------------------------ MODULE MCEngine ------------------------------
(* Engine and its refinement on small instances.                           *)
EXTENDS MCConstants, EngineRefinement
=============================================================================
