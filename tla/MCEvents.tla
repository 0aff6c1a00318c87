------------------------------ MODULE MCEvents ------------------------------
(***************************************************************************)
(* Model checking of Events.  Liveness is checked, so no symmetry.         *)
(***************************************************************************)
EXTENDS Events
=============================================================================
