----------------------------- MODULE MCSessions -----------------------------
(***************************************************************************)
(* Model checking of Sessions.  Liveness is checked, so no symmetry.       *)
(***************************************************************************)
EXTENDS Sessions
=============================================================================
