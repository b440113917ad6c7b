--------------------------- MODULE MCRollingWindow ---------------------------
(***************************************************************************)
(* Model checking of the ring of one-second buckets.                       *)
(***************************************************************************)
EXTENDS RollingWindow

==============================================================================
