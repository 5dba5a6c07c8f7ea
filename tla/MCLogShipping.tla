--------------------------- MODULE MCLogShipping ---------------------------
(***************************************************************************)
(* A small instance of LogShipping for TLC: see MCLogShipping.cfg. With    *)
(* its liveness property symmetry would not be sound.                      *)
(***************************************************************************)
EXTENDS LogShipping, TLC
=============================================================================
