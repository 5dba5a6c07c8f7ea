---------------------------- MODULE MCMembership ----------------------------
(***************************************************************************)
(* Small instances of Membership for TLC. Tenants, users, invitations and  *)
(* request slots are interchangeable: no action and no property names one, *)
(* and no liveness is checked here.                                        *)
(***************************************************************************)
EXTENDS Membership, TLC

Symmetry == Permutations(Tenants) \cup Permutations(Users)
              \cup Permutations(Invitations) \cup Permutations(Requests)
=============================================================================
