------------------------------ MODULE MCAccess ------------------------------
(* One user who may be an admin, a member or something unknown.            *)
EXTENDS Access, TLC
CONSTANTS admin, member, guest
MCPermissions == (admin :> {"read", "write"}) @@ (member :> {"read"})
RequestSymmetry == Permutations(Requests)
=============================================================================
