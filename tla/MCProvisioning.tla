--------------------------- MODULE MCProvisioning ---------------------------
(***************************************************************************)
(* Small instances of Provisioning: two addresses, so that one account's   *)
(* trouble is not everybody's, and few enough identities that an address   *)
(* is used again.                                                          *)
(***************************************************************************)
EXTENDS Provisioning, TLC

CONSTANTS e1, e2, r1, r2, r3

Symmetry == Permutations({e1, e2}) \cup Permutations({r1, r2, r3})

=============================================================================
