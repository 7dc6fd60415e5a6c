----------------------------- MODULE MCProfiles -----------------------------
(***************************************************************************)
(* A small instance of Profiles: a column that owner and administrator     *)
(* share, one that owner and company share, and two devices' accounts.     *)
(***************************************************************************)
EXTENDS Profiles, TLC

CONSTANTS u1, u2, name, company, v1, t1, r1, r2, r3

Symmetry == Permutations({u1, u2}) \cup Permutations({r1, r2, r3})

=============================================================================
