---------------------------- MODULE MCCompanies ----------------------------
(***************************************************************************)
(* Small instances of Companies: two employers whose addresses share one   *)
(* domain, so that the second may join the first one's company, and a      *)
(* domain nobody has an address of.                                        *)
(***************************************************************************)
EXTENDS Companies, TLC

CONSTANTS u1, u2, d1, d2, r1, r2

MCEmailDomain == [u \in User |-> d1]

Symmetry == Permutations({u1, u2}) \cup Permutations({r1, r2})

=============================================================================
