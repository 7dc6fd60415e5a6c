---------------------------- MODULE MCAdminAccess ----------------------------
(***************************************************************************)
(* Small instances of AdminAccess.  Two accounts let two administrators act on  *)
(* each other and on themselves; two requests in flight give every pair of *)
(* overlapping handlers.  One grant makes an administrator who is also an  *)
(* employer, the other takes the first one's primary role away.            *)
(***************************************************************************)
EXTENDS AdminAccess, TLC

CONSTANTS u1, u2, r1, r2

AdminGrant == [primary |-> "SUPER_ADMIN", roles |-> <<"SUPER_ADMIN", "EMPLOYER">>]
PlainGrant == [primary |-> "EMPLOYER", roles |-> <<"EMPLOYER">>]

MCGrants == {AdminGrant, PlainGrant}

Symmetry == Permutations({u1, u2}) \cup Permutations({r1, r2})

=============================================================================
