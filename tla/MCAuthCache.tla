---------------------------- MODULE MCAuthCache ----------------------------
(***************************************************************************)
(* Small instances of AuthCache: one account with two tokens, so that the  *)
(* index is shared and a revoked token can be replaced by a new one.       *)
(***************************************************************************)
EXTENDS AuthCache, TLC

CONSTANTS u1, t1, t2, p1, p2, w1, w2

MCOwner == t1 :> u1 @@ t2 :> u1

Symmetry == Permutations({t1, t2}) \cup Permutations({p1, p2})

=============================================================================
