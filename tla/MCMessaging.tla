---------------------------- MODULE MCMessaging ----------------------------
(***************************************************************************)
(* A small instance of Messaging: two registrations that meet at the       *)
(* producer's start, and enough events that a crash can lose one, repeat   *)
(* one and leave one for later.                                            *)
(***************************************************************************)
EXTENDS Messaging, TLC

CONSTANTS r1, r2

=============================================================================
