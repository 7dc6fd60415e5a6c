----------------------------- MODULE MCListing -----------------------------
(***************************************************************************)
(* A small instance of Listing: rows made at the same time, a page that is *)
(* full, a last one that may not be, and changes on either side of the     *)
(* client's place in the list.                                             *)
(***************************************************************************)
EXTENDS Listing

=============================================================================
