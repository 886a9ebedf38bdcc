------------------------------ MODULE MCListing ------------------------------
(* Bounded instances of Listing for TLC. *)
EXTENDS ListingProps

EveryPage == AllPages
=============================================================================
