------------------------------- MODULE MCLiveFeed -----------------------------
(* A small instance of LiveFeed for TLC. *)
EXTENDS LiveFeed
==============================================================================
