------------------------------ MODULE MCMobileApp -----------------------------
(* A small instance of MobileApp for TLC. *)
EXTENDS MobileApp
==============================================================================
