-------------------------------- MODULE MCPages -------------------------------
(* A small instance of Pages for TLC. *)
EXTENDS Pages

MCFigures == <<20, 3>>
==============================================================================
