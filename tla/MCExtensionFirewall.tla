-------------------------- MODULE MCExtensionFirewall --------------------------
(* Small instances of ExtensionFirewall for TLC. *)
EXTENDS ExtensionFirewall, TLC

Symmetry == Permutations(Handlers)
==============================================================================
