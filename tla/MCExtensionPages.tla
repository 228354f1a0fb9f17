--------------------------- MODULE MCExtensionPages ---------------------------
(* A small instance of ExtensionPages for TLC. *)
EXTENDS ExtensionPages

Parent == <<"bank", "xyz">>
Child == <<"login", "bank", "xyz">>
Plain == <<"shop", "kr">>

MCListable == {Parent}
MCLooks == (Child :> "caution") @@ (Plain :> "caution")
MCHere == Child
MCLinks == [a |-> Plain, b |-> Child]
==============================================================================
