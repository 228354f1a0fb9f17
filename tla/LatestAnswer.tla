------------------------------ MODULE LatestAnswer ----------------------------
(***************************************************************************)
(* What a field that asks while the user types promises: an answer that     *)
(* comes to the screen is the answer to the question of now, or a failure   *)
(* of it.  An earlier answer may stay until then, or be taken away.         *)
(***************************************************************************)
CONSTANTS Questions, Nothing

VARIABLES question, answer

vars == <<question, answer>>

Init == question = Nothing /\ answer = Nothing

Ask ==
    /\ question' \in Questions \cup {Nothing}
    /\ answer' \in {answer, Nothing}

Answer ==
    /\ question # Nothing
    /\ answer' \in {question, Nothing}
    /\ UNCHANGED question

Next == Ask \/ Answer

Spec == Init /\ [][Next]_vars
==============================================================================
