-------------------------------- MODULE FeedLog -------------------------------
(***************************************************************************)
(* What the live feed promises one viewer: every event it shows was         *)
(* published, is shown once at most, and nothing is shown once the viewer   *)
(* has left.  An event may be missed.                                       *)
(***************************************************************************)
EXTENDS Sequences, SequencesExt

CONSTANT Events

VARIABLES
    published,      \* events broadcast so far
    log,            \* events shown, in the order they were
    closed          \* the viewer has left

vars == <<published, log, closed>>

Init == published = {} /\ log = << >> /\ closed = FALSE

Publish ==
    /\ \E e \in Events \ published : published' = published \cup {e}
    /\ UNCHANGED <<log, closed>>

Show ==
    /\ ~closed
    /\ \E e \in published \ ToSet(log) : log' = Append(log, e)
    /\ UNCHANGED <<published, closed>>

Leave ==
    /\ closed' = TRUE
    /\ UNCHANGED <<published, log>>

Next == Publish \/ Show \/ Leave

Spec == Init /\ [][Next]_vars
==============================================================================
