------------------------------- MODULE Requests -------------------------------
(***************************************************************************)
(* The idiom the web client's effects share: every run of an effect sends a *)
(* request and keeps a flag of its own (alive, ignore, cancelled or a       *)
(* token); the cleanup of the run, or the next one, clears the flag, and an *)
(* answer whose flag is cleared is dropped.  A flight is the set of         *)
(* requests of one effect that are still on their way.                      *)
(***************************************************************************)

Flights(Keys) == SUBSET [key : Keys, live : BOOLEAN]

\* The cleanup of an effect.
Cancel(flight) == {[r EXCEPT !.live = FALSE] : r \in flight}

\* A new run of the effect, for key.
Ask(flight, key) == Cancel(flight) \cup {[key |-> key, live |-> TRUE]}

Waiting(flight) == \E r \in flight : r.live

\* One flag at most is up.
OneLive(flight) == \A r, s \in flight : r.live /\ s.live => r = s
==============================================================================
