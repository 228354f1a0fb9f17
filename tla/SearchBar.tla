------------------------------- MODULE SearchBar ------------------------------
(***************************************************************************)
(* The search field of apps/web: typing restarts a debounce timer, the      *)
(* timer sends the search, and an answer to an earlier query is dropped.    *)
(***************************************************************************)
EXTENDS Requests

CONSTANTS
    Queries,        \* what a user types; one is typed in one event
    Blank           \* the empty query, and no hits

ASSUME SearchAssumption == Blank \notin Queries

VARIABLES
    query,
    hits,           \* the query the hits are for
    searching,      \* loading
    searchFailed,   \* error is set
    panelOpen,      \* open
    debounce,       \* the timer is running
    searches        \* flight

searchVars == <<query, hits, searching, searchFailed, panelOpen, debounce, searches>>

SearchTypeOK ==
    /\ query \in Queries \cup {Blank}
    /\ hits \in Queries \cup {Blank}
    /\ searching \in BOOLEAN
    /\ searchFailed \in BOOLEAN
    /\ panelOpen \in BOOLEAN
    /\ debounce \in BOOLEAN
    /\ searches \in Flights(Queries)

SearchInit ==
    /\ query = Blank
    /\ hits = Blank
    /\ searching = FALSE
    /\ searchFailed = FALSE
    /\ panelOpen = FALSE
    /\ debounce = FALSE
    /\ searches = {}

\* The effect of an empty query.
ClearQuery ==
    /\ query # Blank
    /\ query' = Blank
    /\ hits' = Blank
    /\ searching' = FALSE
    /\ searchFailed' = FALSE
    /\ panelOpen' = FALSE
    /\ debounce' = FALSE
    /\ searches' = Cancel(searches)

\* Mutant: the cleanup stops the timer but leaves the search before alive.
TypeUncancelled(q) ==
    /\ query # q
    /\ query' = q
    /\ panelOpen' = TRUE
    /\ debounce' = TRUE
    /\ UNCHANGED <<hits, searching, searchFailed, searches>>

\* The effect of another query: the run before is cleaned up, the panel opens.
TypeQuery(q) ==
    /\ query # q
    /\ query' = q
    /\ panelOpen' = TRUE
    /\ debounce' = TRUE
    /\ searches' = Cancel(searches)
    /\ UNCHANGED <<hits, searching, searchFailed>>

DebounceEnds ==
    /\ debounce
    /\ debounce' = FALSE
    /\ searching' = TRUE
    /\ searchFailed' = FALSE
    /\ searches' = searches \cup {[key |-> query, live |-> TRUE]}
    /\ UNCHANGED <<query, hits, panelOpen>>

SearchAnswers(r, ok) ==
    /\ r \in searches
    /\ searches' = searches \ {r}
    /\ IF r.live
         THEN /\ hits' = IF ok THEN r.key ELSE Blank
              /\ searchFailed' = (searchFailed \/ ~ok)
              /\ searching' = FALSE
         ELSE UNCHANGED <<hits, searchFailed, searching>>
    /\ UNCHANGED <<query, panelOpen, debounce>>

\* A click outside or Escape closes the panel, the focus opens it.
PanelToggles ==
    /\ panelOpen' = ~panelOpen
    /\ panelOpen \/ query # Blank
    /\ UNCHANGED <<query, hits, searching, searchFailed, debounce, searches>>

SearchNext ==
    \/ ClearQuery
    \/ \E q \in Queries : TypeQuery(q)
    \/ DebounceEnds
    \/ \E r \in searches, ok \in BOOLEAN : SearchAnswers(r, ok)
    \/ PanelToggles

\* What the panel shows.
SearchView ==
    IF ~panelOpen \/ query = Blank THEN "closed"
    ELSE IF searching THEN "spinner"
    ELSE IF searchFailed THEN "error"
    ELSE IF hits = Blank THEN "no result" ELSE "hits"
==============================================================================
