--------------------------------- MODULE Pages --------------------------------
(***************************************************************************)
(* The parts of apps/web that share nothing but the gateway: the search     *)
(* field, the share page, the moderation table and the polling panels.  A   *)
(* behaviour is a visit to one of them.                                     *)
(***************************************************************************)
EXTENDS SearchBar, SharePage, AdminDesk, Panels

VARIABLE visit      \* the part that is looked at

vars == <<visit, searchVars, shareVars, deskVars, panelVars>>

Init ==
    /\ visit \in {"search", "share", "desk", "panels"}
    /\ SearchInit /\ ShareInit /\ DeskInit /\ PanelsInit

SearchStep == visit = "search" /\ SearchNext /\ UNCHANGED <<shareVars, deskVars, panelVars>>
ShareStep == visit = "share" /\ ShareNext /\ UNCHANGED <<searchVars, deskVars, panelVars>>
DeskStep == visit = "desk" /\ DeskNext /\ UNCHANGED <<searchVars, shareVars, panelVars>>
Aside == UNCHANGED <<searchVars, shareVars, deskVars>>
PanelsStep == visit = "panels" /\ PanelsNext /\ Aside

Next == (SearchStep \/ ShareStep \/ DeskStep \/ PanelsStep) /\ UNCHANGED visit

Spec == Init /\ [][Next]_vars

\* The interval of a mounted panel ticks for ever, the gateway answers a poll it
\* does not fail, and the browser draws frames.
Runs(A) == visit = "panels" /\ A /\ Aside /\ UNCHANGED visit
Fairness ==
    /\ \A p \in PanelNames :
         /\ WF_vars(Runs(Pull(p)))
         /\ WF_vars(Runs(\E q \in polls : q.panel = p /\ GatewayAnswers(q)))
         /\ WF_vars(Runs(\E q \in polls : q.panel = p /\ PollArrives(q)))
    /\ WF_vars(Runs(Tick))

FairSpec == Spec /\ Fairness

------------------------------------------------------------------------------
(* Properties *)

TypeOK == SearchTypeOK /\ ShareTypeOK /\ DeskTypeOK /\ PanelsTypeOK

\* No part waits for an answer that is not under way, or seems to rest while one is:
\* the spinners of the search and of the share page, and the disabled row of the
\* moderation table, each have a request that will end them.
WaitsEnd ==
    /\ searching => debounce \/ Waiting(searches)
    /\ Waiting(searches) => searching
    /\ checking <=> Waiting(checks)
    /\ pendingId # NoRow => \E p \in posts : p.id = pendingId

\* The screens agree with what is under way behind them.  Once the search field
\* rests its hits are those of the query.  The verdict of the share page
\* is the one of the value it names.  And as long as one decision is made at a
\* time, after the load, its answer arrives and the database of the gateway does not
\* fail, a moderation table that was loaded shows what the gateway has: a decision
\* that does not reach the gateway is taken back.
PagesInv ==
    /\ TypeOK
    /\ WaitsEnd
    /\ SearchView = "hits" /\ ~debounce => hits = query
    /\ VerdictView # Empty => VerdictView = checked
    /\ ~crossed /\ posts = {} /\ loadingReports = "over" /\ IdsShown = LiveIds
         => reports = Stored

\* However slow the answers are: hits that come to the screen are those of the
\* query that stands in the field.
SearchAnswer ==
    INSTANCE LatestAnswer
      WITH Questions <- Queries, Nothing <- Blank, question <- query, answer <- hits
SearchIsLatest == SearchAnswer!Spec

\* A page shared to again while it checks shows no verdict of another value.
ShareAnswer ==
    INSTANCE LatestAnswer
      WITH Questions <- Values, Nothing <- Empty, question <- checked, answer <- verdict
ShareIsLatest == ShareAnswer!Spec

\* Polls may fail and overtake each other: a panel that stays on the page ends
\* up with the data of the gateway once that stops changing, and StatsBar with the
\* figures of its data on the screen, whatever steps they take to get there.
PanelsCatchUp ==
    visit = "panels"
      => <>[](~onPage \/ (shownFigure = Target /\ \A p \in PanelNames : data[p] = version))
==============================================================================
