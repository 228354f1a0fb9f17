------------------------------ MODULE PagesProofs -----------------------------
(***************************************************************************)
(* Proofs about Pages for any queries, values, reports and figures.  The    *)
(* parts share no variable, so each has an inductive invariant of its own;  *)
(* PagesInv and the two refinements follow from them.                       *)
(***************************************************************************)
EXTENDS Pages, TLAPS

------------------------------------------------------------------------------
(* Flights *)

\* A new run keeps the records of the flight and is the one live request in it.
LEMMA AskKeeps ==
    ASSUME NEW Keys, NEW flight \in Flights(Keys), NEW key \in Keys
    PROVE  /\ Ask(flight, key) \in Flights(Keys)
           /\ \A r \in Ask(flight, key) : r.live => r = [key |-> key, live |-> TRUE]
           /\ Waiting(Ask(flight, key))
<1>1. [key |-> key, live |-> TRUE] \in [key : Keys, live : BOOLEAN]
  OBVIOUS
<1>2. Cancel(flight) \in Flights(Keys) /\ \A r \in Cancel(flight) : ~r.live
  BY DEF Cancel, Flights
<1>3. Waiting(Ask(flight, key))
  <2>1. [key |-> key, live |-> TRUE] \in Ask(flight, key)
    BY DEF Ask
  <2>2. [key |-> key, live |-> TRUE].live
    OBVIOUS
  <2>3. QED
    BY <2>1, <2>2, Zenon DEF Waiting
<1>4. QED
  BY <1>1, <1>2, <1>3 DEF Ask, Flights

------------------------------------------------------------------------------
(* The search field *)

\* A live search is for the query in the field and has its spinner, none is live while
\* the timer runs, and what rests on the screen is of that query.
SearchIInv ==
    /\ SearchTypeOK
    /\ debounce => ~Waiting(searches) /\ query # Blank
    /\ \A r \in searches : r.live => r.key = query /\ searching
    /\ searching => debounce \/ Waiting(searches)
    /\ ~searching /\ ~debounce => hits \in {query, Blank}

LEMMA SearchInitial == SearchInit => SearchIInv
BY DEF SearchInit, SearchIInv, SearchTypeOK, Waiting, Flights

LEMMA SearchInductive == SearchIInv /\ [SearchNext]_searchVars => SearchIInv'
<1> SUFFICES ASSUME SearchIInv, [SearchNext]_searchVars
             PROVE  SearchIInv'
  OBVIOUS
<1> USE SearchAssumption DEF SearchIInv, SearchTypeOK, Waiting, Flights
<1>1. CASE ClearQuery
  BY <1>1 DEF ClearQuery, Cancel
<1>2. ASSUME NEW q \in Queries, TypeQuery(q)
      PROVE  SearchIInv'
  BY <1>2 DEF TypeQuery, Cancel
<1>3. CASE DebounceEnds
  <2>1. query \in Queries
    BY <1>3 DEF DebounceEnds
  <2>2. [key |-> query, live |-> TRUE] \in [key : Queries, live : BOOLEAN]
    BY <2>1
  <2>3. searches' = searches \cup {[key |-> query, live |-> TRUE]}
    BY <1>3 DEF DebounceEnds
  <2>4. searches' \subseteq [key : Queries, live : BOOLEAN] /\ Waiting(searches)'
    BY <2>2, <2>3
  <2>5. \A r \in searches' : r.live => r.key = query
    BY <2>3
  <2>6. QED
    BY <1>3, <2>4, <2>5 DEF DebounceEnds
<1>4. ASSUME NEW r \in searches, NEW ok \in BOOLEAN, SearchAnswers(r, ok)
      PROVE  SearchIInv'
  <2>1. \A q \in searches : q.live /\ r.live => q = r
    <3>1. \A q \in searches : q = [key |-> q.key, live |-> q.live]
      OBVIOUS
    <3>2. QED
      BY <3>1
  <2>2. searches' = searches \ {r} /\ UNCHANGED <<query, debounce, panelOpen>>
    BY <1>4 DEF SearchAnswers
  <2>3. CASE r.live
    BY <1>4, <2>1, <2>2, <2>3 DEF SearchAnswers
  <2>4. CASE ~r.live
    BY <1>4, <2>2, <2>4 DEF SearchAnswers
  <2>5. QED
    BY <2>3, <2>4
<1>5. CASE PanelToggles
  BY <1>5 DEF PanelToggles
<1>6. CASE UNCHANGED searchVars
  BY <1>6 DEF searchVars
<1>7. QED
  BY <1>1, <1>2, <1>3, <1>4, <1>5, <1>6 DEF SearchNext

LEMMA SearchRefines ==
    SearchIInv /\ [SearchNext]_searchVars => [SearchAnswer!Next]_(SearchAnswer!vars)
<1> SUFFICES ASSUME SearchIInv, [SearchNext]_searchVars
             PROVE  [SearchAnswer!Next]_(SearchAnswer!vars)
  OBVIOUS
<1> USE SearchAssumption DEF SearchIInv, SearchTypeOK, Flights, SearchAnswer!Next,
        SearchAnswer!vars, SearchAnswer!Ask, SearchAnswer!Answer
<1>1. CASE ClearQuery
  BY <1>1 DEF ClearQuery
<1>2. ASSUME NEW q \in Queries, TypeQuery(q)
      PROVE  SearchAnswer!Next
  BY <1>2 DEF TypeQuery
<1>3. CASE DebounceEnds
  BY <1>3 DEF DebounceEnds
<1>4. ASSUME NEW r \in searches, NEW ok \in BOOLEAN, SearchAnswers(r, ok)
      PROVE  [SearchAnswer!Next]_(SearchAnswer!vars)
  <2>1. r.live => r.key = query /\ query # Blank
    BY <1>4
  <2>2. QED
    BY <1>4, <2>1 DEF SearchAnswers
<1>5. CASE PanelToggles
  BY <1>5 DEF PanelToggles
<1>6. CASE UNCHANGED searchVars
  BY <1>6 DEF searchVars
<1>7. QED
  BY <1>1, <1>2, <1>3, <1>4, <1>5, <1>6 DEF SearchNext

------------------------------------------------------------------------------
(* The share page *)

\* The live check is the one of the value the page names, a page that loads has one, and
\* a page at rest has the verdict of that value or none.
ShareIInv ==
    /\ ShareTypeOK
    /\ \A r \in checks : r.live => r.key = checked
    /\ ~checking => verdict \in {checked, Empty}
    /\ checking <=> Waiting(checks)

LEMMA ShareInitial == ShareInit => ShareIInv
BY DEF ShareInit, ShareIInv, ShareTypeOK, Flights, OneLive, Waiting

LEMMA RunCheckKeeps ==
    ASSUME ShareIInv, NEW v \in Values, RunCheck(v), sharedValue' \in Values \cup {Empty}
    PROVE  ShareIInv'
<1>1. checks \in Flights(Values) /\ checks' = Ask(checks, v) /\ checked' = v
  BY DEF ShareIInv, ShareTypeOK, RunCheck
<1>2. checks' \in Flights(Values) /\ Waiting(checks')
  BY <1>1, AskKeeps
<1>3. \A r \in checks' : r.live => r = [key |-> v, live |-> TRUE]
  BY <1>1, AskKeeps
<1>4. \A r, s \in checks' : r.live /\ s.live => r = s
  BY <1>3, Zenon
<1>5. \A r \in checks' : r.live => r.key = checked'
  BY <1>1, <1>3
<1>6. QED
  BY <1>1, <1>2, <1>4, <1>5 DEF ShareIInv, ShareTypeOK, RunCheck, OneLive, Waiting

LEMMA ShareInductive == ShareIInv /\ [ShareNext]_shareVars => ShareIInv'
<1> SUFFICES ASSUME ShareIInv, [ShareNext]_shareVars
             PROVE  ShareIInv'
  OBVIOUS
<1>1. ASSUME NEW v \in Values, Share(v)
      PROVE  ShareIInv'
  BY <1>1, RunCheckKeeps DEF Share
<1>2. ASSUME NEW v \in Values, TypeInput(v)
      PROVE  ShareIInv'
  BY <1>2 DEF TypeInput, ShareIInv, ShareTypeOK, Waiting
<1>3. CASE SubmitCheck
  <2>1. input \in Values /\ sharedValue' \in Values \cup {Empty}
    BY <1>3 DEF SubmitCheck, ShareIInv, ShareTypeOK
  <2>2. QED
    BY <1>3, <2>1, RunCheckKeeps DEF SubmitCheck
<1>4. ASSUME NEW r \in checks, NEW ok \in BOOLEAN, CheckAnswers(r, ok)
      PROVE  ShareIInv'
  BY <1>4 DEF CheckAnswers, ShareIInv, ShareTypeOK, Flights, OneLive, Waiting
<1>5. CASE UNCHANGED shareVars
  BY <1>5 DEF shareVars, ShareIInv, ShareTypeOK, Waiting
<1>6. QED
  BY <1>1, <1>2, <1>3, <1>4, <1>5 DEF ShareNext

LEMMA ShareRefines ==
    ShareIInv /\ [ShareNext]_shareVars => [ShareAnswer!Next]_(ShareAnswer!vars)
<1> SUFFICES ASSUME ShareIInv, [ShareNext]_shareVars
             PROVE  [ShareAnswer!Next]_(ShareAnswer!vars)
  OBVIOUS
<1> USE ShareAssumption DEF ShareIInv, ShareTypeOK, Flights, ShareAnswer!Next,
        ShareAnswer!vars, ShareAnswer!Ask, ShareAnswer!Answer
<1>1. ASSUME NEW v \in Values, Share(v)
      PROVE  ShareAnswer!Next
  BY <1>1 DEF Share, RunCheck
<1>2. ASSUME NEW v \in Values, TypeInput(v)
      PROVE  UNCHANGED ShareAnswer!vars
  BY <1>2 DEF TypeInput
<1>3. CASE SubmitCheck
  BY <1>3 DEF SubmitCheck, RunCheck
<1>4. ASSUME NEW r \in checks, NEW ok \in BOOLEAN, CheckAnswers(r, ok)
      PROVE  [ShareAnswer!Next]_(ShareAnswer!vars)
  <2>1. r.live => r.key = checked /\ checked # Empty
    BY <1>4
  <2>2. QED
    BY <1>4, <2>1 DEF CheckAnswers
<1>5. CASE UNCHANGED shareVars
  BY <1>5 DEF shareVars
<1>6. QED
  BY <1>1, <1>2, <1>3, <1>4, <1>5 DEF ShareNext

------------------------------------------------------------------------------
(* The moderation table *)

\* As long as nothing crossed, one decision is under way at most.  Before the load
\* is over the table is the seed; a loaded table with a decision on it is what it
\* was before with that decision, and either the gateway has it already or the
\* snapshot is what the gateway still has.
DeskIInv ==
    /\ DeskTypeOK
    /\ ~crossed =>
         /\ \A p, q \in posts : p = q
         /\ loadingReports # "over" => posts = {} /\ reports = Rows(SeedIds)
         /\ loadingReports = "read" => loaded = Stored
         /\ \A p \in posts :
              /\ reports = [p.snapshot EXCEPT ![p.id] = p.status]
              /\ p.snapshot[p.id] # NoRow
              /\ loadingReports = "over" /\ IdsShown = LiveIds =>
                   (IF p.phase = "accepted" THEN reports ELSE p.snapshot) = Stored
         /\ loadingReports = "over" /\ IdsShown = LiveIds /\ posts = {} => reports = Stored

LEMMA RowsType == ASSUME NEW ids PROVE Rows(ids) \in Tables
BY DEF Rows, Tables, Statuses

LEMMA StoredType == DeskTypeOK => Stored \in Tables
BY DEF DeskTypeOK, Stored, Tables

\* The rows of the seed and of the gateway are told apart by their ids.
LEMMA SeedIdsShown == ASSUME reports = Rows(SeedIds) PROVE IdsShown = SeedIds
BY DeskAssumption DEF IdsShown, Rows, Ids

LEMMA DeskInitial == DeskInit => DeskIInv
<1> SUFFICES ASSUME DeskInit
             PROVE  DeskIInv
  OBVIOUS
<1>1. reports \in Tables /\ loaded \in Tables
  BY RowsType DEF DeskInit
<1>2. gatewayReports \in [LiveIds -> Statuses]
  BY DEF DeskInit, Statuses
<1>3. DeskTypeOK
  <2>1. decisions \in 0 .. MaxDecisions
    BY DeskAssumption DEF DeskInit
  <2>2. loadingReports = "asked" /\ pendingId = NoRow /\ posts = {} /\ crossed = FALSE
    BY DEF DeskInit
  <2>3. QED
    BY <1>1, <1>2, <2>1, <2>2 DEF DeskTypeOK
<1>4. QED
  BY <1>3, Zenon DEF DeskInit, DeskIInv

LEMMA DeskTypeInductive == DeskTypeOK /\ [DeskNext]_deskVars => DeskTypeOK'
<1> SUFFICES ASSUME DeskTypeOK, [DeskNext]_deskVars
             PROVE  DeskTypeOK'
  OBVIOUS
<1>1. ASSUME NEW ok \in BOOLEAN, ReportsRead(ok)
      PROVE  DeskTypeOK'
  <2>1. loaded' \in Tables
    BY <1>1, StoredType DEF ReportsRead, Fallback, Tables, Statuses, Decisions
  <2>2. QED
    BY <1>1, <2>1 DEF ReportsRead, DeskTypeOK
<1>2. ASSUME NEW ok \in BOOLEAN, ReportsArrive(ok)
      PROVE  DeskTypeOK'
  BY <1>2, RowsType DEF ReportsArrive, DeskTypeOK
<1>3. ASSUME NEW id \in Ids, NEW status \in Decisions, Moderate(id, status)
      PROVE  DeskTypeOK'
  <2>1. [id |-> id, status |-> status, snapshot |-> reports, phase |-> "sent"] \in Posts
    BY DEF Posts, DeskTypeOK
  <2>2. reports' \in Tables
    BY <1>3 DEF Moderate, DeskTypeOK, Tables, Statuses
  <2>3. decisions' \in 0 .. MaxDecisions
    BY <1>3, DeskAssumption DEF Moderate, DeskTypeOK
  <2>4. QED
    BY <1>3, <2>1, <2>2, <2>3 DEF Moderate, DeskTypeOK
<1>4. ASSUME NEW p \in posts, NEW o \in {"updated", "swallowed", "unreached"},
             GatewayDecides(p, o)
      PROVE  DeskTypeOK'
  <2>1. p \in Posts
    BY DEF DeskTypeOK
  <2>2. [p EXCEPT !.phase = IF o = "unreached" THEN "failed" ELSE "accepted"] \in Posts
    BY <2>1 DEF Posts
  <2>3. gatewayReports' \in [LiveIds -> Statuses]
    BY <1>4, <2>1 DEF GatewayDecides, DeskTypeOK, Posts, Statuses
  <2>4. QED
    BY <1>4, <2>2, <2>3 DEF GatewayDecides, DeskTypeOK
<1>5. ASSUME NEW p \in posts, AnswerLost(p)
      PROVE  DeskTypeOK'
  <2>1. [p EXCEPT !.phase = "failed"] \in Posts
    BY DEF DeskTypeOK, Posts
  <2>2. QED
    BY <1>5, <2>1 DEF AnswerLost, DeskTypeOK
<1>6. ASSUME NEW p \in posts, PostReturns(p)
      PROVE  DeskTypeOK'
  <2>1. reports' \in Tables
    BY <1>6 DEF PostReturns, DeskTypeOK, Tables, Posts, Statuses
  <2>2. QED
    BY <1>6, <2>1 DEF PostReturns, DeskTypeOK
<1>7. CASE UNCHANGED deskVars
  BY <1>7 DEF deskVars, DeskTypeOK
<1>8. QED
  BY <1>1, <1>2, <1>3, <1>4, <1>5, <1>6, <1>7 DEF DeskNext

LEMMA DeskInductive == DeskIInv /\ [DeskNext]_deskVars => DeskIInv'
<1> SUFFICES ASSUME DeskIInv, [DeskNext]_deskVars
             PROVE  DeskIInv'
  OBVIOUS
<1>0. DeskTypeOK /\ DeskTypeOK'
  BY DeskTypeInductive DEF DeskIInv
<1>1. ASSUME NEW ok \in BOOLEAN, ReportsRead(ok)
      PROVE  DeskIInv'
  BY <1>0, <1>1 DEF ReportsRead, DeskIInv, Stored
<1>2. ASSUME NEW ok \in BOOLEAN, ReportsArrive(ok)
      PROVE  DeskIInv'
  <2> SUFFICES ASSUME ~crossed'
               PROVE  /\ loadingReports' = "over" /\ posts' = {}
                      /\ IdsShown' = LiveIds => reports' = Stored'
    BY <1>0 DEF DeskIInv
  <2>1. loadingReports' = "over" /\ posts' = {} /\ Stored' = Stored
    BY <1>2 DEF ReportsArrive, DeskIInv, Stored
  <2>2. CASE ok
    BY <1>2, <2>1, <2>2 DEF ReportsArrive, DeskIInv
  <2>3. CASE ~ok
    <3>1. reports = Rows(SeedIds) /\ reports' = reports
      BY <1>2, <2>3 DEF ReportsArrive, DeskIInv
    <3>2. IdsShown' = SeedIds
      BY <3>1, SeedIdsShown DEF IdsShown
    <3>3. QED
      BY <2>1, <3>2, DeskAssumption
  <2>4. QED
    BY <2>2, <2>3
<1>3. ASSUME NEW id \in Ids, NEW status \in Decisions, Moderate(id, status)
      PROVE  DeskIInv'
  <2> SUFFICES ASSUME ~crossed'
               PROVE  DeskIInv'
    BY <1>0 DEF DeskIInv
  <2> DEFINE p == [id |-> id, status |-> status, snapshot |-> reports, phase |-> "sent"]
  <2>1. ~crossed /\ posts = {} /\ loadingReports = "over"
    BY <1>3 DEF Moderate
  <2>2. posts' = {p} /\ loadingReports' = "over" /\ Stored' = Stored
    BY <1>3, <2>1 DEF Moderate, Stored
  <2>3. reports' = [reports EXCEPT ![id] = status] /\ reports[id] # NoRow
    BY <1>3 DEF Moderate
  <2>4. IdsShown' = IdsShown
    BY <1>0, <2>3, DeskAssumption DEF IdsShown, DeskTypeOK, Tables, Decisions
  <2>5. IdsShown = LiveIds => reports = Stored
    BY <2>1 DEF DeskIInv
  <2>6. \A q \in posts' :
          /\ reports' = [q.snapshot EXCEPT ![q.id] = q.status]
          /\ q.snapshot[q.id] # NoRow
          /\ IdsShown' = LiveIds => (IF q.phase = "accepted" THEN reports' ELSE q.snapshot) = Stored'
    <3> SUFFICES ASSUME NEW q \in posts'
                 PROVE  /\ reports' = [q.snapshot EXCEPT ![q.id] = q.status]
                        /\ q.snapshot[q.id] # NoRow
                        /\ IdsShown' = LiveIds =>
                             (IF q.phase = "accepted" THEN reports' ELSE q.snapshot) = Stored'
      OBVIOUS
    <3>1. q.id = id /\ q.status = status /\ q.snapshot = reports /\ q.phase = "sent"
      BY <2>2
    <3>2. q.phase # "accepted"
      BY <3>1
    <3>3. reports' = [q.snapshot EXCEPT ![q.id] = q.status]
      BY <2>3, <3>1, Zenon
    <3>4. q.snapshot[q.id] # NoRow
      BY <2>3, <3>1, Zenon
    <3>5. QED
      BY <2>2, <2>4, <2>5, <3>1, <3>2, <3>3, <3>4, Zenon
  <2>7. posts' # {} /\ \A q, r \in posts' : q = r
    BY <2>2
  <2>8. QED
    BY <1>0, <2>2, <2>6, <2>7, Zenon DEF DeskIInv
<1>4. ASSUME NEW p \in posts, NEW o \in {"updated", "swallowed", "unreached"},
             GatewayDecides(p, o)
      PROVE  DeskIInv'
  <2> SUFFICES ASSUME ~crossed'
               PROVE  DeskIInv'
    BY <1>0 DEF DeskIInv
  <2> DEFINE r == [p EXCEPT !.phase = IF o = "unreached" THEN "failed" ELSE "accepted"]
  <2>1. /\ ~crossed /\ posts = {p} /\ p.phase = "sent" /\ p \in Posts
        /\ reports = [p.snapshot EXCEPT ![p.id] = p.status] /\ p.snapshot[p.id] # NoRow
        /\ loadingReports = "over"
    BY <1>0, <1>4 DEF GatewayDecides, DeskIInv, DeskTypeOK
  <2>2. posts' = {r} /\ reports' = reports /\ loadingReports' = loadingReports
    BY <1>4, <2>1 DEF GatewayDecides
  <2>3. r.id = p.id /\ r.status = p.status /\ r.snapshot = p.snapshot
        /\ r.phase = IF o = "unreached" THEN "failed" ELSE "accepted"
    BY <2>1 DEF Posts
  <2>4. IdsShown' = IdsShown
    BY <2>2 DEF IdsShown
  <2>0. o \in {"updated", "unreached"}
    BY <1>4 DEF GatewayDecides
  <2>5. ASSUME IdsShown = LiveIds
        PROVE  (IF o = "updated" THEN reports ELSE p.snapshot) = Stored'
    <3>1. p.snapshot = Stored
      BY <2>1, <2>5 DEF DeskIInv
    <3>2. CASE o = "unreached"
      BY <1>4, <3>1, <3>2 DEF GatewayDecides, Stored
    <3>3. CASE o = "updated"
      <4>0. p.id \in LiveIds
        BY <2>1, <3>1, <2>5 DEF Stored, Posts
      <4>1. p.id \in LiveIds /\ gatewayReports' = [gatewayReports EXCEPT ![p.id] = p.status]
        BY <1>4, <3>3, <4>0 DEF GatewayDecides
      <4>2. Stored' = [Stored EXCEPT ![p.id] = p.status]
        BY <1>0, <4>1 DEF Stored, DeskTypeOK, Ids
      <4>3. QED
        BY <2>1, <3>1, <3>3, <4>2
    <3>4. QED
      BY <2>0, <3>2, <3>3
  <2>6. \A q \in posts' :
          /\ reports' = [q.snapshot EXCEPT ![q.id] = q.status]
          /\ q.snapshot[q.id] # NoRow
          /\ IdsShown' = LiveIds => (IF q.phase = "accepted" THEN reports' ELSE q.snapshot) = Stored'
    <3> SUFFICES ASSUME NEW q \in posts'
                 PROVE  /\ reports' = [q.snapshot EXCEPT ![q.id] = q.status]
                        /\ q.snapshot[q.id] # NoRow
                        /\ IdsShown' = LiveIds =>
                             (IF q.phase = "accepted" THEN reports' ELSE q.snapshot) = Stored'
      OBVIOUS
    <3>1. q.id = p.id /\ q.status = p.status /\ q.snapshot = p.snapshot
      BY <2>2, <2>3, Zenon
    <3>2. q.phase = "accepted" <=> o = "updated"
      <4>1. q.phase = IF o = "unreached" THEN "failed" ELSE "accepted"
        BY <2>2, <2>3, Zenon
      <4>2. QED
        BY <2>0, <4>1
    <3>3. reports' = [q.snapshot EXCEPT ![q.id] = q.status]
      BY <2>1, <2>2, <3>1, Zenon
    <3>4. q.snapshot[q.id] # NoRow
      BY <2>1, <3>1, Zenon
    <3>5. IdsShown' = LiveIds =>
            (IF q.phase = "accepted" THEN reports' ELSE q.snapshot) = Stored'
      <4> SUFFICES ASSUME IdsShown' = LiveIds
                   PROVE  (IF q.phase = "accepted" THEN reports' ELSE q.snapshot) = Stored'
        OBVIOUS
      <4>1. (IF o = "updated" THEN reports ELSE p.snapshot) = Stored'
        BY <2>4, <2>5, Zenon
      <4>2. CASE o = "updated"
        BY <2>2, <3>2, <4>1, <4>2, Zenon
      <4>3. CASE o = "unreached"
        BY <3>1, <3>2, <4>1, <4>3, Zenon
      <4>4. QED
        BY <2>0, <4>2, <4>3
    <3>6. QED
      BY <3>3, <3>4, <3>5, Zenon
  <2>7. posts' # {} /\ \A q, s \in posts' : q = s
    BY <2>2
  <2>8. QED
    BY <1>0, <2>1, <2>2, <2>6, <2>7, Zenon DEF DeskIInv
<1>5. ASSUME NEW p \in posts, AnswerLost(p)
      PROVE  DeskIInv'
  BY <1>0, <1>5 DEF AnswerLost, DeskIInv
<1>6. ASSUME NEW p \in posts, PostReturns(p)
      PROVE  DeskIInv'
  <2> SUFFICES ASSUME ~crossed'
               PROVE  DeskIInv'
    BY <1>0 DEF DeskIInv
  <2>1. /\ ~crossed /\ posts = {p} /\ p \in Posts /\ p.phase \in {"accepted", "failed"}
        /\ reports = [p.snapshot EXCEPT ![p.id] = p.status] /\ p.snapshot[p.id] # NoRow
        /\ loadingReports = "over"
    BY <1>0, <1>6 DEF PostReturns, DeskIInv, DeskTypeOK, Posts
  <2>2. posts' = {} /\ loadingReports' = "over" /\ Stored' = Stored
    BY <1>6, <2>1 DEF PostReturns, Stored
  <2>3. p.snapshot \in Tables /\ p.id \in Ids /\ p.status \in Decisions
    BY <2>1 DEF Posts
  <2>4. reports' = IF p.phase = "failed" THEN p.snapshot ELSE reports
    <3>1. reports[p.id] = p.status
      BY <2>1, <2>3 DEF Tables
    <3>2. [reports EXCEPT ![p.id] = p.status] = reports
      BY <1>0, <2>3, <3>1 DEF DeskTypeOK, Tables
    <3>3. QED
      BY <1>6, <3>2 DEF PostReturns
  <2>5. IdsShown' = IdsShown
    BY <1>0, <2>1, <2>3, <2>4, DeskAssumption DEF IdsShown, Tables, Decisions
  <2>6. IdsShown = LiveIds => reports' = Stored
    BY <2>1, <2>4 DEF DeskIInv
  <2>7. QED
    BY <1>0, <2>2, <2>5, <2>6 DEF DeskIInv
<1>7. CASE UNCHANGED deskVars
  BY <1>0, <1>7 DEF deskVars, DeskIInv, Stored, IdsShown
<1>8. QED
  BY <1>1, <1>2, <1>3, <1>4, <1>5, <1>6, <1>7 DEF DeskNext

------------------------------------------------------------------------------
(* The polling panels *)

\* A frame brings the figure of StatsBar closer to its target and never past it,
\* the truncation of the step included.
THEOREM ApproachCloses ==
    \A current, target \in Nat : current # target =>
        /\ Approach(current, target) \in Nat
        /\ current < target => Approach(current, target) \in current + 1 .. target
        /\ current > target => Approach(current, target) \in target .. current - 1
<1> SUFFICES ASSUME NEW current \in Nat, NEW target \in Nat, current # target
             PROVE  /\ Approach(current, target) \in Nat
                    /\ current < target => Approach(current, target) \in current + 1 .. target
                    /\ current > target => Approach(current, target) \in target .. current - 1
  OBVIOUS
<1> DEFINE diff == target - current
           size == IF diff < 0 THEN -diff ELSE diff
           trunc == (18 * size) \div 100
<1>1. size \in Nat /\ size # 0
  OBVIOUS
<1>2. trunc \in Nat /\ trunc <= size
  BY <1>1
<1>3. QED
  BY <1>1, <1>2 DEF Approach

LEMMA TargetType == PanelsTypeOK => Target \in Nat
<1> SUFFICES ASSUME PanelsTypeOK
             PROVE  Target \in Nat
  OBVIOUS
<1>1. data["stats"] \in Versions \cup {0}
  BY PanelsAssumption DEF PanelsTypeOK
<1>2. \A v \in Versions : Figures[v] \in Nat
  BY PanelsAssumption DEF Versions
<1>3. QED
  BY <1>1, <1>2, PanelsAssumption DEF Target

LEMMA PanelsInitial == PanelsInit => PanelsTypeOK
<1>1. 1 \in Versions
  BY PanelsAssumption DEF Versions
<1>2. QED
  BY <1>1, PanelsAssumption DEF PanelsInit, PanelsTypeOK

LEMMA PanelsInductive == PanelsTypeOK /\ [PanelsNext]_panelVars => PanelsTypeOK'
<1> SUFFICES ASSUME PanelsTypeOK, [PanelsNext]_panelVars
             PROVE  PanelsTypeOK'
  OBVIOUS
<1> DEFINE Polls == [panel : PanelNames, n : 1 .. MaxOverlap, read : Versions \cup {0}]
<1>0. polls \subseteq Polls
  BY DEF PanelsTypeOK
<1>1. CASE GatewayDataChanges
  BY <1>1 DEF GatewayDataChanges, PanelsTypeOK
<1>2. ASSUME NEW p \in PanelNames, Pull(p)
      PROVE  PanelsTypeOK'
  <2>1. PICK n \in 1 .. MaxOverlap : polls' = polls \cup {[panel |-> p, n |-> n, read |-> 0]}
    BY <1>2 DEF Pull
  <2>2. [panel |-> p, n |-> n, read |-> 0] \in Polls
    OBVIOUS
  <2>3. polls' \subseteq Polls
    BY <1>0, <2>1, <2>2
  <2>4. QED
    BY <1>2, <2>3 DEF Pull, PanelsTypeOK
<1>3. ASSUME NEW q \in polls, GatewayAnswers(q)
      PROVE  PanelsTypeOK'
  <2>1. [q EXCEPT !.read = version] \in Polls
    BY <1>0 DEF PanelsTypeOK
  <2>2. QED
    BY <1>3, <2>1 DEF GatewayAnswers, PanelsTypeOK
<1>4. ASSUME NEW q \in polls, PollArrives(q)
      PROVE  PanelsTypeOK'
  <2>1. q.read \in Versions \cup {0}
    BY <1>0
  <2>2. QED
    BY <1>4, <2>1 DEF PollArrives, PanelsTypeOK
<1>5. ASSUME NEW q \in polls, PollFails(q)
      PROVE  PanelsTypeOK'
  <2>1. fails' \in 0 .. MaxFails
    BY <1>5, PanelsAssumption DEF PollFails, PanelsTypeOK
  <2>2. data' \in [PanelNames -> Versions \cup {0}]
    BY <1>5 DEF PollFails, PanelsTypeOK
  <2>3. QED
    BY <1>5, <2>1, <2>2 DEF PollFails, PanelsTypeOK
<1>6. CASE Unmount
  BY <1>6 DEF Unmount, PanelsTypeOK
<1>7. CASE Tick
  <2>1. shownFigure' \in Nat
    BY <1>7, TargetType, ApproachCloses DEF Tick, PanelsTypeOK
  <2>2. QED
    BY <1>7, <2>1 DEF Tick, PanelsTypeOK
<1>8. CASE UNCHANGED panelVars
  BY <1>8 DEF panelVars, PanelsTypeOK
<1>9. QED
  BY <1>1, <1>2, <1>3, <1>4, <1>5, <1>6, <1>7, <1>8 DEF PanelsNext

------------------------------------------------------------------------------
(* The disabled row *)

\* It is the row of a decision under way, whatever crossed.
RowIInv == pendingId # NoRow => \E p \in posts : p.id = pendingId

LEMMA RowInductive == DeskTypeOK /\ RowIInv /\ [DeskNext]_deskVars => RowIInv'
<1> SUFFICES ASSUME DeskTypeOK, RowIInv, [DeskNext]_deskVars
             PROVE  RowIInv'
  OBVIOUS
<1>1. ASSUME NEW id \in Ids, NEW status \in Decisions, Moderate(id, status)
      PROVE  RowIInv'
  <2> DEFINE p == [id |-> id, status |-> status, snapshot |-> reports, phase |-> "sent"]
  <2>1. p \in posts' /\ p.id = id /\ pendingId' = id
    BY <1>1 DEF Moderate
  <2>2. QED
    BY <2>1, Zenon DEF RowIInv
<1>2. ASSUME NEW p \in posts, NEW phase \in {"accepted", "failed"},
             posts' = (posts \ {p}) \cup {[p EXCEPT !.phase = phase]},
             pendingId' = pendingId
      PROVE  RowIInv'
  <2>1. p \in Posts
    BY DEF DeskTypeOK
  <2>2. [p EXCEPT !.phase = phase].id = p.id
    BY <2>1 DEF Posts
  <2>3. QED
    BY <1>2, <2>2 DEF RowIInv
<1>3. ASSUME NEW p \in posts, NEW o \in {"updated", "swallowed", "unreached"},
             GatewayDecides(p, o)
      PROVE  RowIInv'
  <2> DEFINE phase == IF o = "unreached" THEN "failed" ELSE "accepted"
  <2>1. posts' = (posts \ {p}) \cup {[p EXCEPT !.phase = phase]} /\ pendingId' = pendingId
    BY <1>3 DEF GatewayDecides
  <2>2. phase \in {"accepted", "failed"}
    OBVIOUS
  <2> HIDE DEF phase
  <2>3. QED
    BY <1>2, <2>1, <2>2
<1>4. ASSUME NEW p \in posts, AnswerLost(p)
      PROVE  RowIInv'
  BY <1>2, <1>4 DEF AnswerLost
<1>5. ASSUME NEW p \in posts, PostReturns(p)
      PROVE  RowIInv'
  BY <1>5 DEF PostReturns, RowIInv
<1>6. CASE UNCHANGED <<posts, pendingId>>
  BY <1>6 DEF RowIInv
<1>7. QED
  BY <1>1, <1>3, <1>4, <1>5, <1>6 DEF DeskNext, ReportsRead, ReportsArrive, deskVars

------------------------------------------------------------------------------
(* The pages *)

IInv == SearchIInv /\ ShareIInv /\ DeskIInv /\ RowIInv /\ PanelsTypeOK

LEMMA Initial == Init => IInv
BY SearchInitial, ShareInitial, DeskInitial, PanelsInitial DEF Init, DeskInit, RowIInv, IInv

\* A step of the pages is a step of each part, or leaves it alone.
LEMMA StepOfEach ==
    [Next]_vars =>
        /\ [SearchNext]_searchVars
        /\ [ShareNext]_shareVars
        /\ [DeskNext]_deskVars
        /\ [PanelsNext]_panelVars
BY DEF Next, SearchStep, ShareStep, DeskStep, PanelsStep, Aside, vars

LEMMA Inductive == IInv /\ [Next]_vars => IInv'
<1>1. DeskIInv => DeskTypeOK
  BY DEF DeskIInv
<1>2. QED
  BY StepOfEach, SearchInductive, ShareInductive, DeskInductive, RowInductive, PanelsInductive,
     <1>1 DEF IInv

LEMMA InvariantHolds == Spec => []IInv
BY Initial, Inductive, PTL DEF Spec

LEMMA Implied == IInv => PagesInv
<1> SUFFICES ASSUME IInv
             PROVE  PagesInv
  OBVIOUS
<1>1. TypeOK
  BY DEF IInv, SearchIInv, ShareIInv, DeskIInv, TypeOK
<1>0. WaitsEnd
  BY DEF IInv, SearchIInv, ShareIInv, RowIInv, Waiting, WaitsEnd
<1>2. SearchView = "hits" /\ ~debounce => hits = query
  BY DEF IInv, SearchIInv, SearchView
<1>3. VerdictView # Empty => VerdictView = checked
  BY DEF IInv, ShareIInv, VerdictView, ShareView
<1>4. ~crossed /\ posts = {} /\ loadingReports = "over" /\ IdsShown = LiveIds
        => reports = Stored
  BY DEF IInv, DeskIInv
<1>5. QED
  BY <1>0, <1>1, <1>2, <1>3, <1>4 DEF PagesInv

\* The search field, the share page and the moderation table agree with what is
\* under way behind them, for any inputs, reports and orders of the answers.
THEOREM PagesTheorem == Spec => []PagesInv
BY InvariantHolds, Implied, PTL

\* However slow and disordered the answers are, hits that come to the screen are
\* those of the query in the field.
THEOREM SearchTheorem == Spec => SearchIsLatest
<1>1. Init => SearchAnswer!Init
  BY DEF Init, SearchInit, SearchAnswer!Init
<1>2. IInv /\ [Next]_vars => [SearchAnswer!Next]_(SearchAnswer!vars)
  BY StepOfEach, SearchRefines DEF IInv
<1>3. QED
  BY <1>1, <1>2, InvariantHolds, PTL DEF Spec, SearchIsLatest, SearchAnswer!Spec

\* And a verdict that comes to the share page is of the value it names.
THEOREM ShareTheorem == Spec => ShareIsLatest
<1>1. Init => ShareAnswer!Init
  BY DEF Init, ShareInit, ShareAnswer!Init
<1>2. IInv /\ [Next]_vars => [ShareAnswer!Next]_(ShareAnswer!vars)
  BY StepOfEach, ShareRefines DEF IInv
<1>3. QED
  BY <1>1, <1>2, InvariantHolds, PTL DEF Spec, ShareIsLatest, ShareAnswer!Spec
==============================================================================
