------------------------------- MODULE Dashboard ------------------------------
(***************************************************************************)
(* CommandCenter of apps/web: the console, the panels and the graph on one  *)
(* page.  They meet in handleResult: a scan that returns sets lastScan,     *)
(* which the panels follow, and starts the call whose answer grows the      *)
(* graph.                                                                   *)
(***************************************************************************)
EXTENDS Console, GraphView

CONSTANT MaxClicks      \* bound: clicks of the user

ASSUME DashboardAssumption ==
    Targets \subseteq Nodes /\ Grades = Marks /\ MaxClicks \in Nat

VARIABLE clicks         \* clicks so far

vars == <<consoleVars, graphVars, clicks>>

Init == ConsoleInit /\ GraphInit /\ clicks = 0

\* A page that is covered by a case file takes no clicks.  A scan counts for two:
\* its input is focused and sent.
Click(n) ==
    /\ caseFile = Nobody
    /\ clicks + n <= MaxClicks
    /\ clicks' = clicks + n

ScanSucceeds(r) == ScanReturns(r) /\ HandleResult(r)

ConsoleStep ==
    \/ Click(2) /\ \E t \in Targets : RunScan(t)
    \/ Click(1) /\ (ToggleReport \/ SubmitReport)
    \/ (ScanFails \/ PanelsNext) /\ UNCHANGED clicks

GraphStep ==
    \/ Click(1) /\ ((\E n \in Nodes \cup {Nobody} : Select(n)) \/ OpenCaseFile)
    \/ ExplorerNext /\ UNCHANGED clicks

Next ==
    \/ \E r \in Results : ScanSucceeds(r) /\ UNCHANGED clicks
    \/ ConsoleStep /\ UNCHANGED graphVars
    \/ GraphStep /\ UNCHANGED consoleVars

Spec == Init /\ [][Next]_vars

\* The timer of the opinion fires; the scan and the expand call are answered or
\* fail.  Nothing is asked of the other answers or of the user.
ScanEnds ==
    /\ (ScanFails /\ UNCHANGED graphVars) \/ \E r \in Results : ScanSucceeds(r)
    /\ UNCHANGED clicks
Expanded ==
    /\ \E r \in expanding, ok \in BOOLEAN : ExpandReturns(r, ok)
    /\ UNCHANGED <<consoleVars, clicks>>
Fairness ==
    /\ WF_vars(OpinionTimesOut /\ UNCHANGED <<graphVars, clicks>>)
    /\ WF_vars(ScanEnds)
    /\ WF_vars(Expanded)

FairSpec == Spec /\ Fairness

------------------------------------------------------------------------------
(* Properties *)

LastTarget == IF lastScan = None THEN None ELSE lastScan.target

TypeOK == ConsoleTypeOK /\ GraphTypeOK /\ clicks \in 0 .. MaxClicks

\* Whatever order scans, case files and answers come in, each panel is about what
\* it stands for.  The attribution card and the result panel are about the last
\* scan.  Guidance of an earlier scan may stay while a new one is asked for, but
\* not longer.  The dossier is the seed case or about the case file that is open,
\* which waits for no answer but its own; and the gateway has the report that is
\* confirmed.
PanelsAgree ==
    /\ AttributionView = "card" => attribution = lastScan.target
    /\ ResultView # None => ResultView = lastScan
    /\ GuideView = "guide" /\ ~Waiting(guiding) => guide = Situation(lastScan)
    /\ DossierView \in {"none", "seed", caseFile}
    /\ CaseView = "decrypting" => Waiting(opening)
    /\ ModalView = "confirmation" => confirmed # None /\ reporting = << >>

\* What an answer in the wrong order would break.  The panels are about what they
\* stand for.  The gateway gets one report at a time from the modal, however often
\* the button is pressed and however the panel is folded in between, and a form that
\* is sending has its report under way.  And the last target scanned is in the graph
\* once its expand call is over, however the call ended, until the first load
\* replaces the graph.
DashboardInv ==
    /\ TypeOK
    /\ PanelsAgree
    /\ Len(reporting) = IF phase = "sending" THEN 1 ELSE 0
    /\ loading /\ lastScan # None /\ (\A r \in expanding : r.target # LastTarget)
         => Has(graph, LastTarget)

\* What the panels ask: the card for the last target scanned, the guide for its
\* situation when that calls for action, the overlay for the case file that is open.
Advised ==
    IF lastScan = None \/ lastScan.grade \notin Actionable THEN None ELSE Situation(lastScan)
Card == INSTANCE LatestAnswer WITH
    Questions <- Targets, Nothing <- None, question <- LastTarget, answer <- attribution
Guidance == INSTANCE LatestAnswer WITH
    Questions <- Situations, Nothing <- None, question <- Advised, answer <- guide
Dossier == INSTANCE LatestAnswer WITH
    Questions <- Nodes, Nothing <- Nobody, question <- caseFile,
    answer <- IF dossier \in Nodes THEN dossier ELSE Nobody

\* Each of the three panels is a field that answers its latest question: no answer to
\* an earlier one, however late, comes to the screen.
PanelsAnswerLast == Card!Spec /\ Guidance!Spec /\ Dossier!Spec

\* After the first load the graph only grows: no answer, in whatever order,
\* takes a node away or changes it.
GraphGrows ==
    [][~loading => \A n \in Nodes : Has(graph, n) => graph'[n] = graph[n]]_vars

\* The second opinion does not load for ever, whether or not it is answered; a
\* scan ends, and a target the user scanned gets drawn once the first load is
\* over, unless the scan failed or another one came after it.
AnswersCome ==
    /\ (ai = "loading") ~> (ai # "loading")
    /\ \A t \in Targets :
         ~loading /\ scanning = t
           ~> (scanning # t /\ (failed \/ LastTarget # t \/ Has(graph, t)))
==============================================================================
