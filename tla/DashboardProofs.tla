----------------------------- MODULE DashboardProofs ---------------------------
(***************************************************************************)
(* Proofs about Dashboard for any targets, grades, graphs and orders of the *)
(* answers.  The bound on clicks plays no part in them.                     *)
(***************************************************************************)
EXTENDS Dashboard, SequenceTheorems, TLAPS

------------------------------------------------------------------------------
(* Flights *)

\* A new run keeps the records of the flight and is the one live request in it.
LEMMA AskKeeps ==
    ASSUME NEW Keys, NEW flight \in Flights(Keys), NEW key \in Keys
    PROVE  /\ Ask(flight, key) \in Flights(Keys)
           /\ \A q \in Ask(flight, key) : q.live => q = [key |-> key, live |-> TRUE]
           /\ OneLive(Ask(flight, key)) /\ Waiting(Ask(flight, key))
<1>1. [key |-> key, live |-> TRUE] \in [key : Keys, live : BOOLEAN]
  OBVIOUS
<1>2. Cancel(flight) \in Flights(Keys) /\ \A q \in Cancel(flight) : ~q.live
  BY DEF Cancel, Flights
<1>3. Ask(flight, key) \in Flights(Keys)
  BY <1>1, <1>2 DEF Ask, Flights
<1>4. \A q \in Ask(flight, key) : q.live => q = [key |-> key, live |-> TRUE]
  BY <1>2 DEF Ask
<1>5. OneLive(Ask(flight, key))
  BY <1>4, Zenon DEF OneLive
<1>6. Waiting(Ask(flight, key))
  <2>1. [key |-> key, live |-> TRUE] \in Ask(flight, key)
    BY DEF Ask
  <2>2. [key |-> key, live |-> TRUE].live
    OBVIOUS
  <2>3. QED
    BY <2>1, <2>2, Zenon DEF Waiting
<1>7. QED
  BY <1>3, <1>4, <1>5, <1>6

\* After a cleanup nothing is live.
LEMMA CancelKeeps ==
    ASSUME NEW Keys, NEW flight \in Flights(Keys)
    PROVE  /\ Cancel(flight) \in Flights(Keys)
           /\ \A q \in Cancel(flight) : ~q.live
           /\ OneLive(Cancel(flight)) /\ ~Waiting(Cancel(flight))
<1>1. Cancel(flight) \in Flights(Keys) /\ \A q \in Cancel(flight) : ~q.live
  BY DEF Cancel, Flights
<1>2. QED
  BY <1>1 DEF OneLive, Waiting

------------------------------------------------------------------------------
(* The panels of the console *)

\* Every live request of the card is about the last scan; at rest the card is
\* about it or empty.
AttributionIInv ==
    /\ attribution \in Targets \cup {None}
    /\ attributing \in Flights(Targets) /\ OneLive(attributing)
    /\ \A q \in attributing : q.live => lastScan # None /\ q.key = lastScan.target
    /\ lastScan # None /\ ~Waiting(attributing) => attribution \in {None, lastScan.target}

\* The same of the guidance and the situation of the last scan, which calls for action
\* as long as guidance is asked for.
GuideIInv ==
    /\ guide \in Situations \cup {None}
    /\ guiding \in Flights(Situations) /\ OneLive(guiding)
    /\ \A q \in guiding : q.live => /\ lastScan # None /\ lastScan.grade \in Actionable
                                   /\ q.key = Situation(lastScan)
    /\ lastScan # None /\ ~Waiting(guiding) => guide \in {None, Situation(lastScan)}

\* A report is under way exactly while the form is sending.
ModalIInv ==
    /\ open \in BOOLEAN /\ (open => lastScan # None)
    /\ phase \in {"idle", "sending", "done", "error"}
    /\ reporting \in Seq(Targets)
    /\ IF phase = "sending" THEN Len(reporting) = 1 ELSE reporting = << >>
    /\ confirmed \in Targets \cup {None}
    /\ phase = "done" => confirmed # None

ScanIInv ==
    /\ scanning \in Targets \cup {None}
    /\ result \in {None, lastScan}
    /\ failed \in BOOLEAN
    /\ lastScan \in Results \cup {None}
    /\ ai \in {"unmounted", "loading", "opinion", "unavailable"}

ConsoleIInv == ScanIInv /\ AttributionIInv /\ GuideIInv /\ ModalIInv

LEMMA ConsoleInitial == ConsoleInit => ConsoleIInv
<1> SUFFICES ASSUME ConsoleInit
             PROVE  ConsoleIInv
  OBVIOUS
<1>1. ScanIInv
  BY DEF ConsoleInit, ScanIInv
<1>2. AttributionIInv
  BY DEF ConsoleInit, AttributionIInv, Flights, OneLive
<1>3. GuideIInv
  BY DEF ConsoleInit, GuideIInv, Flights, OneLive
<1>4. ModalIInv
  <2>1. reporting = << >> /\ reporting \in Seq(Targets)
    BY DEF ConsoleInit
  <2>2. phase = "idle" /\ open = FALSE /\ confirmed = None
    BY DEF ConsoleInit
  <2>3. QED
    BY <2>1, <2>2 DEF ModalIInv
<1>5. QED
  BY <1>1, <1>2, <1>3, <1>4 DEF ConsoleIInv

LEMMA SituationType == \A r \in Results : Situation(r) \in Situations
BY DEF Situations

\* The scan that returns is what every panel follows.
LEMMA ScanReturnsKeeps ==
    ASSUME ConsoleIInv, NEW r \in Results, ScanReturns(r)
    PROVE  ConsoleIInv'
<1> USE ConsoleAssumption DEF ConsoleIInv
<1>1. lastScan' = r /\ r # None /\ r.target \in Targets
  BY DEF ScanReturns, Results
<1>2. ScanIInv'
  BY <1>1 DEF ScanReturns, ScanIInv
<1>3. AttributionIInv'
  <2>1. CASE lastScan # None /\ lastScan.target = r.target
    <3>1. UNCHANGED <<attribution, attributing>>
      BY <2>1 DEF ScanReturns, AttributionEffect
    <3>2. QED
      BY <1>1, <2>1, <3>1 DEF AttributionIInv, OneLive, Waiting
  <2>2. CASE ~(lastScan # None /\ lastScan.target = r.target)
    <3>1. attributing' = Ask(attributing, r.target) /\ attribution' = attribution
      BY <2>2 DEF ScanReturns, AttributionEffect
    <3>2. attributing \in Flights(Targets)
      BY DEF AttributionIInv
    <3>3. /\ attributing' \in Flights(Targets)
          /\ \A q \in attributing' : q.live => q = [key |-> r.target, live |-> TRUE]
          /\ OneLive(attributing') /\ Waiting(attributing')
      BY <1>1, <3>1, <3>2, AskKeeps
    <3>4. \A q \in attributing' : q.live => q.key = r.target
      BY <3>3
    <3>5. QED
      BY <1>1, <3>1, <3>3, <3>4 DEF AttributionIInv, OneLive, Waiting
  <2>3. QED
    BY <2>1, <2>2
<1>4. GuideIInv'
  <2>1. CASE lastScan # None /\ Situation(lastScan) = Situation(r)
    <3>1. UNCHANGED <<guide, guiding>>
      BY <2>1 DEF ScanReturns, GuideEffect
    <3>2. r.grade = lastScan.grade
      BY <2>1 DEF Situation
    <3>3. QED
      BY <1>1, <2>1, <3>1, <3>2 DEF GuideIInv, OneLive, Waiting
  <2>2. CASE ~(lastScan # None /\ Situation(lastScan) = Situation(r)) /\ r.grade \in Actionable
    <3>1. guiding' = Ask(guiding, Situation(r)) /\ guide' = guide
      BY <2>2 DEF ScanReturns, GuideEffect
    <3>2. guiding \in Flights(Situations) /\ Situation(r) \in Situations
      BY SituationType DEF GuideIInv
    <3>3. /\ guiding' \in Flights(Situations)
          /\ \A q \in guiding' : q.live => q = [key |-> Situation(r), live |-> TRUE]
          /\ OneLive(guiding') /\ Waiting(guiding')
      BY <3>1, <3>2, AskKeeps
    <3>4. \A q \in guiding' : q.live => q.key = Situation(r)
      BY <3>3
    <3>5. QED
      BY <1>1, <2>2, <3>1, <3>3, <3>4 DEF GuideIInv, OneLive, Waiting
  <2>3. CASE ~(lastScan # None /\ Situation(lastScan) = Situation(r)) /\ r.grade \notin Actionable
    <3>1. guiding' = Cancel(guiding) /\ guide' = None
      BY <2>3 DEF ScanReturns, GuideEffect
    <3>2. /\ guiding' \in Flights(Situations)
          /\ \A q \in guiding' : ~q.live
          /\ OneLive(guiding')
      BY <3>1, CancelKeeps DEF GuideIInv
    <3>3. QED
      BY <1>1, <3>1, <3>2 DEF GuideIInv, OneLive, Waiting
  <2>4. QED
    BY <2>1, <2>2, <2>3
<1>5. ModalIInv'
  BY <1>1 DEF ScanReturns, modal, ModalIInv
<1>6. QED
  BY <1>2, <1>3, <1>4, <1>5

LEMMA AttributionAnswersKeeps ==
    ASSUME AttributionIInv, NEW q \in attributing, NEW ok \in BOOLEAN,
           AttributionAnswers(q, ok)
    PROVE  AttributionIInv'
<1>1. attributing' \in Flights(Targets) /\ OneLive(attributing)' /\ q.key \in Targets
  BY DEF AttributionAnswers, AttributionIInv, Flights, OneLive
<1>2. lastScan' = lastScan
  BY DEF AttributionAnswers, console
<1>3. \A p \in attributing' : p.live => lastScan' # None /\ p.key = lastScan'.target
  BY <1>2 DEF AttributionAnswers, AttributionIInv
<1>4. attribution' \in Targets \cup {None}
  BY <1>1 DEF AttributionAnswers, AttributionIInv
<1>5. lastScan' # None /\ ~Waiting(attributing)' => attribution' \in {None, lastScan'.target}
  <2>1. CASE q.live
    BY <1>2, <2>1 DEF AttributionAnswers, AttributionIInv
  <2>2. CASE ~q.live
    <3>1. ~Waiting(attributing)' => ~Waiting(attributing)
      BY <2>2 DEF AttributionAnswers, Waiting
    <3>2. QED
      BY <1>2, <2>2, <3>1 DEF AttributionAnswers, AttributionIInv
  <2>3. QED
    BY <2>1, <2>2
<1>6. QED
  BY <1>1, <1>3, <1>4, <1>5 DEF AttributionIInv

LEMMA GuidanceAnswersKeeps ==
    ASSUME GuideIInv, NEW q \in guiding, NEW ok \in BOOLEAN, GuidanceAnswers(q, ok)
    PROVE  GuideIInv'
<1>1. guiding' \in Flights(Situations) /\ OneLive(guiding)' /\ q.key \in Situations
  BY DEF GuidanceAnswers, GuideIInv, Flights, OneLive
<1>2. lastScan' = lastScan
  BY DEF GuidanceAnswers, console
<1>3. \A p \in guiding' : p.live => /\ lastScan' # None /\ lastScan'.grade \in Actionable
                                 /\ p.key = Situation(lastScan')
  BY <1>2 DEF GuidanceAnswers, GuideIInv
<1>4. guide' \in Situations \cup {None}
  BY <1>1 DEF GuidanceAnswers, GuideIInv
<1>5. lastScan' # None /\ ~Waiting(guiding)' => guide' \in {None, Situation(lastScan')}
  <2>1. CASE q.live
    BY <1>2, <2>1 DEF GuidanceAnswers, GuideIInv
  <2>2. CASE ~q.live
    <3>1. ~Waiting(guiding)' => ~Waiting(guiding)
      BY <2>2 DEF GuidanceAnswers, Waiting
    <3>2. QED
      BY <1>2, <2>2, <3>1 DEF GuidanceAnswers, GuideIInv
  <2>3. QED
    BY <2>1, <2>2
<1>6. QED
  BY <1>1, <1>3, <1>4, <1>5 DEF GuideIInv

LEMMA ModalKeeps ==
    ASSUME ConsoleIInv,
           \/ ToggleReport \/ SubmitReport
           \/ \E ok \in BOOLEAN : ReportReturns(ok)
    PROVE  ModalIInv'
<1> USE DEF ConsoleIInv, ModalIInv
<1>1. CASE ToggleReport
  BY <1>1 DEF ToggleReport, console
<1>2. CASE SubmitReport
  <2>1. lastScan.target \in Targets /\ reporting = << >>
    BY <1>2 DEF SubmitReport, ScanIInv, Results
  <2>2. reporting' = <<lastScan.target>>
    BY <1>2, <2>1 DEF SubmitReport
  <2>3. QED
    BY <1>2, <2>1, <2>2 DEF SubmitReport, console
<1>3. ASSUME NEW ok \in BOOLEAN, ReportReturns(ok)
      PROVE  ModalIInv'
  <2>1. Len(reporting) = 1
    BY <1>3 DEF ReportReturns
  <2>2. /\ Head(reporting) \in Targets
        /\ Tail(reporting) \in Seq(Targets) /\ Len(Tail(reporting)) = 0
    <3>1. reporting \in Seq(Targets) /\ reporting # << >>
      BY <2>1, EmptySeq
    <3>2. QED
      BY <2>1, <3>1, HeadTailProperties
  <2>3. Tail(reporting) = << >>
    BY <2>2, EmptySeq
  <2>4. QED
    BY <1>3, <2>2, <2>3, ConsoleAssumption DEF ReportReturns, console
<1>4. QED
  BY <1>1, <1>2, <1>3

LEMMA ConsoleInductive == ConsoleIInv /\ ConsoleStep => ConsoleIInv'
<1> SUFFICES ASSUME ConsoleIInv, ConsoleStep
             PROVE  ConsoleIInv'
  OBVIOUS
<1>0. ScanIInv /\ AttributionIInv /\ GuideIInv /\ ModalIInv
  BY DEF ConsoleIInv
<1>1. ASSUME NEW t \in Targets, RunScan(t)
      PROVE  ConsoleIInv'
  <2>1. UNCHANGED <<result, lastScan, panels, modal>>
    BY <1>1 DEF RunScan
  <2>2. ScanIInv'
    BY <1>0, <1>1 DEF RunScan, ScanIInv
  <2>3. AttributionIInv' /\ GuideIInv' /\ ModalIInv'
    BY <1>0, <2>1 DEF AttributionIInv, GuideIInv, ModalIInv, panels, modal, OneLive, Waiting
  <2>4. QED
    BY <2>2, <2>3 DEF ConsoleIInv
<1>2. CASE ScanFails
  <2>1. UNCHANGED <<lastScan, panels, modal>>
    BY <1>2 DEF ScanFails
  <2>2. ScanIInv'
    BY <1>0, <1>2 DEF ScanFails, ScanIInv
  <2>3. AttributionIInv' /\ GuideIInv' /\ ModalIInv'
    BY <1>0, <2>1 DEF AttributionIInv, GuideIInv, ModalIInv, panels, modal, OneLive, Waiting
  <2>4. QED
    BY <2>2, <2>3 DEF ConsoleIInv
<1>3. CASE OpinionArrives \/ OpinionTimesOut
  <2>1. UNCHANGED <<console, panels, modal>>
    BY <1>3 DEF OpinionArrives, OpinionTimesOut
  <2>2. ScanIInv'
    BY <1>0, <1>3, <2>1 DEF OpinionArrives, OpinionTimesOut, ScanIInv, console
  <2>3. AttributionIInv' /\ GuideIInv' /\ ModalIInv'
    BY <1>0, <2>1 DEF AttributionIInv, GuideIInv, ModalIInv, console, panels, modal, OneLive,
       Waiting
  <2>4. QED
    BY <2>2, <2>3 DEF ConsoleIInv
<1>4. ASSUME NEW q \in attributing, NEW ok \in BOOLEAN, AttributionAnswers(q, ok)
      PROVE  ConsoleIInv'
  <2>1. ScanIInv' /\ GuideIInv' /\ ModalIInv'
    BY <1>0, <1>4 DEF AttributionAnswers, ScanIInv, GuideIInv, ModalIInv, console, modal, OneLive,
       Waiting
  <2>2. QED
    BY <1>0, <1>4, <2>1, AttributionAnswersKeeps DEF ConsoleIInv
<1>5. ASSUME NEW q \in guiding, NEW ok \in BOOLEAN, GuidanceAnswers(q, ok)
      PROVE  ConsoleIInv'
  <2>1. ScanIInv' /\ AttributionIInv' /\ ModalIInv'
    BY <1>0, <1>5 DEF GuidanceAnswers, ScanIInv, AttributionIInv, ModalIInv, console, modal,
       OneLive, Waiting
  <2>2. QED
    BY <1>0, <1>5, <2>1, GuidanceAnswersKeeps DEF ConsoleIInv
<1>6. CASE ToggleReport \/ SubmitReport \/ \E ok \in BOOLEAN : ReportReturns(ok)
  <2>1. UNCHANGED <<console, panels, ai>>
    BY <1>6 DEF ToggleReport, SubmitReport, ReportReturns
  <2>2. ScanIInv' /\ AttributionIInv' /\ GuideIInv'
    BY <1>0, <2>1 DEF ScanIInv, AttributionIInv, GuideIInv, console, panels, OneLive, Waiting
  <2>3. QED
    BY <1>6, <2>2, ModalKeeps DEF ConsoleIInv
<1>7. QED
  BY <1>1, <1>2, <1>3, <1>4, <1>5, <1>6 DEF ConsoleStep, PanelsNext

------------------------------------------------------------------------------
(* The graph and the case file *)

\* The live request of the case file is about the one that is open, and an open
\* one has a dossier or waits for it.
GraphIInv ==
    /\ GraphTypeOK
    /\ dossier \in {"none", "seed", caseFile}
    /\ \A q \in opening : q.live => q.key = caseFile
    /\ caseFile = Nobody => dossier = "none"
    /\ caseFile # Nobody /\ dossier = "none" => Waiting(opening)

LEMMA GraphInitial == GraphInit => GraphIInv
BY GraphAssumption DEF GraphInit, GraphIInv, GraphTypeOK, Flights

LEMMA MergeType == \A base, add \in GraphData : MergeGraph(base, add) \in GraphData
BY DEF MergeGraph, GraphData, Has

LEMMA ScanNodeType == \A r \in [target : Nodes, grade : Marks] : NodeFromScan(r) \in GraphData
BY DEF NodeFromScan, GraphData

\* Merging keeps every node there is, and every node that is added is there.
LEMMA MergeKeeps ==
    ASSUME NEW base \in GraphData, NEW add \in GraphData, NEW n \in Nodes
    PROVE  /\ Has(base, n) => MergeGraph(base, add)[n] = base[n]
           /\ Has(add, n) => Has(MergeGraph(base, add), n)
BY DEF MergeGraph, Has, GraphData

\* What an expand call adds to the graph has the scanned node in it.
LEMMA ExpandAdds ==
    ASSUME GraphTypeOK, NEW r \in expanding, NEW ok \in BOOLEAN, ExpandReturns(r, ok)
    PROVE  /\ graph' \in GraphData
           /\ Has(graph', r.target)
           /\ \A n \in Nodes : Has(graph, n) => graph'[n] = graph[n]
<1> DEFINE node == NodeFromScan(r)
           add == IF ok THEN MergeGraph(node, LiveGraph) ELSE node
<1>1. r \in [target : Nodes, grade : Marks] /\ graph \in GraphData
  BY DEF GraphTypeOK
<1>2. node \in GraphData
  BY <1>1, ScanNodeType
<1>3. r.target \in Nodes /\ node[r.target] = r.grade
  BY <1>1 DEF NodeFromScan
<1>4. Has(node, r.target)
  BY <1>1, <1>3, GraphAssumption DEF Has
<1>5. add \in GraphData /\ Has(add, r.target)
  <2> HIDE DEF node
  <2>1. MergeGraph(node, LiveGraph) \in GraphData
    BY <1>2, MergeType, GraphAssumption
  <2>2. MergeGraph(node, LiveGraph)[r.target] = node[r.target]
    BY <1>2, <1>3, <1>4, MergeKeeps, GraphAssumption
  <2>3. Has(MergeGraph(node, LiveGraph), r.target)
    BY <1>4, <2>2 DEF Has
  <2>4. QED
    BY <1>2, <1>4, <2>1, <2>3
<1>6. graph' = MergeGraph(graph, add)
  BY DEF ExpandReturns, Redraw
<1>7. QED
  <2> HIDE DEF add
  <2>1. graph' \in GraphData
    BY <1>1, <1>5, <1>6, MergeType
  <2>2. Has(graph', r.target)
    BY <1>1, <1>3, <1>5, <1>6, MergeKeeps
  <2>3. \A n \in Nodes : Has(graph, n) => graph'[n] = graph[n]
    BY <1>1, <1>5, <1>6, MergeKeeps
  <2>4. QED
    BY <2>1, <2>2, <2>3

LEMMA GraphInductive == GraphIInv /\ GraphStep => GraphIInv'
<1> SUFFICES ASSUME GraphIInv, GraphStep
             PROVE  GraphIInv'
  OBVIOUS
<1> USE GraphAssumption DEF GraphIInv
<1>1. ASSUME NEW ok \in BOOLEAN, GraphLoads(ok)
      PROVE  GraphIInv'
  BY <1>1 DEF GraphLoads, Redraw, GraphTypeOK, explorer, caseVars, Waiting
<1>2. ASSUME NEW r \in expanding, NEW ok \in BOOLEAN, ExpandReturns(r, ok)
      PROVE  GraphIInv'
  <2>1. graph' \in GraphData
    BY <1>2, ExpandAdds
  <2>2. QED
    BY <1>2, <2>1 DEF ExpandReturns, Redraw, GraphTypeOK, caseVars, Waiting
<1>3. ASSUME NEW q \in opening, NEW found \in BOOLEAN, CaseArrives(q, found)
      PROVE  GraphIInv'
  <2>1. q.key \in Nodes /\ (q.live => q.key = caseFile)
    BY DEF GraphTypeOK, Flights
  <2>2. opening' \in Flights(Nodes) /\ opening' = opening \ {q}
    BY <1>3 DEF CaseArrives, GraphTypeOK, Flights
  <2>3. GraphTypeOK'
    BY <1>3, <2>1, <2>2 DEF CaseArrives, GraphTypeOK, explorer
  <2>4. CASE q.live
    BY <1>3, <2>1, <2>2, <2>3, <2>4 DEF CaseArrives
  <2>5. CASE ~q.live
    BY <1>3, <2>2, <2>3, <2>5 DEF CaseArrives, Waiting
  <2>6. QED
    BY <2>4, <2>5
<1>4. ASSUME NEW n \in Nodes \cup {Nobody}, Select(n)
      PROVE  GraphIInv'
  BY <1>4 DEF Select, GraphTypeOK, caseVars, Waiting
<1>5. CASE OpenCaseFile
  <2>1. caseFile' \in Nodes /\ opening' = Ask(opening, caseFile') /\ dossier' = "none"
    BY <1>5 DEF OpenCaseFile, NodePanel, PanelOf, GraphTypeOK
  <2>2. opening \in Flights(Nodes)
    BY DEF GraphTypeOK
  <2>3. /\ opening' \in Flights(Nodes) /\ Waiting(opening')
        /\ \A q \in opening' : q.live => q = [key |-> caseFile', live |-> TRUE]
    BY <2>1, <2>2, AskKeeps
  <2>4. \A q \in opening' : q.live => q.key = caseFile'
    BY <2>3
  <2>5. GraphTypeOK'
    BY <1>5, <2>1, <2>3 DEF OpenCaseFile, GraphTypeOK, explorer
  <2>6. QED
    BY <2>1, <2>3, <2>4, <2>5 DEF Waiting
<1>6. CASE CloseCaseFile
  <2>1. opening' \in Flights(Nodes) /\ \A q \in opening' : ~q.live
    BY <1>6, CancelKeeps DEF CloseCaseFile, GraphTypeOK
  <2>2. QED
    BY <1>6, <2>1 DEF CloseCaseFile, GraphTypeOK, explorer
<1>7. QED
  BY <1>1, <1>2, <1>3, <1>4, <1>5, <1>6 DEF GraphStep, ExplorerNext

LEMMA HandleResultKeeps ==
    ASSUME GraphIInv, NEW r \in Results, HandleResult(r)
    PROVE  GraphIInv' /\ UNCHANGED <<graph, loading>>
<1>1. r \in [target : Nodes, grade : Marks]
  BY DashboardAssumption DEF Results
<1>2. QED
  BY <1>1 DEF HandleResult, FocusEffect, GraphIInv, GraphTypeOK, caseVars, Waiting

------------------------------------------------------------------------------
(* The page *)

\* While the first load is under way, the last target scanned is drawn or its
\* expand call is on its way.
ScannedIsDrawn ==
    loading /\ lastScan # None /\ (\A r \in expanding : r.target # LastTarget)
      => Has(graph, LastTarget)

IInv == ConsoleIInv /\ GraphIInv /\ clicks \in 0 .. MaxClicks /\ ScannedIsDrawn

LEMMA Initial == Init => IInv
<1> SUFFICES ASSUME Init
             PROVE  IInv
  OBVIOUS
<1>1. ConsoleIInv /\ GraphIInv
  BY ConsoleInitial, GraphInitial DEF Init
<1>2. clicks \in 0 .. MaxClicks
  BY DashboardAssumption DEF Init
<1>3. ScannedIsDrawn
  BY DEF Init, ConsoleInit, ScannedIsDrawn
<1>4. QED
  BY <1>1, <1>2, <1>3 DEF IInv

\* The console and the graph keep the invariant of the other.
LEMMA ConsoleUnchanged ==
    ASSUME ConsoleIInv, UNCHANGED consoleVars
    PROVE  ConsoleIInv' /\ LastTarget' = LastTarget /\ lastScan' = lastScan
BY DEF ConsoleIInv, ScanIInv, AttributionIInv, GuideIInv, ModalIInv, consoleVars, console,
       panels, modal, OneLive, Waiting, LastTarget

LEMMA GraphUnchanged ==
    ASSUME GraphIInv, UNCHANGED graphVars
    PROVE  GraphIInv' /\ graph' = graph /\ loading' = loading /\ expanding' = expanding
BY DEF GraphIInv, GraphTypeOK, graphVars, explorer, caseVars, Waiting

LEMMA ClicksType ==
    ASSUME clicks \in 0 .. MaxClicks, NEW n \in Nat, Click(n)
    PROVE  clicks' \in 0 .. MaxClicks
BY DashboardAssumption DEF Click

LEMMA LastTargetType == ConsoleIInv /\ lastScan # None => LastTarget \in Nodes
BY DashboardAssumption DEF ConsoleIInv, ScanIInv, Results, LastTarget

LEMMA Inductive == IInv /\ [Next]_vars => IInv'
<1> SUFFICES ASSUME IInv, [Next]_vars
             PROVE  IInv'
  OBVIOUS
<1>0. ConsoleIInv /\ GraphIInv /\ clicks \in 0 .. MaxClicks /\ ScannedIsDrawn
  BY DEF IInv
<1>1. ASSUME NEW r \in Results, ScanSucceeds(r), UNCHANGED clicks
      PROVE  IInv'
  <2>1. ConsoleIInv'
    BY <1>0, <1>1, ScanReturnsKeeps DEF ScanSucceeds
  <2>2. GraphIInv'
    BY <1>0, <1>1, HandleResultKeeps DEF ScanSucceeds
  <2>3. r \in expanding' /\ LastTarget' = r.target
    BY <1>1, ConsoleAssumption DEF ScanSucceeds, ScanReturns, HandleResult, LastTarget, Results
  <2>4. QED
    BY <1>0, <1>1, <2>1, <2>2, <2>3 DEF IInv, ScannedIsDrawn
<1>2. CASE ConsoleStep /\ UNCHANGED graphVars
  <2>1. ConsoleIInv' /\ GraphIInv' /\ graph' = graph /\ loading' = loading
        /\ expanding' = expanding
    BY <1>0, <1>2, ConsoleInductive, GraphUnchanged
  <2>2. clicks' \in 0 .. MaxClicks
    BY <1>0, <1>2, ClicksType DEF ConsoleStep
  <2>3. lastScan' = lastScan
    BY <1>2 DEF ConsoleStep, PanelsNext, RunScan, ToggleReport, SubmitReport, ScanFails,
       AttributionAnswers, GuidanceAnswers, OpinionArrives, OpinionTimesOut, ReportReturns, console
  <2>4. ScannedIsDrawn'
    BY <1>0, <2>1, <2>3 DEF ScannedIsDrawn, LastTarget, Has
  <2>5. QED
    BY <2>1, <2>2, <2>4 DEF IInv
<1>3. CASE GraphStep /\ UNCHANGED consoleVars
  <2>1. ConsoleIInv' /\ GraphIInv' /\ LastTarget' = LastTarget /\ lastScan' = lastScan
    BY <1>0, <1>3, ConsoleUnchanged, GraphInductive
  <2>2. clicks' \in 0 .. MaxClicks
    BY <1>0, <1>3, ClicksType DEF GraphStep
  <2>3. ScannedIsDrawn'
    <3>1. CASE \E ok \in BOOLEAN : GraphLoads(ok)
      BY <3>1 DEF GraphLoads, ScannedIsDrawn
    <3>2. ASSUME NEW r \in expanding, NEW ok \in BOOLEAN, ExpandReturns(r, ok)
          PROVE  ScannedIsDrawn'
      <4>1. Has(graph', r.target) /\ \A n \in Nodes : Has(graph, n) => graph'[n] = graph[n]
        BY <1>0, <3>2, ExpandAdds DEF GraphIInv
      <4>2. expanding' = expanding \ {r} /\ loading' = loading
        BY <3>2 DEF ExpandReturns
      <4>3. CASE r.target = LastTarget
        BY <2>1, <4>1, <4>3 DEF ScannedIsDrawn, Has
      <4>4. CASE r.target # LastTarget
        <5>1. lastScan # None => LastTarget \in Nodes
          BY <1>0, LastTargetType
        <5>2. QED
          BY <1>0, <2>1, <4>1, <4>2, <4>4, <5>1 DEF ScannedIsDrawn, Has
      <4>5. QED
        BY <4>3, <4>4
    <3>3. ASSUME UNCHANGED <<graph, loading, expanding>>
          PROVE  ScannedIsDrawn'
      BY <1>0, <2>1, <3>3 DEF ScannedIsDrawn, Has
    <3>4. QED
      BY <1>3, <3>1, <3>2, <3>3 DEF GraphStep, ExplorerNext, Select, OpenCaseFile, CaseArrives,
         CloseCaseFile
  <2>4. QED
    BY <2>1, <2>2, <2>3 DEF IInv
<1>4. CASE UNCHANGED vars
  <2>1. ConsoleIInv' /\ LastTarget' = LastTarget /\ lastScan' = lastScan
    BY <1>0, <1>4, ConsoleUnchanged DEF vars
  <2>2. GraphIInv' /\ graph' = graph /\ loading' = loading /\ expanding' = expanding
    BY <1>0, <1>4, GraphUnchanged DEF vars
  <2>3. QED
    BY <1>0, <1>4, <2>1, <2>2 DEF IInv, ScannedIsDrawn, vars, Has
<1>5. QED
  BY <1>1, <1>2, <1>3, <1>4 DEF Next

LEMMA InvariantHolds == Spec => []IInv
BY Initial, Inductive, PTL DEF Spec

\* Each panel is about what it stands for.
LEMMA InvariantAgrees ==
    ASSUME IInv
    PROVE  PanelsAgree
<1>1. ScanIInv /\ AttributionIInv /\ GuideIInv /\ ModalIInv /\ GraphIInv
  BY DEF IInv, ConsoleIInv
<1>2. AttributionView = "card" => attribution = lastScan.target
  BY <1>1 DEF AttributionIInv, AttributionView
<1>3. ResultView # None => ResultView = lastScan
  BY <1>1 DEF ScanIInv, ResultView
<1>4. GuideView = "guide" /\ ~Waiting(guiding) => guide = Situation(lastScan)
  BY <1>1 DEF GuideIInv, GuideView
<1>5. DossierView \in {"none", "seed", caseFile} /\ (CaseView = "decrypting" => Waiting(opening))
  BY <1>1 DEF GraphIInv, DossierView, CaseView
<1>6. ModalView = "confirmation" => confirmed # None /\ reporting = << >>
  BY <1>1 DEF ModalIInv, ModalView
<1>7. QED
  BY <1>2, <1>3, <1>4, <1>5, <1>6 DEF PanelsAgree

------------------------------------------------------------------------------
(* The panels answer their latest question *)

\* A step of the console that no panel answers in leaves the scan and the panels.
LEMMA QuietConsole ==
    ASSUME ConsoleStep,
           ~\E q \in attributing, ok \in BOOLEAN : AttributionAnswers(q, ok),
           ~\E q \in guiding, ok \in BOOLEAN : GuidanceAnswers(q, ok)
    PROVE  UNCHANGED <<lastScan, panels>>
BY DEF ConsoleStep, PanelsNext, RunScan, ToggleReport, SubmitReport, ScanFails, OpinionArrives,
   OpinionTimesOut, ReportReturns, console

LEMMA CardRefines ==
    ASSUME IInv, [Next]_vars
    PROVE  [Card!Next]_(Card!vars)
<1> USE DEF Card!Next, Card!vars, Card!Ask, Card!Answer
<1>0. ScanIInv /\ AttributionIInv
  BY DEF IInv, ConsoleIInv
<1>1. ASSUME NEW r \in Results, ScanReturns(r)
      PROVE  Card!Next
  <2>1. LastTarget' = r.target /\ r.target \in Targets
    BY <1>1, ConsoleAssumption DEF ScanReturns, LastTarget, Results
  <2>2. attribution' = attribution
    BY <1>1 DEF ScanReturns, AttributionEffect
  <2>3. QED
    BY <2>1, <2>2
<1>2. ASSUME NEW q \in attributing, NEW ok \in BOOLEAN, AttributionAnswers(q, ok)
      PROVE  [Card!Next]_(Card!vars)
  <2>1. LastTarget' = LastTarget
    BY <1>2 DEF AttributionAnswers, console, LastTarget
  <2>2. q.live => q.key = LastTarget /\ LastTarget \in Targets
    BY <1>0 DEF AttributionIInv, ScanIInv, Results, LastTarget
  <2>3. QED
    BY <1>2, <2>1, <2>2, ConsoleAssumption DEF AttributionAnswers
<1>3. ASSUME UNCHANGED <<lastScan, attribution>>
      PROVE  UNCHANGED Card!vars
  BY <1>3 DEF LastTarget
<1>4. ASSUME NEW q \in guiding, NEW ok \in BOOLEAN, GuidanceAnswers(q, ok)
      PROVE  UNCHANGED <<lastScan, attribution>>
  BY <1>4 DEF GuidanceAnswers, console
<1>5. CASE ConsoleStep /\ UNCHANGED graphVars
  BY <1>2, <1>3, <1>4, <1>5, QuietConsole DEF panels
<1>6. CASE UNCHANGED consoleVars
  BY <1>3, <1>6 DEF consoleVars, console, panels
<1>7. QED
  BY <1>1, <1>5, <1>6 DEF Next, ScanSucceeds, vars

LEMMA GuidanceRefines ==
    ASSUME IInv, [Next]_vars
    PROVE  [Guidance!Next]_(Guidance!vars)
<1> USE DEF Guidance!Next, Guidance!vars, Guidance!Ask, Guidance!Answer
<1>0. ScanIInv /\ GuideIInv
  BY DEF IInv, ConsoleIInv
<1>1. ASSUME NEW r \in Results, ScanReturns(r)
      PROVE  Guidance!Next
  <2>1. lastScan' = r /\ r # None /\ Situation(r) \in Situations
    BY <1>1, ConsoleAssumption, SituationType DEF ScanReturns
  <2>2. Advised' = IF r.grade \in Actionable THEN Situation(r) ELSE None
    BY <2>1 DEF Advised
  <2>3. guide' \in {guide, None}
    BY <1>1 DEF ScanReturns, GuideEffect
  <2>4. QED
    BY <2>1, <2>2, <2>3
<1>2. ASSUME NEW q \in guiding, NEW ok \in BOOLEAN, GuidanceAnswers(q, ok)
      PROVE  [Guidance!Next]_(Guidance!vars)
  <2>1. Advised' = Advised
    BY <1>2 DEF GuidanceAnswers, console, Advised
  <2>2. q.live => q.key = Advised /\ Advised \in Situations
    BY <1>0, SituationType DEF GuideIInv, ScanIInv, Advised
  <2>3. QED
    BY <1>2, <2>1, <2>2, ConsoleAssumption DEF GuidanceAnswers
<1>3. ASSUME UNCHANGED <<lastScan, guide>>
      PROVE  UNCHANGED Guidance!vars
  BY <1>3 DEF Advised
<1>4. ASSUME NEW q \in attributing, NEW ok \in BOOLEAN, AttributionAnswers(q, ok)
      PROVE  UNCHANGED <<lastScan, guide>>
  BY <1>4 DEF AttributionAnswers, console
<1>5. CASE ConsoleStep /\ UNCHANGED graphVars
  BY <1>2, <1>3, <1>4, <1>5, QuietConsole DEF panels
<1>6. CASE UNCHANGED consoleVars
  BY <1>3, <1>6 DEF consoleVars, console, panels
<1>7. QED
  BY <1>1, <1>5, <1>6 DEF Next, ScanSucceeds, vars

LEMMA DossierRefines ==
    ASSUME IInv, [Next]_vars
    PROVE  [Dossier!Next]_(Dossier!vars)
<1> USE GraphAssumption DEF Dossier!Next, Dossier!vars, Dossier!Ask, Dossier!Answer
<1>0. GraphIInv /\ GraphTypeOK
  BY DEF IInv, GraphIInv
<1>1. CASE OpenCaseFile
  <2>1. caseFile' \in Nodes /\ dossier' = "none"
    BY <1>0, <1>1 DEF OpenCaseFile, NodePanel, PanelOf, GraphTypeOK
  <2>2. QED
    BY <2>1
<1>2. CASE CloseCaseFile
  BY <1>2 DEF CloseCaseFile
<1>3. ASSUME NEW q \in opening, NEW found \in BOOLEAN, CaseArrives(q, found)
      PROVE  [Dossier!Next]_(Dossier!vars)
  <2>1. q.live => q.key = caseFile /\ caseFile \in Nodes
    BY <1>0 DEF GraphIInv, GraphTypeOK, Flights
  <2>2. caseFile' = caseFile /\ "seed" \notin Nodes
    BY <1>3 DEF CaseArrives
  <2>3. QED
    BY <1>3, <2>1, <2>2 DEF CaseArrives
<1>4. CASE UNCHANGED <<caseFile, dossier>>
  BY <1>4
<1>5. CASE GraphStep
  BY <1>1, <1>2, <1>3, <1>4, <1>5 DEF GraphStep, ExplorerNext, GraphLoads, ExpandReturns, Select,
     caseVars
<1>6. QED
  BY <1>4, <1>5 DEF Next, ScanSucceeds, HandleResult, graphVars, caseVars, vars

------------------------------------------------------------------------------
(* Theorems *)

\* The gateway gets one report at a time from the modal, and a scanned target is
\* drawn as soon as its expand call is over, however it ended.
THEOREM DashboardTheorem == Spec => []DashboardInv
<1>1. IInv => DashboardInv
  <2> SUFFICES ASSUME IInv
               PROVE  DashboardInv
    OBVIOUS
  <2>1. ConsoleIInv /\ GraphIInv /\ clicks \in 0 .. MaxClicks /\ ScannedIsDrawn
    BY DEF IInv
  <2>2. ConsoleTypeOK
    BY <2>1 DEF ConsoleIInv, ScanIInv, AttributionIInv, GuideIInv, ModalIInv, ConsoleTypeOK
  <2>3. Len(reporting) = IF phase = "sending" THEN 1 ELSE 0
    BY <2>1, EmptySeq DEF ConsoleIInv, ModalIInv
  <2>4. PanelsAgree
    BY InvariantAgrees
  <2>5. QED
    BY <2>1, <2>2, <2>3, <2>4 DEF DashboardInv, TypeOK, GraphIInv, ScannedIsDrawn
<1>2. QED
  BY <1>1, InvariantHolds, PTL

\* After the first load no answer takes a node away from the graph or changes it.
THEOREM GrowthTheorem == Spec => GraphGrows
<1>1. IInv /\ [Next]_vars
        => [~loading => \A n \in Nodes : Has(graph, n) => graph'[n] = graph[n]]_vars
  <2> SUFFICES ASSUME IInv, Next, ~loading, NEW n \in Nodes, Has(graph, n)
               PROVE  graph'[n] = graph[n]
    OBVIOUS
  <2>1. ASSUME NEW r \in expanding, NEW ok \in BOOLEAN, ExpandReturns(r, ok)
        PROVE  graph'[n] = graph[n]
    BY <2>1, ExpandAdds DEF IInv, GraphIInv
  <2>2. CASE graph' = graph
    BY <2>2
  <2>3. QED
    <3>1. CASE \E r \in Results : ScanSucceeds(r) /\ UNCHANGED clicks
      BY <2>2, <3>1 DEF ScanSucceeds, HandleResult
    <3>2. CASE ConsoleStep /\ UNCHANGED graphVars
      BY <2>2, <3>2 DEF graphVars
    <3>3. CASE GraphStep
      BY <2>1, <2>2, <3>3 DEF GraphStep, ExplorerNext, GraphLoads, Select, OpenCaseFile,
         CaseArrives, CloseCaseFile
    <3>4. QED
      BY <3>1, <3>2, <3>3 DEF Next
<1>2. QED
  BY <1>1, InvariantHolds, PTL DEF Spec, GraphGrows

\* The attribution card, the guide and the case file implement LatestAnswer: no answer
\* to an earlier scan or case, however late, comes to the screen.
THEOREM AnswersTheorem == Spec => PanelsAnswerLast
<1>1. ASSUME Init
      PROVE  Card!Init /\ Guidance!Init /\ Dossier!Init
  <2>1. LastTarget = None /\ Advised = None
    BY <1>1 DEF Init, ConsoleInit, LastTarget, Advised
  <2>2. attribution = None /\ guide = None /\ caseFile = Nobody /\ dossier = "none"
    BY <1>1 DEF Init, ConsoleInit, GraphInit
  <2>3. QED
    BY <2>1, <2>2, GraphAssumption DEF Card!Init, Guidance!Init, Dossier!Init
<1>2. IInv /\ [Next]_vars => /\ [Card!Next]_(Card!vars)
                             /\ [Guidance!Next]_(Guidance!vars)
                             /\ [Dossier!Next]_(Dossier!vars)
  BY CardRefines, GuidanceRefines, DossierRefines
<1>3. QED
  BY <1>1, <1>2, InvariantHolds, PTL
     DEF Spec, PanelsAnswerLast, Card!Spec, Guidance!Spec, Dossier!Spec
==============================================================================
