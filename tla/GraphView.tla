------------------------------ MODULE GraphView -------------------------------
(***************************************************************************)
(* The graph of the dashboard: graphData of CommandCenter, the explorer     *)
(* that draws it (GraphExplorer) and the case file it opens                 *)
(* (CampaignCaseFile).  A graph maps each node to its grade, or to Absent;  *)
(* edges, layout and colours are left out.                                  *)
(***************************************************************************)
EXTENDS Requests

CONSTANTS
    Nodes,          \* ids of nodes
    Marks,          \* grades of nodes
    MockGraph,      \* the graph the page starts with
    LiveGraph,      \* what GET /api/graph and /expand answer
    Absent,         \* not in the graph
    Nobody          \* null

GraphData == [Nodes -> Marks \cup {Absent}]

ASSUME GraphAssumption ==
    /\ MockGraph \in GraphData
    /\ LiveGraph \in GraphData
    /\ Absent \notin Marks
    /\ {Nobody, "none", "seed"} \cap Nodes = {}

VARIABLES
    graph,          \* graphData
    loading,        \* the first GET /api/graph is under way
    expanding,      \* scan results whose expand call is under way
    focusId,        \* focusIdRef of the explorer
    camera,         \* node the camera flew to
    selectedId,     \* node whose panel was opened
    caseFile,       \* caseFileValue: the open case file
    dossier,        \* its data: the node it is about, or the seed case
    opening         \* its flight

explorer == <<focusId, camera, selectedId>>
caseVars == <<caseFile, dossier, opening>>
graphVars == <<graph, loading, expanding, explorer, caseVars>>

GraphTypeOK ==
    /\ graph \in GraphData
    /\ loading \in BOOLEAN
    /\ expanding \subseteq [target : Nodes, grade : Marks]
    /\ focusId \in Nodes \cup {Nobody}
    /\ camera \in Nodes \cup {Nobody}
    /\ selectedId \in Nodes \cup {Nobody}
    /\ caseFile \in Nodes \cup {Nobody}
    /\ dossier \in Nodes \cup {"none", "seed"}
    /\ opening \in Flights(Nodes)

GraphInit ==
    /\ graph = MockGraph
    /\ loading = TRUE
    /\ expanding = {}
    /\ focusId = Nobody
    /\ camera = Nobody
    /\ selectedId = Nobody
    /\ caseFile = Nobody
    /\ dossier = "none"
    /\ opening = {}

------------------------------------------------------------------------------
(* graphData *)

Has(g, n) == g[n] # Absent

\* nodeFromScan, as a graph of one node.
NodeFromScan(r) == [n \in Nodes |-> IF n = r.target THEN r.grade ELSE Absent]

\* Mutant: the graph that is added replaces the one there is.
MergeReplaces(base, add) == [n \in Nodes |-> IF base = add THEN base[n] ELSE add[n]]

\* A node the base has already stays as it is.
MergeGraph(base, add) == [n \in Nodes |-> IF Has(base, n) THEN base[n] ELSE add[n]]

\* setGraphData: the effect on data draws the graph anew with a renderer whose
\* camera is at rest.  The effect on focusId does not run.
Redraw(g) ==
    /\ graph' = g
    /\ camera' = Nobody
    /\ UNCHANGED <<focusId, selectedId>>

\* A graph without nodes or edges does not replace the mock.
GraphLoads(ok) ==
    /\ loading
    /\ loading' = FALSE
    /\ IF ok THEN Redraw(LiveGraph) ELSE UNCHANGED <<graph, explorer>>
    /\ UNCHANGED <<expanding, caseVars>>

\* handleResult up to its await.  The explorer is given the new focusId while
\* it still draws the graph without the scanned node.
FocusEffect(n) ==
    /\ focusId' = n
    /\ camera' = IF focusId # n /\ Has(graph, n) THEN n ELSE camera
    /\ UNCHANGED selectedId

HandleResult(r) ==
    /\ expanding' = expanding \cup {r}
    /\ FocusEffect(r.target)
    /\ UNCHANGED <<graph, loading, caseVars>>

\* Mutant: a failed expand adds nothing.
ExpandOrNothing(r, ok) ==
    /\ r \in expanding
    /\ expanding' = expanding \ {r}
    /\ Redraw(IF ok THEN MergeGraph(graph, MergeGraph(NodeFromScan(r), LiveGraph)) ELSE graph)
    /\ UNCHANGED <<loading, caseVars>>

\* The rest of handleResult: the scanned node joins in any case, into the graph
\* of now.
ExpandReturns(r, ok) ==
    /\ r \in expanding
    /\ expanding' = expanding \ {r}
    /\ Redraw(MergeGraph(graph, IF ok THEN MergeGraph(NodeFromScan(r), LiveGraph)
                                     ELSE NodeFromScan(r)))
    /\ UNCHANGED <<loading, caseVars>>

------------------------------------------------------------------------------
(* Nodes and case files.  The overlay covers the graph while it is open. *)

Select(n) ==
    /\ selectedId # n
    /\ selectedId' = n
    /\ n # Nobody => Has(graph, n)
    /\ UNCHANGED <<graph, loading, expanding, focusId, camera, caseVars>>

\* The panel of a node that has left the graph is not shown.
PanelOf == IF selectedId # Nobody /\ Has(graph, selectedId) THEN selectedId ELSE Nobody

\* It shows the node with its grade, and the button of the case file.
NodePanel == [node |-> PanelOf, grade |-> IF PanelOf = Nobody THEN Absent ELSE graph[PanelOf]]

OpenCaseFile ==
    /\ NodePanel.node # Nobody
    /\ caseFile' = NodePanel.node
    /\ dossier' = "none"
    /\ opening' = Ask(opening, NodePanel.node)
    /\ UNCHANGED <<graph, loading, expanding, explorer>>

\* A failure and an empty case give the seed case.
CaseArrives(q, found) ==
    /\ q \in opening
    /\ opening' = opening \ {q}
    /\ dossier' = IF ~q.live THEN dossier ELSE IF found THEN q.key ELSE "seed"
    /\ UNCHANGED <<graph, loading, expanding, explorer, caseFile>>

CloseCaseFile ==
    /\ caseFile # Nobody
    /\ caseFile' = Nobody
    /\ dossier' = "none"
    /\ opening' = Cancel(opening)
    /\ UNCHANGED <<graph, loading, expanding, explorer>>

ExplorerNext ==
    \/ \E ok \in BOOLEAN : GraphLoads(ok)
    \/ \E r \in expanding, ok \in BOOLEAN : ExpandReturns(r, ok)
    \/ \E q \in opening, found \in BOOLEAN : CaseArrives(q, found)
    \/ CloseCaseFile

CaseView ==
    IF caseFile = Nobody THEN "closed"
    ELSE IF dossier = "none" THEN "decrypting" ELSE "dossier"

\* The dossier that is laid out: of a node, or the seed case.
DossierView == IF CaseView = "dossier" THEN dossier ELSE "none"
==============================================================================
