------------------------------- MODULE SidePanel ------------------------------
(***************************************************************************)
(* The side panel of apps/extension: it analyses the site of the active tab *)
(* or the target of the context menu, at once, when a target is stored and  *)
(* when the user asks again.  Nothing holds one analysis back while another *)
(* is under way, and the value shown is a variable of the panel.            *)
(***************************************************************************)
EXTENDS ExtensionStore

CONSTANTS
    MaxRuns,        \* bound: analyses under way
    MaxTargets      \* bound: targets chosen in the context menu

ASSUME PanelAssumption == MaxRuns \in Nat /\ MaxTargets \in Nat /\ None \notin Hosts

VARIABLES
    activeTab,      \* the site of the active tab, or None
    pending,        \* storage.session: pendingCheck, and whether it is recent
    writes,         \* targets whose storing is under way
    targetNotices,  \* onChanged events of pendingCheck under way
    panelOpen,
    runs,           \* analyses under way: where they stand, and what with
    currentValue,
    verdict,        \* what the panel shows: of which value, and who judged
    overlapped,     \* history: two analyses were under way at once
    targets

panelVars == <<activeTab, pending, writes, targetNotices, panelOpen, runs, currentValue,
               verdict, overlapped, targets>>

RunSteps == {"pending", "tab", "check", "local"}
Values == Hosts \cup {None}
Blank == [of |-> None, by |-> "none"]

PanelTypeOK ==
    /\ activeTab \in Values
    /\ pending \in [value : Values, recent : BOOLEAN]
    /\ writes \in Seq(Hosts)
    /\ targetNotices \in 0 .. MaxTargets
    /\ panelOpen \in BOOLEAN
    /\ \A r \in runs : r.id \in 1 .. MaxRuns /\ r.step \in RunSteps /\ r.value \in Values
    /\ \A r, q \in runs : r.id = q.id => r = q
    /\ currentValue \in Values
    /\ verdict \in [of : Values, by : {"none", "gateway", "local"}]
    /\ overlapped \in BOOLEAN
    /\ targets \in 0 .. MaxTargets

PanelInit ==
    /\ activeTab \in Values
    /\ pending = [value |-> None, recent |-> FALSE]
    /\ writes = <<>>
    /\ targetNotices = 0
    /\ panelOpen = FALSE
    /\ runs = {}
    /\ currentValue = None
    /\ verdict = Blank
    /\ overlapped = FALSE
    /\ targets = 0

Kept == <<storeVars, activeTab, pending, writes, targetNotices, panelOpen, targets>>

\* analyze: it asks the background worker for a target.
Analyze ==
    /\ \E i \in 1 .. MaxRuns :
         /\ \A r \in runs : r.id # i
         /\ runs' = runs \cup {[id |-> i, step |-> "pending", value |-> None]}
    /\ overlapped' = (overlapped \/ runs # {})
    /\ UNCHANGED <<currentValue, verdict>>

Recheck ==
    /\ panelOpen
    /\ Analyze
    /\ UNCHANGED Kept

\* A target of the context menu: its storing is not waited for, and the panel
\* opens, if it is not open.
OpenDetailFor(v) ==
    /\ targets < MaxTargets
    /\ targets' = targets + 1
    /\ writes' = Append(writes, v)
    /\ panelOpen' = TRUE
    /\ IF panelOpen
         THEN UNCHANGED <<runs, overlapped, currentValue, verdict>>
         ELSE Analyze
    /\ UNCHANGED <<storeVars, activeTab, pending, targetNotices>>

\* From the popup.
OpenPanel ==
    /\ ~panelOpen
    /\ panelOpen' = TRUE
    /\ Analyze
    /\ UNCHANGED <<storeVars, activeTab, pending, writes, targetNotices, targets>>

TargetStored ==
    /\ writes # <<>>
    /\ pending' = [value |-> Head(writes), recent |-> TRUE]
    /\ writes' = Tail(writes)
    /\ targetNotices' = IF panelOpen THEN targetNotices + 1 ELSE targetNotices
    /\ UNCHANGED <<storeVars, activeTab, panelOpen, runs, currentValue, verdict, overlapped,
                   targets>>

TargetNoticed ==
    /\ targetNotices > 0
    /\ targetNotices' = targetNotices - 1
    /\ Analyze
    /\ UNCHANGED <<storeVars, activeTab, pending, writes, panelOpen, targets>>

\* 15 s pass.
TargetAges ==
    /\ pending.recent
    /\ pending' = [pending EXCEPT !.recent = FALSE]
    /\ UNCHANGED <<storeVars, activeTab, writes, targetNotices, panelOpen, runs, currentValue,
                   verdict, overlapped, targets>>

TabChanges(v) ==
    /\ v # activeTab
    /\ activeTab' = v
    /\ UNCHANGED <<storeVars, pending, writes, targetNotices, panelOpen, runs, currentValue,
                   verdict, overlapped, targets>>

Goes(r, step, value) ==
    runs' = (runs \ {r}) \cup {[r EXCEPT !.step = step, !.value = value]}

\* The target is known: its host is shown, and the gateway is asked.
Show(r, value) ==
    /\ currentValue' = value
    /\ verdict' = Blank
    /\ IF value = None THEN runs' = runs \ {r} ELSE Goes(r, "check", value)

\* resolveTarget: a recent target ...
PendingAnswers(r) ==
    /\ r \in runs /\ r.step = "pending"
    /\ IF pending.recent
         THEN Show(r, pending.value)
         ELSE Goes(r, "tab", None) /\ UNCHANGED <<currentValue, verdict>>
    /\ UNCHANGED <<Kept, overlapped>>

\* ... or the site of the tab.
TabAnswers(r) ==
    /\ r \in runs /\ r.step = "tab"
    /\ Show(r, activeTab)
    /\ UNCHANGED <<Kept, overlapped>>

\* The gateway answers: what is rendered is the verdict on the value asked.
GatewayJudges(r) ==
    /\ r \in runs /\ r.step = "check"
    /\ runs' = runs \ {r}
    /\ verdict' = [of |-> r.value, by |-> "gateway"]
    /\ UNCHANGED <<Kept, overlapped, currentValue>>

\* It fails, or does not answer in time: the local list is read.
GatewayFails(r) ==
    /\ r \in runs /\ r.step = "check"
    /\ Goes(r, "local", r.value)
    /\ UNCHANGED <<Kept, overlapped, currentValue, verdict>>

\* Mutant: the value that was asked is assessed.
JudgesAsked(r) ==
    /\ r \in runs /\ r.step = "local"
    /\ runs' = runs \ {r}
    /\ verdict' = [of |-> r.value, by |-> "local"]
    /\ UNCHANGED <<Kept, overlapped, currentValue>>

\* The value shown at that moment is assessed.
LocalJudges(r) ==
    /\ r \in runs /\ r.step = "local"
    /\ runs' = runs \ {r}
    /\ verdict' = [of |-> currentValue, by |-> "local"]
    /\ UNCHANGED <<Kept, overlapped, currentValue>>

PanelAnswers(r) ==
    PendingAnswers(r) \/ TabAnswers(r) \/ GatewayJudges(r) \/ GatewayFails(r) \/ LocalJudges(r)

PanelNext ==
    \/ Recheck \/ OpenPanel \/ TargetStored \/ TargetNoticed \/ TargetAges
    \/ \E v \in Hosts : OpenDetailFor(v)
    \/ \E v \in Values : TabChanges(v)
    \/ \E r \in runs : PanelAnswers(r)
==============================================================================
