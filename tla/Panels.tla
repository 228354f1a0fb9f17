-------------------------------- MODULE Panels --------------------------------
(***************************************************************************)
(* The panels of apps/web that poll the gateway: StatsBar, Observatory,     *)
(* TrendStrip, DataSourcesPanel and the alerts of WatchlistPanel.  A panel   *)
(* starts with seed data; polls are not ordered, so an older answer may      *)
(* arrive after a newer one.  Data is its version; StatsBar eases the        *)
(* figures it shows towards the last answer.                                *)
(***************************************************************************)
EXTENDS Integers, Sequences

CONSTANTS
    PanelNames,     \* the panels
    KeepLast,       \* panels that keep their data when a poll fails
    Figures,        \* the figure the gateway answers with, version by version
    SeedFigure,     \* SEED: the figure before the first answer
    MaxOverlap,     \* bound: polls of a panel on their way
    MaxFails        \* bound: polls that fail

Versions == DOMAIN Figures

ASSUME PanelsAssumption ==
    /\ "stats" \in PanelNames /\ KeepLast \subseteq PanelNames
    /\ Figures \in Seq(Nat) /\ Figures # << >>
    /\ SeedFigure \in Nat
    /\ MaxOverlap \in Nat \ {0}
    /\ MaxFails \in Nat

VARIABLES
    version,        \* version of the gateway's data
    data,           \* what each panel has: a version, or 0 for the seed
    polls,          \* polls on their way, with the version they read or 0
    shownFigure,    \* display of StatsBar
    fails,          \* polls that failed so far
    onPage          \* the panels are mounted

panelVars == <<version, data, polls, shownFigure, fails, onPage>>

PanelsTypeOK ==
    /\ version \in Versions
    /\ data \in [PanelNames -> Versions \cup {0}]
    /\ polls \subseteq [panel : PanelNames, n : 1 .. MaxOverlap, read : Versions \cup {0}]
    /\ shownFigure \in Nat
    /\ fails \in 0 .. MaxFails
    /\ onPage \in BOOLEAN

PanelsInit ==
    /\ version = 1
    /\ data = [p \in PanelNames |-> 0]
    /\ polls = {}
    /\ shownFigure = SeedFigure
    /\ fails = 0
    /\ onPage = TRUE

GatewayDataChanges ==
    /\ version + 1 \in Versions
    /\ version' = version + 1
    /\ UNCHANGED <<data, polls, shownFigure, fails, onPage>>

\* pull, when the panel appears and at each tick of its interval: it does not
\* wait for the poll before.
Pull(p) ==
    /\ onPage
    /\ \E n \in 1 .. MaxOverlap :
         /\ \A q \in polls : q.panel = p => q.n # n
         /\ polls' = polls \cup {[panel |-> p, n |-> n, read |-> 0]}
    /\ UNCHANGED <<version, data, shownFigure, fails, onPage>>

GatewayAnswers(q) ==
    /\ q \in polls /\ q.read = 0
    /\ polls' = (polls \ {q}) \cup {[q EXCEPT !.read = version]}
    /\ UNCHANGED <<version, data, shownFigure, fails, onPage>>

PollArrives(q) ==
    /\ q \in polls /\ q.read # 0
    /\ polls' = polls \ {q}
    /\ data' = [data EXCEPT ![q.panel] = q.read]
    /\ UNCHANGED <<version, shownFigure, fails, onPage>>

\* StatsBar keeps what it has, fetchJson gives the others their seed.
PollFails(q) ==
    /\ q \in polls /\ fails < MaxFails
    /\ fails' = fails + 1
    /\ polls' = polls \ {q}
    /\ data' = IF q.panel \in KeepLast THEN data ELSE [data EXCEPT ![q.panel] = 0]
    /\ UNCHANGED <<version, shownFigure, onPage>>

\* The cleanup of the effects: the timers stop, no answer is taken any more.
Unmount ==
    /\ onPage
    /\ onPage' = FALSE
    /\ polls' = {}
    /\ UNCHANGED <<version, data, shownFigure, fails>>

------------------------------------------------------------------------------
(* The figures of StatsBar *)

Target == IF data["stats"] = 0 THEN SeedFigure ELSE Figures[data["stats"]]

\* Mutant: a step of less than one is cut off as well.
ApproachCut(current, target) ==
    LET diff == target - current
        trunc == (18 * (IF diff < 0 THEN -diff ELSE diff)) \div 100 IN
      IF diff < 0 THEN current - trunc ELSE current + trunc

\* approach: 18 per cent of the way, towards zero, one at least.
Approach(current, target) ==
    LET diff == target - current
        trunc == (18 * (IF diff < 0 THEN -diff ELSE diff)) \div 100
        step == IF trunc = 0 THEN 1 ELSE trunc IN
      IF diff = 0 THEN target ELSE IF diff < 0 THEN current - step ELSE current + step

\* A frame of the animation; the effect on target starts it again.
Tick ==
    /\ onPage
    /\ shownFigure # Target
    /\ shownFigure' = Approach(shownFigure, Target)
    /\ UNCHANGED <<version, data, polls, fails, onPage>>

PanelsNext ==
    \/ GatewayDataChanges
    \/ \E p \in PanelNames : Pull(p)
    \/ \E q \in polls : GatewayAnswers(q) \/ PollArrives(q) \/ PollFails(q)
    \/ Unmount
    \/ Tick
==============================================================================
