------------------------------- MODULE Console --------------------------------
(***************************************************************************)
(* The scan console of apps/web and the panels CommandCenter mounts beside  *)
(* it: ScanConsole with AiSecondOpinion, AttributionCard, ActionGuide and   *)
(* ReportModal.  React runs the effects of a state change before it handles *)
(* the next event, so an action is a handler with the effects it sets off.  *)
(* The joint action with the graph is composed in Dashboard.                *)
(***************************************************************************)
EXTENDS Naturals, Sequences, Requests

CONSTANTS
    Targets,        \* what a user scans
    Grades,         \* grades a scan may return
    Actionable,     \* ACTIONABLE_GRADES
    KindOf,         \* kind of each target
    None            \* null

Results == [target : Targets, grade : Grades]

\* The inputs of the guidance: its effect has them as dependencies.
Situation(r) == [kind |-> KindOf[r.target], grade |-> r.grade]
Situations == {Situation(r) : r \in Results}

ASSUME ConsoleAssumption ==
    /\ Actionable \subseteq Grades
    /\ DOMAIN KindOf = Targets
    /\ None \notin Targets \cup Results \cup Situations

VARIABLES
    scanning,       \* target of the scan under way: the console is loading
    result,         \* result the console shows
    failed,         \* the last scan failed
    lastScan,       \* state of CommandCenter, read by the panels
    attribution,    \* data of AttributionCard: the target it is about
    attributing,    \* its flight
    guide,          \* data of ActionGuide: the situation it is about
    guiding,        \* its flight
    ai,             \* AiSecondOpinion
    open,           \* ReportModal is unfolded
    phase,          \* its phase
    reporting,      \* targets of the reports under way
    confirmed       \* target of the last report the gateway accepted

console == <<scanning, result, failed, lastScan>>
panels == <<attribution, attributing, guide, guiding>>
modal == <<open, phase, reporting, confirmed>>
consoleVars == <<console, panels, ai, modal>>

ConsoleTypeOK ==
    /\ scanning \in Targets \cup {None}
    /\ result \in Results \cup {None}
    /\ failed \in BOOLEAN
    /\ lastScan \in Results \cup {None}
    /\ attribution \in Targets \cup {None}
    /\ attributing \in Flights(Targets)
    /\ guide \in Situations \cup {None}
    /\ guiding \in Flights(Situations)
    /\ ai \in {"unmounted", "loading", "opinion", "unavailable"}
    /\ open \in BOOLEAN
    /\ phase \in {"idle", "sending", "done", "error"}
    /\ reporting \in Seq(Targets)
    /\ confirmed \in Targets \cup {None}
    /\ OneLive(attributing) /\ OneLive(guiding)

ConsoleInit ==
    /\ scanning = None
    /\ result = None
    /\ failed = FALSE
    /\ lastScan = None
    /\ attribution = None
    /\ attributing = {}
    /\ guide = None
    /\ guiding = {}
    /\ ai = "unmounted"
    /\ open = FALSE
    /\ phase = "idle"
    /\ reporting = << >>
    /\ confirmed = None

------------------------------------------------------------------------------
(* The scan *)

\* runScan up to its await: a click while a scan runs is ignored.  The result
\* panel and the opinion below it are unmounted.
RunScan(t) ==
    /\ scanning = None
    /\ scanning' = t
    /\ failed' = FALSE
    /\ ai' = "unmounted"
    /\ UNCHANGED <<result, lastScan, panels, modal>>

\* The effect of AttributionCard runs when the target changes.
AttributionEffect(r) ==
    /\ attributing' = IF lastScan # None /\ lastScan.target = r.target
                        THEN attributing
                        ELSE Ask(attributing, r.target)
    /\ UNCHANGED attribution

\* The effect of ActionGuide runs when the kind or the grade changes; data of
\* an earlier situation stays until an answer replaces it.
GuideEffect(r) ==
    IF lastScan # None /\ Situation(lastScan) = Situation(r)
      THEN UNCHANGED <<guide, guiding>>
      ELSE IF r.grade \in Actionable
        THEN guiding' = Ask(guiding, Situation(r)) /\ UNCHANGED guide
        ELSE guiding' = Cancel(guiding) /\ guide' = None

\* The continuation of runScan, with onResult and the effects it causes.
ScanReturns(r) ==
    /\ scanning = r.target
    /\ scanning' = None
    /\ result' = r
    /\ lastScan' = r
    /\ AttributionEffect(r)
    /\ GuideEffect(r)
    /\ ai' = "loading"
    /\ UNCHANGED <<failed, modal>>

ScanFails ==
    /\ scanning # None
    /\ scanning' = None
    /\ failed' = TRUE
    /\ result' = None
    /\ UNCHANGED <<lastScan, panels, ai, modal>>

------------------------------------------------------------------------------
(* Answers to the panels *)

\* Mutant: the card takes whatever answer arrives.
AttributionUnguarded(q, ok) ==
    /\ q \in attributing
    /\ attributing' = attributing \ {q}
    /\ attribution' = IF ok THEN q.key ELSE None
    /\ UNCHANGED <<console, guide, guiding, ai, modal>>

AttributionAnswers(q, ok) ==
    /\ q \in attributing
    /\ attributing' = attributing \ {q}
    /\ attribution' = IF ~q.live THEN attribution ELSE IF ok THEN q.key ELSE None
    /\ UNCHANGED <<console, guide, guiding, ai, modal>>

GuidanceAnswers(q, ok) ==
    /\ q \in guiding
    /\ guiding' = guiding \ {q}
    /\ guide' = IF ~q.live THEN guide ELSE IF ok THEN q.key ELSE None
    /\ UNCHANGED <<console, attribution, attributing, ai, modal>>

\* fetchJson turns every failure into available: false.
OpinionArrives ==
    /\ ai = "loading"
    /\ ai' \in {"opinion", "unavailable"}
    /\ UNCHANGED <<console, panels, modal>>

\* AbortSignal.timeout: fifty seconds are over.
OpinionTimesOut ==
    /\ ai = "loading"
    /\ ai' = "unavailable"
    /\ UNCHANGED <<console, panels, modal>>

------------------------------------------------------------------------------
(* The report modal.  It is mounted once, with the first scan, and is given *)
(* another target without a key: its state outlives the target.             *)

ToggleReport ==
    /\ lastScan # None
    /\ open' = ~open
    /\ UNCHANGED <<console, panels, ai, phase, reporting, confirmed>>

\* Mutant: a second click is sent as well.
SubmitTwice ==
    /\ open
    /\ phase # "done"
    /\ phase' = "sending"
    /\ reporting' = Append(reporting, lastScan.target)
    /\ UNCHANGED <<console, panels, ai, open, confirmed>>

\* The form is there unless the phase is done.
SubmitReport ==
    /\ open
    /\ phase \in {"idle", "error"}
    /\ phase' = "sending"
    /\ reporting' = Append(reporting, lastScan.target)
    /\ UNCHANGED <<console, panels, ai, open, confirmed>>

ReportReturns(ok) ==
    /\ reporting # << >>
    /\ reporting' = Tail(reporting)
    /\ phase' = IF ok THEN "done" ELSE "error"
    /\ confirmed' = IF ok THEN Head(reporting) ELSE confirmed
    /\ UNCHANGED <<console, panels, ai, open>>

PanelsNext ==
    \/ \E q \in attributing, ok \in BOOLEAN : AttributionAnswers(q, ok)
    \/ \E q \in guiding, ok \in BOOLEAN : GuidanceAnswers(q, ok)
    \/ OpinionArrives
    \/ OpinionTimesOut
    \/ \E ok \in BOOLEAN : ReportReturns(ok)

------------------------------------------------------------------------------
(* What is on the screen *)

ConsoleView ==
    IF scanning # None THEN "scanning"
    ELSE IF failed THEN "error"
    ELSE IF result # None THEN "result" ELSE "idle"

\* What the result panel shows.
ResultView == IF ConsoleView = "result" THEN result ELSE None

AttributionView ==
    IF lastScan = None THEN "nothing"
    ELSE IF Waiting(attributing) THEN "loading"
    ELSE IF attribution = None THEN "nothing" ELSE "card"

GuideView ==
    IF lastScan = None \/ lastScan.grade \notin Actionable \/ guide = None
      THEN "nothing"
      ELSE "guide"

ModalView ==
    IF ~open THEN "folded" ELSE IF phase = "done" THEN "confirmation" ELSE "form"
==============================================================================
