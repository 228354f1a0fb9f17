------------------------------- MODULE AdminDesk ------------------------------
(***************************************************************************)
(* The moderation table of apps/web (AdminDashboard): it starts with seed   *)
(* rows, the reports of the gateway replace them, and a decision is shown   *)
(* before the gateway has it and rolled back when it fails.                 *)
(***************************************************************************)
EXTENDS Naturals, FiniteSets

CONSTANTS
    SeedIds,        \* ids of the rows the table starts with
    LiveIds,        \* ids of the gateway's reports; some may be ids of seed rows
    FallbackIds,    \* ids the gateway answers with when its query fails
    MaxDecisions,   \* bound: decisions made
    NoRow           \* no row of this id; null

ASSUME DeskAssumption ==
    /\ LiveIds # {} /\ LiveIds # SeedIds
    /\ NoRow \notin {"confirmed", "rejected", "pending"}
    /\ MaxDecisions \in Nat

Ids == SeedIds \cup LiveIds \cup FallbackIds
Decisions == {"confirmed", "rejected"}
Statuses == Decisions \cup {"pending"}
Tables == [Ids -> Statuses \cup {NoRow}]

Rows(ids) == [i \in Ids |-> IF i \in ids THEN "pending" ELSE NoRow]
Fallback == [i \in Ids |-> IF i \in FallbackIds THEN "confirmed" ELSE NoRow]

VARIABLES
    reports,        \* the table: the status of each row
    loadingReports, \* GET /api/reports: asked, read by the gateway, or over
    loaded,         \* the reports it read
    pendingId,      \* row of the last decision under way
    posts,          \* decisions on their way, each with its snapshot
    gatewayReports, \* the reports of the gateway
    decisions,      \* decisions made so far
    crossed         \* a decision met another, the first load, or a lost answer, or
                    \* the gateway answered although its database failed

deskVars ==
    <<reports, loadingReports, loaded, pendingId, posts, gatewayReports, decisions, crossed>>

Posts ==
    [id : Ids, status : Decisions, snapshot : Tables,
     phase : {"sent", "accepted", "failed"}]

DeskTypeOK ==
    /\ reports \in Tables
    /\ loadingReports \in {"asked", "read", "over"}
    /\ loaded \in Tables
    /\ pendingId \in Ids \cup {NoRow}
    /\ posts \subseteq Posts
    /\ gatewayReports \in [LiveIds -> Statuses]
    /\ decisions \in 0 .. MaxDecisions
    /\ crossed \in BOOLEAN

DeskInit ==
    /\ reports = Rows(SeedIds)
    /\ loadingReports = "asked"
    /\ loaded = Rows({})
    /\ pendingId = NoRow
    /\ posts = {}
    /\ gatewayReports = [i \in LiveIds |-> "pending"]
    /\ decisions = 0
    /\ crossed = FALSE

Stored == [i \in Ids |-> IF i \in LiveIds THEN gatewayReports[i] ELSE NoRow]

IdsShown == {i \in Ids : reports[i] # NoRow}

------------------------------------------------------------------------------
(* The first load *)

ReportsRead(answers) ==
    /\ loadingReports = "asked"
    /\ loadingReports' = "read"
    /\ loaded' = IF answers THEN Stored ELSE Fallback
    /\ crossed' = (crossed \/ ~answers)
    /\ UNCHANGED <<reports, pendingId, posts, gatewayReports, decisions>>

\* A failure keeps the seed rows.
ReportsArrive(ok) ==
    /\ loadingReports # "over"
    /\ ok => loadingReports = "read"
    /\ reports' = IF ok THEN loaded ELSE reports
    /\ loadingReports' = "over"
    /\ loaded' = Rows({})
    /\ UNCHANGED <<pendingId, posts, gatewayReports, decisions, crossed>>

------------------------------------------------------------------------------
(* moderate *)

\* Only the buttons of the last row decided on are disabled.
Moderate(id, status) ==
    /\ reports[id] \notin {NoRow, status}
    /\ pendingId # id
    /\ decisions < MaxDecisions
    /\ decisions' = decisions + 1
    /\ posts' = posts \cup
         {[id |-> id, status |-> status, snapshot |-> reports, phase |-> "sent"]}
    /\ pendingId' = id
    /\ reports' = [reports EXCEPT ![id] = status]
    /\ crossed' = (crossed \/ posts # {} \/ loadingReports # "over")
    /\ UNCHANGED <<loadingReports, loaded, gatewayReports>>

\* The gateway updates a report of its own; an update of no row, or one that
\* fails, is answered as if it had been made.
GatewayDecides(p, outcome) ==
    /\ p \in posts /\ p.phase = "sent"
    /\ gatewayReports' = IF outcome = "updated" /\ p.id \in LiveIds
                           THEN [gatewayReports EXCEPT ![p.id] = p.status]
                           ELSE gatewayReports
    /\ posts' = (posts \ {p}) \cup
         {[p EXCEPT !.phase = IF outcome = "unreached" THEN "failed" ELSE "accepted"]}
    /\ crossed' = (crossed \/ outcome = "swallowed")
    /\ UNCHANGED <<reports, loadingReports, loaded, pendingId, decisions>>

\* The answer of a decision the gateway took does not arrive.
AnswerLost(p) ==
    /\ p \in posts /\ p.phase = "accepted"
    /\ posts' = (posts \ {p}) \cup {[p EXCEPT !.phase = "failed"]}
    /\ crossed' = TRUE
    /\ UNCHANGED <<reports, loadingReports, loaded, pendingId, gatewayReports, decisions>>

\* Mutant: nothing is rolled back.
NoRollback(p) ==
    /\ p \in posts /\ p.phase # "sent"
    /\ posts' = posts \ {p}
    /\ pendingId' = NoRow
    /\ UNCHANGED <<reports, loadingReports, loaded, gatewayReports, decisions, crossed>>

\* A failure puts back the whole table as it was before the decision.
PostReturns(p) ==
    /\ p \in posts /\ p.phase # "sent"
    /\ posts' = posts \ {p}
    /\ pendingId' = NoRow
    /\ reports' = IF p.phase = "failed" THEN p.snapshot
                  ELSE IF reports[p.id] = NoRow THEN reports
                  ELSE [reports EXCEPT ![p.id] = p.status]
    /\ UNCHANGED <<loadingReports, loaded, gatewayReports, decisions, crossed>>

DeskNext ==
    \/ \E ok \in BOOLEAN : ReportsRead(ok) \/ ReportsArrive(ok)
    \/ \E id \in Ids, status \in Decisions : Moderate(id, status)
    \/ \E p \in posts, o \in {"updated", "swallowed", "unreached"} : GatewayDecides(p, o)
    \/ \E p \in posts : AnswerLost(p) \/ PostReturns(p)
==============================================================================
