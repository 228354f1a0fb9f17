------------------------------ MODULE ReportFlow ------------------------------
(***************************************************************************)
(* POST /api/report of apps/gateway: ReportController.report and the        *)
(* defence it calls, ReportDefense.evaluate.  Every request runs on a       *)
(* virtual thread of its own and every JDBC statement commits by itself,    *)
(* so the requests interleave between any two statements.  A statement may  *)
(* fail; evaluate then answers with a fallback verdict, and the inserts of  *)
(* report swallow the error.                                                *)
(*                                                                          *)
(* A request adds at most one row to each table, so a row is named by the   *)
(* request that wrote it.  The moderation of rows, which changes a column   *)
(* nothing here reads, is left out.                                         *)
(***************************************************************************)
EXTENDS Integers, FiniteSets

CONSTANTS
    Requests,       \* POST /api/report requests
    Targets,        \* reported values
    Reporters,      \* reporter hashes
    Allowlist,      \* targets whose host is a known legitimate domain
    BURST_MAX_PER_WINDOW,
    MULTI_REPORT_THRESHOLD,
    DEDUP_WINDOW,   \* DEDUP_WINDOW_SECONDS, in ticks
    Failing,        \* what may fail: a subset of FaultKinds
    MaxFaults,      \* bound: number of such failures
    MaxInFlight,    \* bound: requests handled at once
    None            \* no value

\* Statements of evaluate, of independentCount, the insert into reports, the
\* graph, the gateway process.
FaultKinds == {"events", "count", "reports", "graph", "gateway"}

ASSUME RequestsAssumption == IsFiniteSet(Requests)
ASSUME PolicyAssumption ==
    /\ Allowlist \subseteq Targets
    /\ BURST_MAX_PER_WINDOW \in Nat
    /\ MULTI_REPORT_THRESHOLD \in Nat \ {0, 1}
    /\ DEDUP_WINDOW \in Nat \ {0}
ASSUME BoundAssumption ==
    /\ Failing \subseteq FaultKinds
    /\ MaxFaults \in Nat
    /\ MaxInFlight \in Nat

VARIABLES
    target,         \* per request: what it reports
    reporter,       \* and the hash of who sent it
    pc,             \* the statement it is about to run
    status,         \* status of its verdict
    independent,    \* independentCount of its verdict
    events,         \* rows of report_events
    age,            \* age of created_at of those rows
    reports,        \* rows of reports
    inGraph,        \* requests merged into Neo4j
    before,         \* history: per request, those that had ended when it arrived
    faults,         \* failures so far
    failed          \* history: requests and the statements of theirs that failed

vars == <<target, reporter, pc, status, independent, events, age, reports, inGraph,
          before, faults, failed>>

Evaluating == {"exists", "burst", "insert", "count"}
InFlight == Evaluating \cup {"reports", "graph"}
Ended == {"answered", "lost"}
Recording == {"reported", "review"}     \* verdicts of a new contribution

TypeOK ==
    /\ target \in [Requests -> Targets \cup {None}]
    /\ reporter \in [Requests -> Reporters \cup {None}]
    /\ pc \in [Requests -> {"new"} \cup InFlight \cup Ended]
    /\ status \in [Requests -> {"none", "throttled", "duplicate"} \cup Recording]
    /\ independent \in [Requests -> Nat]
    /\ events \subseteq Requests
    /\ age \in [Requests -> 0 .. DEDUP_WINDOW]
    /\ reports \subseteq Requests
    /\ inGraph \subseteq Requests
    /\ before \in [Requests -> SUBSET Requests]
    /\ faults \in 0 .. MaxFaults
    /\ failed \subseteq Requests \X FaultKinds
    /\ \A q \in Requests :
         /\ pc[q] # "new" => target[q] \in Targets /\ reporter[q] \in Reporters
         /\ pc[q] \notin {"new", "exists", "lost"} => status[q] # "none"

Init ==
    /\ target = [q \in Requests |-> None]
    /\ reporter = [q \in Requests |-> None]
    /\ pc = [q \in Requests |-> "new"]
    /\ status = [q \in Requests |-> "none"]
    /\ independent = [q \in Requests |-> 0]
    /\ events = {}
    /\ age = [q \in Requests |-> 0]
    /\ reports = {}
    /\ inGraph = {}
    /\ before = [q \in Requests |-> {}]
    /\ faults = 0
    /\ failed = {}

------------------------------------------------------------------------------
(* Helpers *)

Fault(kind) ==
    /\ kind \in Failing
    /\ faults < MaxFaults
    /\ faults' = faults + 1

\* A statement of q fails.
Fails(q, kind) == Fault(kind) /\ failed' = failed \cup {<<q, kind>>}

\* ok is the outcome of a statement whose exception the code swallows.
Outcome(q, ok, kind) == IF ok THEN UNCHANGED <<faults, failed>> ELSE Fails(q, kind)

Go(q, step) == pc' = [pc EXCEPT ![q] = step]

\* escalateToGraph sends the request on to the two inserts of report.
AfterVerdict(verdict) == IF verdict = "reported" THEN "reports" ELSE "answered"

Allowlisted(q) == target[q] \in Allowlist
SamePair(p, q) == target[p] = target[q] /\ reporter[p] = reporter[q]

\* Mutant: dedup looks only at the time window.
ExistsInWindow(q) == \E p \in events : SamePair(p, q) /\ age[p] < DEDUP_WINDOW

\* existsEver
Exists(q) == \E p \in events : SamePair(p, q)

RowsInWindow(h) == {p \in events : reporter[p] = h /\ age[p] < DEDUP_WINDOW}

Throttled(h) == Cardinality(RowsInWindow(h)) >= BURST_MAX_PER_WINDOW

\* COUNT(DISTINCT reporter_hash)
ReportersOf(t) == {reporter[p] : p \in {e \in events : target[e] = t}}

IndependentCount(t) == Cardinality(ReportersOf(t))

\* Mutant: the threshold is exclusive.
SignalAboveThreshold(q) == ~Allowlisted(q) /\ independent[q] > MULTI_REPORT_THRESHOLD

\* Mutant: the reporter is added to a count that already holds its row.
SignalCountsItselfTwice(q) ==
    ~Allowlisted(q) /\ independent[q] + 1 >= MULTI_REPORT_THRESHOLD

\* The verdict carries the signal of many reports.
Signal(q) == ~Allowlisted(q) /\ independent[q] >= MULTI_REPORT_THRESHOLD

------------------------------------------------------------------------------
(* A request *)

Arrive(q) ==
    /\ pc[q] = "new"
    /\ Cardinality({p \in Requests : pc[p] \in InFlight}) < MaxInFlight
    /\ \E t \in Targets, h \in Reporters :
         /\ target' = [target EXCEPT ![q] = t]
         /\ reporter' = [reporter EXCEPT ![q] = h]
    /\ before' = [before EXCEPT ![q] = {p \in Requests : pc[p] \in Ended}]
    /\ Go(q, "exists")
    /\ UNCHANGED <<status, independent, events, age, reports, inGraph, faults, failed>>

ExistsEver(q) ==
    /\ pc[q] = "exists"
    /\ status' = [status EXCEPT ![q] = IF Exists(q) THEN "duplicate"
                                       ELSE IF Allowlisted(q) THEN "review"
                                       ELSE "reported"]
    /\ Go(q, "burst")
    /\ UNCHANGED <<target, reporter, independent, events, age, reports, inGraph, before,
                   faults, failed>>

BurstCount(q) ==
    /\ pc[q] = "burst"
    /\ status' = IF Throttled(reporter[q]) THEN [status EXCEPT ![q] = "throttled"] ELSE status
    /\ Go(q, "insert")
    /\ UNCHANGED <<target, reporter, independent, events, age, reports, inGraph, before,
                   faults, failed>>

\* Only a new contribution gets a row.
InsertEvent(q) ==
    /\ pc[q] = "insert"
    /\ events' = IF status[q] \in Recording THEN events \cup {q} ELSE events
    /\ Go(q, "count")
    /\ UNCHANGED <<target, reporter, status, independent, age, reports, inGraph, before,
                   faults, failed>>

\* Mutant: only the first report of a target goes on to reports.
CountFirstOnly(q) ==
    /\ pc[q] = "count"
    /\ \E ok \in BOOLEAN :
         /\ Outcome(q, ok, "count")
         /\ independent' = [independent EXCEPT ![q] =
                              IF ok THEN IndependentCount(target[q]) ELSE 0]
    /\ Go(q, IF independent'[q] = 1 THEN AfterVerdict(status[q]) ELSE "answered")
    /\ UNCHANGED <<target, reporter, status, events, age, reports, inGraph, before>>

\* independentCount answers 0 when its query fails.
CountIndependent(q) ==
    /\ pc[q] = "count"
    /\ \E ok \in BOOLEAN :
         /\ Outcome(q, ok, "count")
         /\ independent' = [independent EXCEPT ![q] =
                              IF ok THEN IndependentCount(target[q]) ELSE 0]
    /\ Go(q, AfterVerdict(status[q]))
    /\ UNCHANGED <<target, reporter, status, events, age, reports, inGraph, before>>

\* Mutant: the fallback verdict escalates whatever the target is.
FallbackForAll(q) == IF q \in Requests THEN "reported" ELSE "review"

FallbackStatus(q) == IF Allowlisted(q) THEN "review" ELSE "reported"

\* Mutant: the exception leaves the verdict empty.
EvaluateGivesUp(q) ==
    /\ pc[q] \in Evaluating \ {"count"}
    /\ Fails(q, "events")
    /\ Go(q, "answered")
    /\ UNCHANGED <<target, reporter, status, independent, events, age, reports, inGraph,
                   before>>

\* A statement of evaluate fails: the fallback verdict.  The failed insert may
\* have been committed.
EvaluateFails(q) ==
    /\ pc[q] \in Evaluating \ {"count"}
    /\ pc[q] = "insert" => status[q] \in Recording
    /\ Fails(q, "events")
    /\ \E committed \in BOOLEAN :
         events' = IF committed /\ pc[q] = "insert" THEN events \cup {q} ELSE events
    /\ status' = [status EXCEPT ![q] = FallbackStatus(q)]
    /\ independent' = [independent EXCEPT ![q] = 1]
    /\ Go(q, AfterVerdict(FallbackStatus(q)))
    /\ UNCHANGED <<target, reporter, age, reports, inGraph, before>>

SaveReport(q) ==
    /\ pc[q] = "reports"
    /\ \E ok \in BOOLEAN :
         /\ Outcome(q, ok, "reports")
         /\ reports' = IF ok THEN reports \cup {q} ELSE reports
    /\ Go(q, "graph")
    /\ UNCHANGED <<target, reporter, status, independent, events, age, inGraph, before>>

MergeGraph(q) ==
    /\ pc[q] = "graph"
    /\ \E ok \in BOOLEAN :
         /\ Outcome(q, ok, "graph")
         /\ inGraph' = IF ok THEN inGraph \cup {q} ELSE inGraph
    /\ Go(q, "answered")
    /\ UNCHANGED <<target, reporter, status, independent, events, age, reports, before>>

------------------------------------------------------------------------------
(* The environment *)

\* The gateway stops: the requests it was handling get no answer.
GatewayDies ==
    /\ \E q \in Requests : pc[q] \in InFlight
    /\ Fault("gateway")
    /\ pc' = [q \in Requests |-> IF pc[q] \in InFlight THEN "lost" ELSE pc[q]]
    /\ UNCHANGED <<target, reporter, status, independent, events, age, reports, inGraph,
                   before, failed>>

\* The rows of report_events grow older.
Tick ==
    /\ age' = [q \in Requests |-> IF q \in events /\ age[q] < DEDUP_WINDOW
                                    THEN age[q] + 1
                                    ELSE age[q]]
    /\ UNCHANGED <<target, reporter, pc, status, independent, events, reports, inGraph,
                   before, faults, failed>>

Evaluate(q) ==
    \/ ExistsEver(q)
    \/ BurstCount(q)
    \/ InsertEvent(q)
    \/ CountIndependent(q)
    \/ EvaluateFails(q)

Next ==
    \/ \E q \in Requests : Arrive(q) \/ Evaluate(q) \/ SaveReport(q) \/ MergeGraph(q)
    \/ GatewayDies
    \/ Tick

Spec == Init /\ [][Next]_vars

------------------------------------------------------------------------------
(* GET /api/check *)

Grades == {"unknown", "safe", "caution", "warning", "danger"}

\* Mutant: only a single report raises the grade below the danger threshold.
GradeOnlyAtOne(rules, linked, count, listed) ==
    IF listed \/ linked \/ count >= 3 THEN "danger"
    ELSE IF count = 1 /\ rules \in {"safe", "unknown", "caution"} THEN "warning"
    ELSE rules

\* The grade from the engine's rule grade, a known organisation behind the
\* value, the rows of reports and a hit in the blocklist.
GradeOf(rules, linked, count, listed) ==
    IF listed \/ linked \/ count >= 3 THEN "danger"
    ELSE IF count >= 1 /\ rules \in {"safe", "unknown", "caution"} THEN "warning"
    ELSE rules

ReportCount(t) == Cardinality({q \in reports : target[q] = t})

\* What check answers for t.  It goes on without a source that fails: rules is then
\* "unknown", linked or listed FALSE, and without the COUNT there are 0 reports.
CheckGrade(t, rules, linked, listed, counted) ==
    GradeOf(rules, linked, IF counted THEN ReportCount(t) ELSE 0, listed)

------------------------------------------------------------------------------
(* Properties *)

\* Whatever fails, a report of an allowlisted target reaches neither the table
\* the grade is computed from nor the graph.
AllowlistProtected ==
    \A q \in reports \cup inGraph : ~Allowlisted(q)

\* A reporter who repeats a report after the first one was answered, or lost
\* with the process, gets no second row in report_events, however old the first
\* row is: two rows of a pair come only from requests that overlapped.
RepeatIsRejected ==
    \A p, q \in events : p # q /\ SamePair(p, q) => p \notin before[q]

\* The burst limit holds for everything a reporter had finished before: a row is
\* never the (max + 1)-th of its window among rows of ended requests.
BurstIsBounded ==
    \A q \in events :
      Cardinality(RowsInWindow(reporter[q]) \cap before[q]) < BURST_MAX_PER_WINDOW

\* What the rows of one reporter are limited to: one per target, and so many per
\* window, by everything that had ended before.
ReporterIsLimited == RepeatIsRejected /\ BurstIsBounded

\* The signal is never raised for fewer distinct reporters than the policy asks.
SignalIsTrue ==
    \A q \in Requests :
      pc[q] \in {"reports", "graph", "answered"} /\ Signal(q)
        => IndependentCount(target[q]) >= MULTI_REPORT_THRESHOLD

\* When enough independent reports of a target were answered, in whatever order
\* their statements interleaved, and evaluate failed for none of them, at least
\* one of the answers carried the signal.
SignalNotLost ==
    \A t \in Targets \ Allowlist :
      LET done == {q \in events : target[q] = t /\ pc[q] = "answered"}
      IN  /\ Cardinality({reporter[q] : q \in done}) >= MULTI_REPORT_THRESHOLD
          /\ failed \cap (done \X {"events", "count"}) = {}
          => \E q \in done : Signal(q)

\* A reporter told "reported" counts in the grade, unless the insert of that very
\* request failed: no other failure, repeat or limit takes the row away.
AnsweredReportCounts ==
    \A q \in Requests :
      pc[q] = "answered" /\ status[q] = "reported"
        => q \in reports \/ <<q, "reports">> \in failed

\* Each row of t passed the defence, and no two of one reporter overlapped.
Defended(t) ==
    \A q \in reports : target[q] = t =>
      /\ <<q, "events">> \notin failed
      /\ \A p \in reports \ {q} : SamePair(p, q) => p \in before[q] \/ q \in before[p]

\* Whichever of its sources check misses: reports alone make a value "danger" only
\* when the defence, which counts in another table, has three independent reporters
\* of it, and they never change the grade of an allowlisted value.
GradeIsEarned ==
    \A t \in Targets, rules \in Grades \ {"danger"}, counted \in BOOLEAN :
      LET grade == CheckGrade(t, rules, FALSE, FALSE, counted)
      IN  /\ grade = "danger" /\ Defended(t) => IndependentCount(t) >= 3
          /\ t \in Allowlist => grade = rules

\* Reporters of t who were told "reported" and whose insert did not fail.
ReportersTold(t) ==
    {reporter[q] : q \in {p \in Requests :
       target[p] = t /\ pc[p] = "answered" /\ status[p] = "reported"
         /\ <<p, "reports">> \notin failed}}

\* Conversely, one such reporter is a warning and three are a danger in every check
\* whose COUNT answers, whatever its other sources say or fail to say.
GradeCountsReporters ==
    \A t \in Targets : ReportersTold(t) # {} =>
      \A rules \in Grades, linked, listed \in BOOLEAN :
        LET grade == CheckGrade(t, rules, linked, listed, TRUE)
        IN  /\ grade \in {"warning", "danger"}
            /\ Cardinality(ReportersTold(t)) >= 3 => grade = "danger"

\* The grade of a check follows the independent reporters: it is raised for no fewer,
\* and by all of them.
GradeFollowsReporters == GradeIsEarned /\ GradeCountsReporters

------------------------------------------------------------------------------
(* What a comment says and the code does not do *)

\* ReportDefense.java:18: the rows of reports are as many as the reporters,
\* "however often one repeats, 1".
RepeatCountsOnce ==
    \A p, q \in reports : SamePair(p, q) => p = q
==============================================================================
