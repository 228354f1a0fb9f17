---------------------------- MODULE CrawlDiscovery ----------------------------
(***************************************************************************)
(* The autonomous discovery crawler of apps/engine: Celery worker          *)
(* processes that ingest feeds, back-fill the blocklist backlog, claim     *)
(* hosts in the Postgres table crawl_state, put a task per claimed host on *)
(* the broker, crawl, and record the crawl.                                *)
(*                                                                         *)
(* Every crawl_state transaction starts with _ensure, whose CREATE INDEX   *)
(* IF NOT EXISTS takes a SHARE lock on the table and keeps it to the end   *)
(* of the transaction; its INSERT then needs ROW EXCLUSIVE, which          *)
(* conflicts with the SHARE lock of every other open transaction.  The     *)
(* module models these two locks and Postgres' deadlock detector.          *)
(*                                                                         *)
(* Timestamps are kept as ages (module ClaimRegister).  last_grade,        *)
(* last_score and crawl_count are data no property tells apart.            *)
(***************************************************************************)
EXTENDS Integers, FiniteSets, ClaimRegister

CONSTANTS
    Workers,        \* prefork processes of the Celery worker
    FEED_CAP,       \* most hosts one feed cycle may claim
    BACKFILL_BATCH, \* most hosts one back-fill cycle may claim
    Failing,        \* what may fail: a subset of FaultKinds
    MaxFaults,      \* bound: number of such failures
    MaxQueued       \* bound: no dispatch starts while a host has this many tasks queued

ASSUME CapAssumption == FEED_CAP \in Nat /\ BACKFILL_BATCH \in Nat
ASSUME BoundAssumption == MaxFaults \in Nat /\ MaxQueued \in Nat

\* Postgres under crawl_state, blocklist or scans; Neo4j; Redis; a worker process.
FaultKinds == {"rows", "blocklist", "history", "graph", "broker", "process"}
ASSUME FailingAssumption == Failing \subseteq FaultKinds

VARIABLES
    blocklist,  \* hosts listed in the blocklist table
    queued,     \* number of crawl_discovered tasks on the broker, per host
    inGraph,    \* hosts whose crawl result was merged into Neo4j
    inHistory,  \* hosts with a row in scans
    pc,         \* what each worker process is doing
    op,         \* the task it runs
    hosts,      \* the hosts the task is working on
    faults      \* failures so far

stores == <<blocklist, queued, inGraph, inHistory>>
vars == <<rows, stores, pc, op, hosts, faults>>

\* pc: crawl -> graph -> history are the steps of _run_crawl before
\* mark_crawled; ensure: about to take SHARE; write: holds SHARE, wants ROW
\* EXCLUSIVE; upsert: holds both, the SELECT of the CTE is done; enqueue:
\* committed, sending the claimed hosts.
Phases == {"idle", "crawl", "graph", "history", "ensure", "write", "upsert", "enqueue"}
Claiming == {"feed", "backfill"}        \* ingest_feeds, backfill_crawl
Crawling == {"crawl", "scan"}           \* crawl_discovered, scan_target

TypeOK ==
    /\ RegisterTypeOK
    /\ blocklist \subseteq Hosts
    /\ queued \in [Hosts -> Nat]
    /\ inGraph \subseteq Hosts
    /\ inHistory \subseteq Hosts
    /\ pc \in [Workers -> Phases]
    /\ op \in [Workers -> {"none"} \cup Claiming \cup Crawling]
    /\ hosts \in [Workers -> SUBSET Hosts]
    /\ faults \in 0 .. MaxFaults

Init ==
    /\ RegisterInit
    /\ blocklist \in SUBSET Hosts       \* init.sql seeds the table
    /\ queued = [h \in Hosts |-> 0]
    /\ inGraph = {}
    /\ inHistory = {}
    /\ pc = [w \in Workers |-> "idle"]
    /\ op = [w \in Workers |-> "none"]
    /\ hosts = [w \in Workers |-> {}]
    /\ faults = 0

------------------------------------------------------------------------------
(* Helpers *)

\* One more failure; the bound on failures is a guard of every fault.
Fault(kind) ==
    /\ kind \in Failing
    /\ faults < MaxFaults
    /\ faults' = faults + 1

\* ok is the outcome of a step whose exception the code swallows.
Outcome(ok, kind) == IF ok THEN UNCHANGED faults ELSE Fault(kind)

Move(w, phase) == pc' = [pc EXCEPT ![w] = phase]

Begin(w, task, phase, hs) ==
    /\ pc[w] = "idle"
    /\ Move(w, phase)
    /\ op' = [op EXCEPT ![w] = task]
    /\ hosts' = [hosts EXCEPT ![w] = hs]

\* The task ends: it returns, or dies with everything it had in hand.
End(w) ==
    /\ Move(w, "idle")
    /\ op' = [op EXCEPT ![w] = "none"]
    /\ hosts' = [hosts EXCEPT ![w] = {}]

HoldsShare(w) == pc[w] \in {"write", "upsert"}
HoldsRowExclusive(w) == pc[w] = "upsert"

ShareGrantable(w) == \A v \in Workers \ {w} : ~HoldsRowExclusive(v)

\* Mutant: an INSERT that does not wait for the other transactions.
RowExclusiveAlwaysGranted(w) == w \in Workers

RowExclusiveGrantable(w) == \A v \in Workers \ {w} : ~HoldsShare(v)

InTransaction(w) == pc[w] \in {"ensure", "write", "upsert"}

\* Mutant: the cooldown test lets the last instant of the window through.
EligibleTooEarly(h) ==
    \/ h \notin tracked
    \/ sinceCrawled[h] = Never /\ sinceEnqueued[h] >= ENQUEUE_COOLDOWN
    \/ sinceCrawled[h] # Never /\ sinceCrawled[h] > RECRAWL_INTERVAL

\* Mutant: clause 2 of _ELIGIBLE, the retry of a lost task, is missing.
EligibleWithoutRetry(h) ==
    \/ h \notin tracked
    \/ sinceCrawled[h] # Never /\ sinceCrawled[h] > RECRAWL_INTERVAL

\* _ELIGIBLE, read from the rows as they are.
Eligible(h) ==
    \/ h \notin tracked
    \/ sinceCrawled[h] = Never /\ sinceEnqueued[h] > ENQUEUE_COOLDOWN
    \/ sinceCrawled[h] # Never /\ sinceCrawled[h] > RECRAWL_INTERVAL

\* SELECT ... LIMIT limit without ORDER BY: any limit of the hosts, or all.
Picks(S, limit) ==
    {P \in SUBSET S : \/ Cardinality(P) = limit
                      \/ P = S /\ Cardinality(S) <= limit}

Limit(w) == IF op[w] = "feed" THEN FEED_CAP ELSE BACKFILL_BATCH
Candidates(w) == IF op[w] = "feed" THEN hosts[w] ELSE blocklist

QueueHasRoom == \A h \in Hosts : queued[h] < MaxQueued

------------------------------------------------------------------------------
(* Dispatching tasks: ingest_feeds and backfill_crawl *)

\* ingest_all: the indicators' hosts go to the blocklist (a failed upsert is
\* swallowed), then to dispatch_feed_crawls, which calls claim_targets.
IngestFeeds(w) ==
    /\ QueueHasRoom
    /\ \E fed \in SUBSET Hosts \ {{}}, ok \in BOOLEAN :
         /\ Begin(w, "feed", "ensure", fed)
         /\ blocklist' = IF ok THEN blocklist \cup fed ELSE blocklist
         /\ Outcome(ok, "blocklist")
    /\ UNCHANGED <<rows, queued, inGraph, inHistory>>

BackfillCrawl(w) ==
    /\ QueueHasRoom
    /\ Begin(w, "backfill", "ensure", {})
    /\ UNCHANGED <<rows, stores, faults>>

------------------------------------------------------------------------------
(* Transactions on crawl_state *)

Ensure(w) ==
    /\ pc[w] = "ensure"
    /\ ShareGrantable(w)
    /\ Move(w, "write")
    /\ UNCHANGED <<rows, stores, op, hosts, faults>>

\* Mutant: the hosts are sent to the broker before they are stamped.
SelectAndSend(w) ==
    /\ pc[w] = "write"
    /\ op[w] \in Claiming
    /\ RowExclusiveGrantable(w)
    /\ Move(w, "enqueue")
    /\ \E picked \in Picks({h \in Candidates(w) : Eligible(h)}, Limit(w)) :
         hosts' = [hosts EXCEPT ![w] = picked]
    /\ UNCHANGED <<rows, stores, op, faults>>

\* Mutant: the LIMIT is applied before the test of what is due.
LimitBeforeEligible(w) ==
    /\ pc[w] = "write"
    /\ op[w] \in Claiming
    /\ RowExclusiveGrantable(w)
    /\ Move(w, "upsert")
    /\ \E picked \in Picks(Candidates(w), Limit(w)) :
         hosts' = [hosts EXCEPT ![w] = {h \in picked : Eligible(h)}]
    /\ UNCHANGED <<rows, stores, op, faults>>

\* The INSERT gets its lock and the CTE selects the due candidates.
SelectEligible(w) ==
    /\ pc[w] = "write"
    /\ op[w] \in Claiming
    /\ RowExclusiveGrantable(w)
    /\ Move(w, "upsert")
    /\ \E picked \in Picks({h \in Candidates(w) : Eligible(h)}, Limit(w)) :
         hosts' = [hosts EXCEPT ![w] = picked]
    /\ UNCHANGED <<rows, stores, op, faults>>

\* Mutant: ON CONFLICT also clears last_crawled.
UpsertForgetsCrawl(w) ==
    /\ pc[w] = "upsert"
    /\ tracked' = tracked \cup hosts[w]
    /\ sinceEnqueued' =
         [h \in Hosts |-> IF h \in hosts[w] THEN 0 ELSE sinceEnqueued[h]]
    /\ sinceCrawled' =
         [h \in Hosts |-> IF h \in hosts[w] THEN Never ELSE sinceCrawled[h]]
    /\ Move(w, "enqueue")
    /\ UNCHANGED <<stores, op, hosts, faults>>

\* The selected hosts are upserted and the transaction commits.
UpsertClaims(w) ==
    /\ pc[w] = "upsert"
    /\ tracked' = tracked \cup hosts[w]
    /\ sinceEnqueued' =
         [h \in Hosts |-> IF h \in hosts[w] THEN 0 ELSE sinceEnqueued[h]]
    /\ Move(w, "enqueue")
    /\ UNCHANGED <<sinceCrawled, stores, op, hosts, faults>>

\* mark_crawled: lock, upsert, commit.
MarkCrawled(w) ==
    /\ pc[w] = "write"
    /\ op[w] \in Crawling
    /\ RowExclusiveGrantable(w)
    /\ \E h \in hosts[w] :
         /\ tracked' = tracked \cup {h}
         /\ sinceCrawled' = [sinceCrawled EXCEPT ![h] = 0]
         /\ sinceEnqueued' = IF h \in tracked
                               THEN sinceEnqueued
                               ELSE [sinceEnqueued EXCEPT ![h] = 0]
    /\ End(w)
    /\ UNCHANGED <<stores, faults>>

\* Two transactions hold SHARE and both want ROW EXCLUSIVE: Postgres aborts
\* one, and the function swallows the error.
DeadlockAbort(w) ==
    /\ pc[w] = "write"
    /\ \E v \in Workers \ {w} : pc[v] = "write"
    /\ End(w)
    /\ UNCHANGED <<rows, stores, faults>>

\* The database is unreachable or the statement fails: rolled back, swallowed.
DatabaseFails(w) ==
    /\ InTransaction(w)
    /\ End(w)
    /\ Fault("rows")
    /\ UNCHANGED <<rows, stores>>

------------------------------------------------------------------------------
(* The broker *)

\* _enqueue: one delay() per claimed host; a broker error skips that host.
Enqueue(w) ==
    /\ pc[w] = "enqueue"
    /\ \E h \in hosts[w], sent \in BOOLEAN :
         /\ hosts' = [hosts EXCEPT ![w] = @ \ {h}]
         /\ queued' = IF sent THEN [queued EXCEPT ![h] = @ + 1] ELSE queued
         /\ Outcome(sent, "broker")
    /\ UNCHANGED <<rows, blocklist, inGraph, inHistory, pc, op>>

DispatchReturns(w) ==
    /\ pc[w] = "enqueue"
    /\ hosts[w] = {}
    /\ End(w)
    /\ UNCHANGED <<rows, stores, faults>>

------------------------------------------------------------------------------
(* Crawling tasks: _run_crawl *)

\* Mutant: a task is run again after it was taken off the queue.
CrawlRedelivered(w, h) ==
    /\ Begin(w, "crawl", "crawl", {h})
    /\ queued' = [queued EXCEPT ![h] = @ - 1]
    /\ UNCHANGED <<rows, blocklist, inGraph, inHistory, faults>>

CrawlDiscovered(w, h) ==
    /\ queued[h] > 0
    /\ Begin(w, "crawl", "crawl", {h})
    /\ queued' = [queued EXCEPT ![h] = @ - 1]
    /\ UNCHANGED <<rows, blocklist, inGraph, inHistory, faults>>

\* scan_target, sent by POST /scan: no claim, no rate limit.
ScanTarget(w, h) ==
    /\ Begin(w, "scan", "crawl", {h})
    /\ UNCHANGED <<rows, stores, faults>>

\* crawl_and_enrich and score_enrichment return (their errors are swallowed).
CrawlAndEnrich(w) ==
    /\ pc[w] = "crawl"
    /\ Move(w, "graph")
    /\ UNCHANGED <<rows, stores, op, hosts, faults>>

\* Mutant: the crawl is marked without waiting for the scan history.
UpsertScanThenMark(w) ==
    /\ pc[w] = "graph"
    /\ Move(w, "ensure")
    /\ \E ok \in BOOLEAN :
         /\ inGraph' = IF ok THEN inGraph \cup hosts[w] ELSE inGraph
         /\ Outcome(ok, "graph")
    /\ UNCHANGED <<rows, blocklist, queued, inHistory, op, hosts>>

UpsertScan(w) ==
    /\ pc[w] = "graph"
    /\ Move(w, "history")
    /\ \E ok \in BOOLEAN :
         /\ inGraph' = IF ok THEN inGraph \cup hosts[w] ELSE inGraph
         /\ Outcome(ok, "graph")
    /\ UNCHANGED <<rows, blocklist, queued, inHistory, op, hosts>>

PersistScan(w) ==
    /\ pc[w] = "history"
    /\ Move(w, "ensure")
    /\ \E ok \in BOOLEAN :
         /\ inHistory' = IF ok THEN inHistory \cup hosts[w] ELSE inHistory
         /\ Outcome(ok, "history")
    /\ UNCHANGED <<rows, blocklist, queued, inGraph, op, hosts>>

\* The process is killed: the hard time limit of crawl_discovered, or a crash
\* of the worker.  The message was acknowledged when the task started, an open
\* transaction is rolled back and its locks are released.
ProcessDies(w) ==
    /\ pc[w] # "idle"
    /\ End(w)
    /\ Fault("process")
    /\ UNCHANGED <<rows, stores>>

------------------------------------------------------------------------------
\* The clock.  now() is taken when the statement runs; the transaction's start,
\* at most seconds earlier, is the same instant at the grain of a tick (minutes).
Tick ==
    /\ Age
    /\ UNCHANGED <<stores, pc, op, hosts, faults>>

Transaction(w) ==
    \/ Ensure(w)
    \/ SelectEligible(w)
    \/ UpsertClaims(w)
    \/ MarkCrawled(w)
    \/ DeadlockAbort(w)

CrawlStep(w) == CrawlAndEnrich(w) \/ UpsertScan(w) \/ PersistScan(w)

Next ==
    \/ \E w \in Workers :
         \/ IngestFeeds(w)
         \/ BackfillCrawl(w)
         \/ Transaction(w)
         \/ DatabaseFails(w)
         \/ Enqueue(w)
         \/ DispatchReturns(w)
         \/ \E h \in Hosts : CrawlDiscovered(w, h) \/ ScanTarget(w, h)
         \/ CrawlStep(w)
         \/ ProcessDies(w)
    \/ Tick

Spec == Init /\ [][Next]_vars

\* A started task keeps running.  The beat sends back-fill tasks for ever and
\* the broker serves its queue in order, so each is taken by a worker that is
\* idle again and again.  Time passes.
Fairness ==
    /\ \A w \in Workers :
         /\ WF_vars(Transaction(w))
         /\ WF_vars(Enqueue(w) \/ DispatchReturns(w))
         /\ WF_vars(CrawlStep(w))
    /\ SF_vars(\E w \in Workers : BackfillCrawl(w))
    /\ \A h \in Hosts : SF_vars(\E w \in Workers : CrawlDiscovered(w, h))
    /\ WF_vars(Tick)

FairSpec == Spec /\ Fairness

------------------------------------------------------------------------------
(* Properties *)

\* Lock discipline: while a transaction holds ROW EXCLUSIVE no other one is
\* between _ensure and its commit.
WriteExclusion ==
    \A v, w \in Workers : HoldsRowExclusive(v) /\ HoldsShare(w) => v = w

\* The hosts a claim selected are still due when it stamps them: the check of
\* _ELIGIBLE and the upsert act as one step, whatever the other workers do.
ClaimsStillEligible ==
    \A w \in Workers : pc[w] = "upsert" => \A h \in hosts[w] : Eligible(h)

\* Select and upsert of a claim are atomic, and the lock that makes them so is held
\* by one transaction at a time.
ClaimIsAtomic == WriteExclusion /\ ClaimsStillEligible

\* A crawl task exists only for a host whose claim was committed, so losing
\* the task never loses the host: its row becomes due again.
TasksHaveRows ==
    /\ \A h \in Hosts : queued[h] > 0 => h \in tracked
    /\ \A w \in Workers : pc[w] = "enqueue" \/ op[w] = "crawl" => hosts[w] \subseteq tracked

\* _run_crawl marks last: with stores that answer, a host recorded as crawled
\* has its result in the graph and in the scan history, wherever a process died.
RecordedCrawlIsStored ==
    \A h \in Hosts : sinceCrawled[h] # Never => h \in inGraph \cap inHistory

\* A host that was never crawled is stamped again only after the cooldown.  (A
\* host due for a re-crawl may be stamped in every cycle until it is crawled:
\* clause 3 of _ELIGIBLE does not look at last_enqueued.)
CooldownBeforeFirstCrawl ==
    [][\A h \in tracked :
         sinceCrawled[h] = Never /\ sinceEnqueued'[h] < sinceEnqueued[h]
           => sinceEnqueued[h] > ENQUEUE_COOLDOWN]_vars

\* A claimed host is crawled, or becomes claimable again: no host is stuck.
NoHostIsStuck ==
    \A h \in Hosts :
      (h \in tracked /\ sinceCrawled[h] = Never) ~> (sinceCrawled[h] # Never \/ Eligible(h))

\* A back-fill fills its batch with hosts that were crawled before, and h is due.
PassedOver(h) ==
    \E w \in Workers :
      /\ pc[w] = "upsert" /\ op[w] = "backfill"
      /\ Eligible(h) /\ h \notin hosts[w]
      /\ Cardinality(hosts[w]) = BACKFILL_BATCH
      /\ \A g \in hosts[w] : sinceCrawled[g] # Never

\* The backlog is worked off, however the faults fell: every listed host is crawled
\* and recorded, unless re-crawls fill the batches in its place again and again.
\* (LIMIT without ORDER BY permits that; nothing else can keep a host waiting.)
BacklogIsWorkedOff ==
    \A h \in Hosts :
      ((h \in blocklist) ~> (sinceCrawled[h] # Never)) \/ []<>PassedOver(h)

------------------------------------------------------------------------------
(* What a comment of the source says and the code does not do *)

\* worker.py:68: a crawl that reaches mark_crawled updates its row.
FinishedCrawlIsMarked ==
    [][\A w \in Workers :
         pc[w] = "write" /\ op[w] \in Crawling /\ pc'[w] # "write"
           => \A h \in hosts[w] : sinceCrawled'[h] = 0]_vars
==============================================================================
