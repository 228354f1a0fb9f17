------------------------- MODULE CrawlDiscoveryProofs -------------------------
(***************************************************************************)
(* Proofs about CrawlDiscovery for any number of hosts and worker          *)
(* processes, any intervals, caps and failures.                            *)
(***************************************************************************)
EXTENDS CrawlDiscovery, TLAPS

\* Time only makes a tracked host older, and stays within the horizon.
LEMMA OlderType ==
    ASSUME NEW age \in {Never} \cup 0 .. Horizon
    PROVE  /\ Older(age) \in {Never} \cup 0 .. Horizon
           /\ age \in 0 .. Horizon => Older(age) \in 0 .. Horizon /\ Older(age) >= age
           /\ Older(age) = Never <=> age = Never
  BY IntervalAssumption DEF Older, Horizon, Never

\* The horizon is beyond both intervals.
LEMMA HorizonType == Horizon \in Nat /\ ENQUEUE_COOLDOWN < Horizon /\ RECRAWL_INTERVAL < Horizon
  BY IntervalAssumption DEF Horizon

\* Type correctness: every variable keeps its type in every reachable state.
THEOREM TypeCorrect == Spec => []TypeOK
<1>1. Init => TypeOK
  BY BoundAssumption, HorizonType DEF Init, TypeOK, RegisterInit, RegisterTypeOK, Phases
<1>2. TypeOK /\ [Next]_vars => TypeOK'
  <2> SUFFICES ASSUME TypeOK, [Next]_vars
               PROVE  TypeOK'
    OBVIOUS
  <2> USE DEF TypeOK, RegisterTypeOK, rows, stores, Claiming, Crawling
  <2> USE BoundAssumption, HorizonType
  <2>1. ASSUME NEW w \in Workers, IngestFeeds(w)
        PROVE  TypeOK'
    BY <2>1 DEF IngestFeeds, Begin, Move, Outcome, Fault, Phases
  <2>2. ASSUME NEW w \in Workers, BackfillCrawl(w)
        PROVE  TypeOK'
    BY <2>2 DEF BackfillCrawl, Begin, Move, Phases
  <2>3. ASSUME NEW w \in Workers, Ensure(w)
        PROVE  TypeOK'
    BY <2>3 DEF Ensure, Move, Phases
  <2>4. ASSUME NEW w \in Workers, SelectEligible(w)
        PROVE  TypeOK'
    BY <2>4 DEF SelectEligible, Move, Phases, Picks, Candidates
  <2>5. ASSUME NEW w \in Workers, UpsertClaims(w)
        PROVE  TypeOK'
    BY <2>5 DEF UpsertClaims, Move, Phases
  <2>6. ASSUME NEW w \in Workers, MarkCrawled(w)
        PROVE  TypeOK'
    BY <2>6 DEF MarkCrawled, End, Move, Phases
  <2>7. ASSUME NEW w \in Workers, DeadlockAbort(w)
        PROVE  TypeOK'
    BY <2>7 DEF DeadlockAbort, End, Move, Phases
  <2>8. ASSUME NEW w \in Workers, DatabaseFails(w)
        PROVE  TypeOK'
    BY <2>8 DEF DatabaseFails, End, Move, Fault, Phases
  <2>9. ASSUME NEW w \in Workers, Enqueue(w)
        PROVE  TypeOK'
    BY <2>9 DEF Enqueue, Outcome, Fault
  <2>10. ASSUME NEW w \in Workers, DispatchReturns(w)
         PROVE  TypeOK'
    BY <2>10 DEF DispatchReturns, End, Move, Phases
  <2>11. ASSUME NEW w \in Workers, NEW h \in Hosts, CrawlDiscovered(w, h)
         PROVE  TypeOK'
    BY <2>11 DEF CrawlDiscovered, Begin, Move, Phases
  <2>12. ASSUME NEW w \in Workers, NEW h \in Hosts, ScanTarget(w, h)
         PROVE  TypeOK'
    BY <2>12 DEF ScanTarget, Begin, Move, Phases
  <2>13. ASSUME NEW w \in Workers, CrawlAndEnrich(w)
         PROVE  TypeOK'
    BY <2>13 DEF CrawlAndEnrich, Move, Phases
  <2>14. ASSUME NEW w \in Workers, UpsertScan(w)
         PROVE  TypeOK'
    BY <2>14 DEF UpsertScan, Move, Outcome, Fault, Phases
  <2>15. ASSUME NEW w \in Workers, PersistScan(w)
         PROVE  TypeOK'
    BY <2>15 DEF PersistScan, Move, Outcome, Fault, Phases
  <2>16. ASSUME NEW w \in Workers, ProcessDies(w)
         PROVE  TypeOK'
    BY <2>16 DEF ProcessDies, End, Move, Fault, Phases
  <2>17. CASE Tick
    BY <2>17, OlderType DEF Tick, Age
  <2>18. CASE UNCHANGED vars
    BY <2>18 DEF vars
  <2>19. QED
    BY <2>1, <2>2, <2>3, <2>4, <2>5, <2>6, <2>7, <2>8, <2>9, <2>10, <2>11, <2>12,
       <2>13, <2>14, <2>15, <2>16, <2>17, <2>18
       DEF Next, Transaction, CrawlStep
<1>3. QED
  BY <1>1, <1>2, PTL DEF Spec

------------------------------------------------------------------------------
(* The claim transaction *)

\* What a worker does to the locks other than its own transaction's steps:
\* nothing, or it lets go of them.
LEMMA OutsideTransaction ==
    ASSUME TypeOK, NEW w \in Workers,
           pc' = [pc EXCEPT ![w] = pc'[w]],
           pc'[w] \notin {"write", "upsert"},
           WriteExclusion
    PROVE  WriteExclusion'
  BY DEF TypeOK, WriteExclusion, HoldsShare, HoldsRowExclusive

\* Lock discipline, for every number of worker processes: nobody is between
\* _ensure and its commit while another transaction may write crawl_state.
THEOREM LockExclusion == Spec => []WriteExclusion
<1>1. Init => WriteExclusion
  BY DEF Init, WriteExclusion, HoldsRowExclusive
<1>2. TypeOK /\ WriteExclusion /\ [Next]_vars => WriteExclusion'
  <2> SUFFICES ASSUME TypeOK, WriteExclusion, [Next]_vars
               PROVE  WriteExclusion'
    OBVIOUS
  <2>1. ASSUME NEW w \in Workers, Ensure(w)
        PROVE  WriteExclusion'
    BY <2>1 DEF Ensure, ShareGrantable, Move, TypeOK, WriteExclusion, HoldsShare,
                HoldsRowExclusive
  <2>2. ASSUME NEW w \in Workers, SelectEligible(w)
        PROVE  WriteExclusion'
    BY <2>2 DEF SelectEligible, RowExclusiveGrantable, Move, TypeOK, WriteExclusion,
                HoldsShare, HoldsRowExclusive
  <2>3. ASSUME NEW w \in Workers,
               \/ IngestFeeds(w) \/ BackfillCrawl(w) \/ UpsertClaims(w) \/ MarkCrawled(w)
               \/ DeadlockAbort(w) \/ DatabaseFails(w) \/ DispatchReturns(w)
               \/ \E h \in Hosts : CrawlDiscovered(w, h) \/ ScanTarget(w, h)
               \/ CrawlStep(w) \/ ProcessDies(w)
        PROVE  WriteExclusion'
    <3>1. pc' = [pc EXCEPT ![w] = pc'[w]] /\ pc'[w] \notin {"write", "upsert"}
      BY <2>3 DEF TypeOK, IngestFeeds, BackfillCrawl, UpsertClaims, MarkCrawled,
                  DeadlockAbort, DatabaseFails, DispatchReturns, CrawlDiscovered,
                  ScanTarget, CrawlStep, CrawlAndEnrich, UpsertScan, PersistScan,
                  ProcessDies, Begin, End, Move
    <3>2. QED
      BY <3>1, OutsideTransaction
  <2>4. ASSUME UNCHANGED pc
        PROVE  WriteExclusion'
    BY <2>4 DEF WriteExclusion, HoldsShare, HoldsRowExclusive
  <2>5. QED
    BY <2>1, <2>2, <2>3, <2>4 DEF Next, Transaction, Enqueue, Tick, vars
<1>3. QED
  BY <1>1, <1>2, TypeCorrect, PTL DEF Spec

\* A host that is due stays due while time passes and nobody writes its row.
LEMMA DueStaysDue ==
    ASSUME TypeOK, Tick, NEW h \in Hosts, Eligible(h)
    PROVE  Eligible(h)'
  BY OlderType, IntervalAssumption
     DEF TypeOK, RegisterTypeOK, Tick, Age, Eligible, Horizon, Never

\* The claim is atomic: what _ELIGIBLE said of a selected host still holds when
\* the host is stamped, whatever the other workers and the clock did between.
THEOREM ClaimsAtomic == Spec => []ClaimsStillEligible
<1>1. Init => ClaimsStillEligible
  BY DEF Init, ClaimsStillEligible
<1>2. TypeOK /\ WriteExclusion /\ ClaimsStillEligible /\ [Next]_vars => ClaimsStillEligible'
  <2> SUFFICES ASSUME TypeOK, WriteExclusion, ClaimsStillEligible, [Next]_vars
               PROVE  ClaimsStillEligible'
    OBVIOUS
  <2>1. ASSUME NEW w \in Workers, SelectEligible(w)
        PROVE  ClaimsStillEligible'
    BY <2>1 DEF SelectEligible, Picks, Move, TypeOK, ClaimsStillEligible, Eligible, rows
  <2>2. ASSUME NEW w \in Workers, UpsertClaims(w)
        PROVE  ClaimsStillEligible'
    \* The writer is the only transaction that holds a lock.
    BY <2>2 DEF UpsertClaims, Move, TypeOK, WriteExclusion, HoldsShare, HoldsRowExclusive,
                ClaimsStillEligible
  <2>3. ASSUME NEW w \in Workers, MarkCrawled(w)
        PROVE  ClaimsStillEligible'
    BY <2>3 DEF MarkCrawled, RowExclusiveGrantable, HoldsShare, End, Move, TypeOK,
                ClaimsStillEligible
  <2>4. CASE Tick
    BY <2>4, DueStaysDue DEF Tick, TypeOK, ClaimsStillEligible
  <2>5. ASSUME NEW w \in Workers, Enqueue(w)
        PROVE  ClaimsStillEligible'
    BY <2>5 DEF Enqueue, TypeOK, ClaimsStillEligible, Eligible, rows
  <2>6. ASSUME NEW w \in Workers,
               \/ IngestFeeds(w) \/ BackfillCrawl(w) \/ Ensure(w)
               \/ DeadlockAbort(w) \/ DatabaseFails(w) \/ DispatchReturns(w)
               \/ \E h \in Hosts : CrawlDiscovered(w, h) \/ ScanTarget(w, h)
               \/ CrawlStep(w) \/ ProcessDies(w)
        PROVE  ClaimsStillEligible'
    <3>1. /\ UNCHANGED rows
          /\ pc'[w] # "upsert"
          /\ \A v \in Workers \ {w} : pc'[v] = pc[v] /\ hosts'[v] = hosts[v]
      BY <2>6 DEF TypeOK, IngestFeeds, BackfillCrawl, Ensure, DeadlockAbort, DatabaseFails,
                  DispatchReturns, CrawlDiscovered, ScanTarget, CrawlStep, CrawlAndEnrich,
                  UpsertScan, PersistScan, ProcessDies, Begin, End, Move
    <3>2. QED
      BY <3>1 DEF ClaimsStillEligible, Eligible, rows
  <2>7. CASE UNCHANGED vars
    BY <2>7 DEF vars, rows, ClaimsStillEligible, Eligible
  <2>8. QED
    BY <2>1, <2>2, <2>3, <2>4, <2>5, <2>6, <2>7 DEF Next, Transaction
<1>3. QED
  BY <1>1, <1>2, TypeCorrect, LockExclusion, PTL DEF Spec

\* Lock discipline and fresh claims together: a claim acts as one step.
THEOREM ClaimTheorem == Spec => []ClaimIsAtomic
<1>1. WriteExclusion /\ ClaimsStillEligible => ClaimIsAtomic
  BY DEF ClaimIsAtomic
<1>2. QED
  BY <1>1, LockExclusion, ClaimsAtomic, PTL

------------------------------------------------------------------------------
(* What the claim transaction gives its callers *)

\* Every step of the crawler claims due hosts, records a crawl, lets time pass,
\* or leaves crawl_state alone.
LEMMA StepOfRegister ==
    ASSUME TypeOK, ClaimsStillEligible, [Next]_vars
    PROVE  [RegisterNext]_rows
<1>1. ASSUME NEW w \in Workers, UpsertClaims(w)
      PROVE  RegisterNext
  <2>1. hosts[w] \in SUBSET Hosts
    BY DEF TypeOK
  <2>2. ClaimAll(hosts[w])
    BY <1>1 DEF UpsertClaims, ClaimsStillEligible, Eligible, Due, ClaimAll
  <2>3. QED
    BY <2>1, <2>2 DEF RegisterNext
<1>2. ASSUME NEW w \in Workers, MarkCrawled(w)
      PROVE  RegisterNext
  BY <1>2 DEF MarkCrawled, TypeOK, RegisterNext, Record
<1>3. CASE Tick
  BY <1>3 DEF Tick, RegisterNext
<1>4. ASSUME NEW w \in Workers,
             \/ IngestFeeds(w) \/ BackfillCrawl(w) \/ Ensure(w) \/ SelectEligible(w)
             \/ DeadlockAbort(w) \/ DatabaseFails(w) \/ Enqueue(w) \/ DispatchReturns(w)
             \/ \E h \in Hosts : CrawlDiscovered(w, h) \/ ScanTarget(w, h)
             \/ CrawlStep(w) \/ ProcessDies(w)
      PROVE  UNCHANGED rows
  BY <1>4 DEF IngestFeeds, BackfillCrawl, Ensure, SelectEligible, DeadlockAbort,
              DatabaseFails, Enqueue, DispatchReturns, CrawlDiscovered, ScanTarget,
              CrawlStep, CrawlAndEnrich, UpsertScan, PersistScan, ProcessDies
<1>5. CASE UNCHANGED vars
  BY <1>5 DEF vars
<1>6. QED
  BY <1>1, <1>2, <1>3, <1>4, <1>5 DEF Next, Transaction

\* The crawler implements the register: with transactions that interleave,
\* deadlock, fail and lose their process, callers of crawl_state see claims and
\* records that happen in one step each.
THEOREM Refinement == Spec => RegisterSpec
<1>1. Init => RegisterInit
  BY DEF Init
<1>2. TypeOK /\ ClaimsStillEligible /\ [Next]_vars => [RegisterNext]_rows
  BY StepOfRegister
<1>3. QED
  BY <1>1, <1>2, TypeCorrect, ClaimsAtomic, PTL DEF Spec, RegisterSpec

\* The cooldown: a host that was never crawled is not stamped again before its
\* cooldown is over, whoever claims it.
THEOREM Cooldown == Spec => CooldownBeforeFirstCrawl
<1> DEFINE Kept == \A h \in tracked :
         sinceCrawled[h] = Never /\ sinceEnqueued'[h] < sinceEnqueued[h]
           => sinceEnqueued[h] > ENQUEUE_COOLDOWN
<1>1. TypeOK /\ [RegisterNext]_rows => Kept
  <2> SUFFICES ASSUME TypeOK, [RegisterNext]_rows, NEW h \in tracked,
                      sinceCrawled[h] = Never, sinceEnqueued'[h] < sinceEnqueued[h]
               PROVE  sinceEnqueued[h] > ENQUEUE_COOLDOWN
    OBVIOUS
  <2>1. h \in Hosts /\ sinceEnqueued[h] \in 0 .. Horizon
    BY DEF TypeOK, RegisterTypeOK
  <2>2. ASSUME NEW S \in SUBSET Hosts, ClaimAll(S)
        PROVE  sinceEnqueued[h] > ENQUEUE_COOLDOWN
    BY <2>1, <2>2, HorizonType DEF ClaimAll, Due
  <2>3. ASSUME NEW g \in Hosts, Record(g)
        PROVE  FALSE
    BY <2>1, <2>3, HorizonType DEF Record, TypeOK, RegisterTypeOK
  <2>4. CASE Age
    BY <2>1, <2>4, OlderType, HorizonType DEF Age
  <2>5. CASE UNCHANGED rows
    BY <2>1, <2>5, HorizonType DEF rows
  <2>6. QED
    BY <2>2, <2>3, <2>4, <2>5 DEF RegisterNext
<1>2. TypeOK /\ ClaimsStillEligible /\ [Next]_vars => [Kept]_vars
  BY <1>1, StepOfRegister
<1>3. QED
  BY <1>2, TypeCorrect, ClaimsAtomic, PTL DEF Spec, CooldownBeforeFirstCrawl

------------------------------------------------------------------------------
(* Tasks and results *)

\* Claim before send: every task on the broker, in a worker's hands or about to
\* be sent is for a host with a committed row.
THEOREM ClaimBeforeSend == Spec => []TasksHaveRows
<1>1. Init => TasksHaveRows
  BY DEF Init, TasksHaveRows
<1>2. TypeOK /\ ClaimsStillEligible /\ TasksHaveRows /\ [Next]_vars => TasksHaveRows'
  <2> SUFFICES ASSUME TypeOK, ClaimsStillEligible, TasksHaveRows, [Next]_vars
               PROVE  TasksHaveRows'
    OBVIOUS
  <2>1. tracked \subseteq tracked'
    BY StepOfRegister DEF RegisterNext, ClaimAll, Record, Age, rows
  <2>2. ASSUME NEW w \in Workers, UpsertClaims(w)
        PROVE  TasksHaveRows'
    BY <2>1, <2>2 DEF UpsertClaims, Move, TypeOK, stores, TasksHaveRows
  <2>3. ASSUME NEW w \in Workers, Enqueue(w)
        PROVE  TasksHaveRows'
    BY <2>1, <2>3 DEF Enqueue, TypeOK, TasksHaveRows
  <2>4. ASSUME NEW w \in Workers, NEW h \in Hosts, CrawlDiscovered(w, h)
        PROVE  TasksHaveRows'
    BY <2>1, <2>4 DEF CrawlDiscovered, Begin, Move, TypeOK, TasksHaveRows
  <2>5. ASSUME NEW w \in Workers, NEW h \in Hosts, ScanTarget(w, h)
        PROVE  TasksHaveRows'
    BY <2>1, <2>5 DEF ScanTarget, Begin, Move, TypeOK, stores, TasksHaveRows
  <2>6. ASSUME NEW w \in Workers, IngestFeeds(w) \/ BackfillCrawl(w)
        PROVE  TasksHaveRows'
    BY <2>1, <2>6 DEF IngestFeeds, BackfillCrawl, Begin, Move, TypeOK, stores, TasksHaveRows
  <2>7. ASSUME NEW w \in Workers, Ensure(w) \/ CrawlStep(w)
        PROVE  TasksHaveRows'
    BY <2>1, <2>7 DEF Ensure, CrawlStep, CrawlAndEnrich, UpsertScan, PersistScan, Move,
                      TypeOK, stores, TasksHaveRows
  <2>8. ASSUME NEW w \in Workers, SelectEligible(w)
        PROVE  TasksHaveRows'
    BY <2>1, <2>8 DEF SelectEligible, Move, TypeOK, stores, Claiming, TasksHaveRows
  <2>9. ASSUME NEW w \in Workers,
               \/ MarkCrawled(w) \/ DeadlockAbort(w) \/ DatabaseFails(w)
               \/ DispatchReturns(w) \/ ProcessDies(w)
        PROVE  TasksHaveRows'
    BY <2>1, <2>9 DEF MarkCrawled, DeadlockAbort, DatabaseFails, DispatchReturns,
                      ProcessDies, End, Move, TypeOK, stores, TasksHaveRows
  <2>10. CASE Tick \/ UNCHANGED vars
    BY <2>1, <2>10 DEF Tick, vars, stores, TasksHaveRows
  <2>11. QED
    BY <2>2, <2>3, <2>4, <2>5, <2>6, <2>7, <2>8, <2>9, <2>10 DEF Next, Transaction
<1>3. QED
  BY <1>1, <1>2, TypeCorrect, ClaimsAtomic, PTL DEF Spec

\* What a crawl has stored at each phase, when Neo4j and the scans table answer.
Stored ==
    /\ \A w \in Workers : pc[w] = "history" => hosts[w] \subseteq inGraph
    /\ \A w \in Workers :
         op[w] \in Crawling /\ pc[w] \in {"ensure", "write"}
           => hosts[w] \subseteq inGraph \cap inHistory
    /\ \A w \in Workers : pc[w] = "upsert" => op[w] \in Claiming

\* The mark comes last: with stores that answer, no death of a process at any
\* step leaves a host recorded as crawled whose result was not stored.
THEOREM MarkedIsStored ==
    ASSUME Failing \cap {"graph", "history"} = {}
    PROVE  Spec => []RecordedCrawlIsStored
<1> DEFINE Inv == Stored /\ RecordedCrawlIsStored
<1>1. Init => Inv
  BY DEF Init, RegisterInit, Stored, RecordedCrawlIsStored
<1>2. TypeOK /\ Inv /\ [Next]_vars => Inv'
  <2> SUFFICES ASSUME TypeOK, Inv, [Next]_vars
               PROVE  Inv'
    OBVIOUS
  <2> USE DEF TypeOK, RegisterTypeOK, Stored, RecordedCrawlIsStored, Crawling, Claiming
  <2>1. ASSUME NEW w \in Workers, UpsertScan(w)
        PROVE  Inv'
    BY <2>1 DEF UpsertScan, Outcome, Fault, Move, rows
  <2>2. ASSUME NEW w \in Workers, PersistScan(w)
        PROVE  Inv'
    BY <2>2 DEF PersistScan, Outcome, Fault, Move, rows
  <2>3. ASSUME NEW w \in Workers, MarkCrawled(w)
        PROVE  Inv'
    BY <2>3 DEF MarkCrawled, End, Move, stores
  <2>4. ASSUME NEW w \in Workers, UpsertClaims(w)
        PROVE  Inv'
    BY <2>4 DEF UpsertClaims, Move, stores
  <2>5. ASSUME NEW w \in Workers, SelectEligible(w)
        PROVE  Inv'
    BY <2>5 DEF SelectEligible, Move, stores, rows
  <2>6. ASSUME NEW w \in Workers,
               \/ DeadlockAbort(w) \/ DatabaseFails(w) \/ DispatchReturns(w) \/ ProcessDies(w)
        PROVE  Inv'
    BY <2>6 DEF DeadlockAbort, DatabaseFails, DispatchReturns, ProcessDies, End, Move,
                stores, rows
  <2>7. ASSUME NEW w \in Workers,
               \/ IngestFeeds(w) \/ BackfillCrawl(w)
               \/ \E h \in Hosts : CrawlDiscovered(w, h) \/ ScanTarget(w, h)
        PROVE  Inv'
    BY <2>7 DEF IngestFeeds, BackfillCrawl, CrawlDiscovered, ScanTarget, Begin, Move,
                stores, rows
  <2>8. ASSUME NEW w \in Workers, Ensure(w) \/ CrawlAndEnrich(w)
        PROVE  Inv'
    BY <2>8 DEF Ensure, CrawlAndEnrich, Move, stores, rows
  <2>9. ASSUME NEW w \in Workers, Enqueue(w)
        PROVE  Inv'
    BY <2>9 DEF Enqueue, stores, rows
  <2>10. CASE Tick
    BY <2>10, OlderType DEF Tick, Age, stores
  <2>11. CASE UNCHANGED vars
    BY <2>11 DEF vars, stores, rows
  <2>12. QED
    BY <2>1, <2>2, <2>3, <2>4, <2>5, <2>6, <2>7, <2>8, <2>9, <2>10, <2>11
       DEF Next, Transaction, CrawlStep
<1>3. QED
  BY <1>1, <1>2, TypeCorrect, PTL DEF Spec
==============================================================================
