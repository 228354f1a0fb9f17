--------------------------- MODULE ReportFlowProofs ---------------------------
(***************************************************************************)
(* Proofs about ReportFlow for any finite set of requests, any policy       *)
(* constants and any failures.                                              *)
(***************************************************************************)
EXTENDS ReportFlow, FiniteSetTheorems, TLAPS

\* Values that finitely many requests have are finitely many.
LEMMA ImageFinite ==
    ASSUME NEW E \in SUBSET Requests, NEW r, NEW T,
           \A x \in T : \E p \in E : r[p] = x
    PROVE  IsFiniteSet(T) /\ Cardinality(T) \in Nat
<1> DEFINE S == {e \in E : r[e] \in T}
           f == [p \in S |-> r[p]]
<1>1. IsFiniteSet(S)
  <2>1. S \in SUBSET Requests
    OBVIOUS
  <2>2. QED
    BY <2>1, RequestsAssumption, FS_Subset
<1>2. f \in Surjection(S, T)
  BY DEF Surjection
<1>3. IsFiniteSet(T)
  BY <1>1, <1>2, FS_Surjection
<1>4. QED
  BY <1>3, FS_CardinalityType

\* The distinct reporters of a target are counted by a natural number.
LEMMA ReportersFinite ==
    ASSUME TypeOK, NEW t
    PROVE  IsFiniteSet(ReportersOf(t)) /\ IndependentCount(t) \in Nat
<1>1. events \in SUBSET Requests
  BY DEF TypeOK
<1>2. \A x \in ReportersOf(t) : \E p \in events : reporter[p] = x
  BY DEF ReportersOf
<1>3. QED
  BY <1>1, <1>2, ImageFinite DEF IndependentCount

\* The same of the next state.
LEMMA ReportersFiniteNext ==
    ASSUME TypeOK', NEW t
    PROVE  IsFiniteSet(ReportersOf(t)') /\ IndependentCount(t)' \in Nat
<1>1. events' \in SUBSET Requests
  BY DEF TypeOK
<1>2. \A x \in ReportersOf(t)' : \E p \in events' : reporter'[p] = x
  BY DEF ReportersOf
<1>3. QED
  BY <1>1, <1>2, ImageFinite DEF IndependentCount

\* Every step keeps the types, and what the phases say of a request's fields.
LEMMA TypeInductive == TypeOK /\ [Next]_vars => TypeOK'
<1> SUFFICES ASSUME TypeOK, [Next]_vars
             PROVE  TypeOK'
  OBVIOUS
<1> USE BoundAssumption, PolicyAssumption
<1> USE DEF TypeOK, Recording, InFlight, Evaluating, Ended
<1>1. ASSUME NEW q \in Requests, Arrive(q)
      PROVE  TypeOK'
  BY <1>1 DEF Arrive, Go
<1>2. ASSUME NEW q \in Requests, ExistsEver(q)
      PROVE  TypeOK'
  BY <1>2 DEF ExistsEver, Go
<1>3. ASSUME NEW q \in Requests, BurstCount(q)
      PROVE  TypeOK'
  BY <1>3 DEF BurstCount, Go
<1>4. ASSUME NEW q \in Requests, InsertEvent(q)
      PROVE  TypeOK'
  BY <1>4 DEF InsertEvent, Go
<1>5. ASSUME NEW q \in Requests, CountIndependent(q)
      PROVE  TypeOK'
  <2>1. IndependentCount(target[q]) \in Nat
    BY ReportersFinite
  <2>2. QED
    BY <1>5, <2>1 DEF CountIndependent, Go, Outcome, Fails, Fault, FaultKinds, AfterVerdict
<1>6. ASSUME NEW q \in Requests, EvaluateFails(q)
      PROVE  TypeOK'
  BY <1>6 DEF EvaluateFails, Go, Fails, Fault, FaultKinds, FallbackStatus, AfterVerdict
<1>7. ASSUME NEW q \in Requests, SaveReport(q)
      PROVE  TypeOK'
  BY <1>7 DEF SaveReport, Go, Outcome, Fails, Fault, FaultKinds
<1>8. ASSUME NEW q \in Requests, MergeGraph(q)
      PROVE  TypeOK'
  BY <1>8 DEF MergeGraph, Go, Outcome, Fails, Fault, FaultKinds
<1>9. CASE GatewayDies
  BY <1>9 DEF GatewayDies, Fault
<1>10. CASE Tick
  BY <1>10 DEF Tick
<1>11. CASE UNCHANGED vars
  BY <1>11 DEF vars
<1>12. QED
  BY <1>1, <1>2, <1>3, <1>4, <1>5, <1>6, <1>7, <1>8, <1>9, <1>10, <1>11
     DEF Next, Evaluate

\* Type correctness of every reachable state.
THEOREM TypeCorrect == Spec => []TypeOK
<1>1. Init => TypeOK
  BY BoundAssumption, PolicyAssumption DEF Init, TypeOK, Recording
<1>2. QED
  BY <1>1, TypeInductive, PTL DEF Spec

------------------------------------------------------------------------------
(* Requests and rows *)

\* Where a request is, and what it has left behind: nothing before it arrives,
\* no row of report_events before its insert.
Fresh ==
    \A q \in Requests :
      /\ pc[q] = "new" => status[q] = "none" /\ q \notin reports \cup inGraph
      /\ q \in events => pc[q] \notin {"new", "exists", "burst", "insert"}
      /\ before[q] \subseteq {p \in Requests : pc[p] \in Ended}

LEMMA FreshInductive == TypeOK /\ Fresh /\ [Next]_vars => Fresh'
<1> SUFFICES ASSUME TypeOK, Fresh, [Next]_vars
             PROVE  Fresh'
  OBVIOUS
<1> USE DEF TypeOK, Fresh, Ended, Go
<1>1. ASSUME NEW q \in Requests, Arrive(q)
      PROVE  Fresh'
  BY <1>1 DEF Arrive
<1>2. ASSUME NEW q \in Requests, ExistsEver(q)
      PROVE  Fresh'
  BY <1>2 DEF ExistsEver
<1>3. ASSUME NEW q \in Requests, BurstCount(q)
      PROVE  Fresh'
  BY <1>3 DEF BurstCount
<1>4. ASSUME NEW q \in Requests, InsertEvent(q)
      PROVE  Fresh'
  BY <1>4 DEF InsertEvent
<1>5. ASSUME NEW q \in Requests, CountIndependent(q)
      PROVE  Fresh'
  BY <1>5 DEF CountIndependent, AfterVerdict
<1>6. ASSUME NEW q \in Requests, EvaluateFails(q)
      PROVE  Fresh'
  BY <1>6 DEF EvaluateFails, AfterVerdict, Evaluating
<1>7. ASSUME NEW q \in Requests, SaveReport(q)
      PROVE  Fresh'
  BY <1>7 DEF SaveReport
<1>8. ASSUME NEW q \in Requests, MergeGraph(q)
      PROVE  Fresh'
  BY <1>8 DEF MergeGraph
<1>9. CASE GatewayDies
  BY <1>9 DEF GatewayDies, InFlight, Evaluating
<1>10. CASE Tick
  BY <1>10 DEF Tick
<1>11. CASE UNCHANGED vars
  BY <1>11 DEF vars
<1>12. QED
  BY <1>1, <1>2, <1>3, <1>4, <1>5, <1>6, <1>7, <1>8, <1>9, <1>10, <1>11 DEF Next, Evaluate

\* A request that has arrived keeps its target and its reporter, rows are never
\* deleted, and a row of report_events never grows younger.
LEMMA Kept ==
    ASSUME TypeOK, Fresh, [Next]_vars
    PROVE  /\ \A q \in Requests :
                pc[q] # "new" => /\ target'[q] = target[q]
                                 /\ reporter'[q] = reporter[q]
                                 /\ before'[q] = before[q]
                                 /\ pc'[q] # "new"
           /\ \A q \in events : age'[q] >= age[q]
           /\ events \subseteq events' /\ reports \subseteq reports'
<1> USE DEF TypeOK, Go, Fresh
<1>1. ASSUME NEW q \in Requests, Arrive(q)
      PROVE  /\ UNCHANGED <<events, age, reports>>
             /\ pc[q] = "new" /\ pc'[q] # "new"
             /\ \A p \in Requests \ {q} : /\ target'[p] = target[p]
                                          /\ reporter'[p] = reporter[p]
                                          /\ before'[p] = before[p]
                                          /\ pc'[p] = pc[p]
  BY <1>1 DEF Arrive
<1>2. ASSUME NEW q \in Requests,
             Evaluate(q) \/ SaveReport(q) \/ MergeGraph(q)
      PROVE  /\ UNCHANGED <<target, reporter, before, age>>
             /\ \A p \in Requests : pc[p] # "new" => pc'[p] # "new"
             /\ events \subseteq events' /\ reports \subseteq reports'
  BY <1>2 DEF Evaluate, ExistsEver, BurstCount, InsertEvent, CountIndependent,
              EvaluateFails, AfterVerdict, SaveReport, MergeGraph
<1>3. CASE GatewayDies
  BY <1>3 DEF GatewayDies, InFlight
<1>4. CASE Tick
  BY <1>4, PolicyAssumption DEF Tick
<1>5. CASE UNCHANGED vars
  BY <1>5 DEF vars
<1>6. QED
  BY <1>1, <1>2, <1>3, <1>4, <1>5 DEF Next

\* How a request q moves through evaluate, whichever request takes the step: a
\* new row is of a recorded verdict, and a phase is entered from the one before.
Moves(q) ==
    /\ pc[q] = "new" => pc'[q] \in {"new", "exists"}
    /\ q \in events' => q \in events \/ (pc[q] = "insert" /\ status[q] \in Recording)
    /\ pc'[q] = "burst" => (pc[q] = "burst" /\ status'[q] = status[q]) \/ ExistsEver(q)
    /\ pc'[q] = "insert" => (pc[q] = "insert" /\ status'[q] = status[q]) \/ BurstCount(q)

LEMMA StepMoves ==
    ASSUME TypeOK, [Next]_vars, NEW q \in Requests
    PROVE  Moves(q)
<1> USE DEF TypeOK, Go, Moves
<1>1. ASSUME NEW p \in Requests, Arrive(p)
      PROVE  Moves(q)
  BY <1>1 DEF Arrive
<1>2. ASSUME NEW p \in Requests, ExistsEver(p)
      PROVE  Moves(q)
  <2>1. CASE p = q
    BY <1>2, <2>1 DEF ExistsEver
  <2>2. CASE p # q
    BY <1>2, <2>2 DEF ExistsEver
  <2>3. QED
    BY <2>1, <2>2
<1>3. ASSUME NEW p \in Requests, BurstCount(p)
      PROVE  Moves(q)
  <2>1. CASE p = q
    BY <1>3, <2>1 DEF BurstCount
  <2>2. CASE p # q
    BY <1>3, <2>2 DEF BurstCount
  <2>3. QED
    BY <2>1, <2>2
<1>4. ASSUME NEW p \in Requests, InsertEvent(p)
      PROVE  Moves(q)
  BY <1>4 DEF InsertEvent
<1>5. ASSUME NEW p \in Requests, CountIndependent(p)
      PROVE  Moves(q)
  BY <1>5 DEF CountIndependent, AfterVerdict
<1>6. ASSUME NEW p \in Requests, EvaluateFails(p)
      PROVE  Moves(q)
  BY <1>6 DEF EvaluateFails, AfterVerdict, Evaluating
<1>7. ASSUME NEW p \in Requests, SaveReport(p) \/ MergeGraph(p)
      PROVE  Moves(q)
  BY <1>7 DEF SaveReport, MergeGraph
<1>8. CASE GatewayDies
  BY <1>8 DEF GatewayDies, InFlight, Evaluating
<1>9. CASE Tick \/ UNCHANGED vars
  BY <1>9 DEF Tick, vars
<1>10. QED
  BY <1>1, <1>2, <1>3, <1>4, <1>5, <1>6, <1>7, <1>8, <1>9 DEF Next, Evaluate

------------------------------------------------------------------------------
(* The allowlist *)

\* What protects it: only a verdict "reported" goes on to the two inserts, and
\* no verdict of an allowlisted target is "reported", the fallback's included.
Screened ==
    \A q \in Requests :
      /\ status[q] = "reported" => ~Allowlisted(q)
      /\ pc[q] \in {"reports", "graph"} => status[q] = "reported"

\* An allowlisted target reaches neither reports nor the graph, whatever
\* statement fails or process dies, for any number of requests.
THEOREM AllowlistTheorem == Spec => []AllowlistProtected
<1> DEFINE Inv == Fresh /\ Screened /\ AllowlistProtected
<1>1. Init => Inv
  BY DEF Init, Fresh, Screened, AllowlistProtected
<1>2. TypeOK /\ Inv /\ [Next]_vars => Inv'
  <2> SUFFICES ASSUME TypeOK, Inv, [Next]_vars
               PROVE  (Screened /\ AllowlistProtected)'
    BY FreshInductive
  <2> USE DEF TypeOK, Screened, AllowlistProtected, Allowlisted, Go
  <2>1. ASSUME NEW q \in Requests, Arrive(q)
        PROVE  (Screened /\ AllowlistProtected)'
    BY <2>1 DEF Arrive, Fresh
  <2>2. ASSUME NEW q \in Requests, ExistsEver(q)
        PROVE  (Screened /\ AllowlistProtected)'
    BY <2>2 DEF ExistsEver
  <2>3. ASSUME NEW q \in Requests, BurstCount(q)
        PROVE  (Screened /\ AllowlistProtected)'
    BY <2>3 DEF BurstCount
  <2>4. ASSUME NEW q \in Requests, InsertEvent(q)
        PROVE  (Screened /\ AllowlistProtected)'
    BY <2>4 DEF InsertEvent
  <2>5. ASSUME NEW q \in Requests, CountIndependent(q)
        PROVE  (Screened /\ AllowlistProtected)'
    BY <2>5 DEF CountIndependent, AfterVerdict
  <2>6. ASSUME NEW q \in Requests, EvaluateFails(q)
        PROVE  (Screened /\ AllowlistProtected)'
    BY <2>6 DEF EvaluateFails, AfterVerdict, FallbackStatus
  <2>7. ASSUME NEW q \in Requests, SaveReport(q)
        PROVE  (Screened /\ AllowlistProtected)'
    BY <2>7 DEF SaveReport
  <2>8. ASSUME NEW q \in Requests, MergeGraph(q)
        PROVE  (Screened /\ AllowlistProtected)'
    BY <2>8 DEF MergeGraph
  <2>9. CASE GatewayDies
    BY <2>9 DEF GatewayDies
  <2>10. CASE Tick
    BY <2>10 DEF Tick
  <2>11. CASE UNCHANGED vars
    BY <2>11 DEF vars
  <2>12. QED
    BY <2>1, <2>2, <2>3, <2>4, <2>5, <2>6, <2>7, <2>8, <2>9, <2>10, <2>11
       DEF Next, Evaluate
<1>3. QED
  BY <1>1, <1>2, TypeCorrect, PTL DEF Spec

------------------------------------------------------------------------------
(* Repeats *)

\* Past its existsEver, a request about to be recorded, and a recorded one, has
\* no row of its pair among the requests that had ended when it arrived.
NoEarlierRow ==
    \A q \in Requests :
      q \in events \/ (pc[q] \in {"burst", "insert"} /\ status[q] \in Recording)
        => \A p \in events : p # q /\ SamePair(p, q) => p \notin before[q]

\* A repeated report that starts after the first one ended gets no second row,
\* for any number of requests and reporters and however old the first row is.
THEOREM RepeatTheorem == Spec => []RepeatIsRejected
<1>1. Init => Fresh /\ NoEarlierRow
  BY DEF Init, Fresh, NoEarlierRow
<1>2. TypeOK /\ Fresh /\ NoEarlierRow /\ [Next]_vars => (Fresh /\ NoEarlierRow)'
  <2> SUFFICES ASSUME TypeOK, Fresh, NoEarlierRow, [Next]_vars,
                      NEW q \in Requests, NEW p \in events', p # q,
                      \/ q \in events'
                      \/ pc'[q] \in {"burst", "insert"} /\ status'[q] \in Recording,
                      SamePair(p, q)'
               PROVE  p \notin before'[q]
    BY FreshInductive DEF NoEarlierRow
  <2> USE DEF TypeOK, Go
  <2>1. pc[q] # "new"
    \* A request that arrives now has no verdict yet.
    BY StepMoves DEF Moves, Fresh
  <2>2. before'[q] = before[q] /\ target'[q] = target[q] /\ reporter'[q] = reporter[q]
    BY <2>1, Kept
  <2>3. CASE p \notin events
    \* The new row is of a request in flight, so not of one that had ended.
    <3>1. pc[p] = "insert"
      BY <2>3, TypeInductive, StepMoves DEF Moves
    <3>2. QED
      BY <2>2, <3>1 DEF Fresh, Ended
  <2>4. CASE p \in events
    <3>1. p \in Requests /\ pc[p] # "new" /\ SamePair(p, q)
      BY <2>2, <2>4, Kept DEF Fresh, SamePair
    <3>2. CASE \/ q \in events
               \/ pc[q] \in {"burst", "insert"} /\ status[q] \in Recording
      BY <2>2, <2>4, <3>1, <3>2 DEF NoEarlierRow
    <3>3. CASE ExistsEver(q) /\ status'[q] \in Recording
      \* The verdict is taken now, from all rows there are.
      BY <2>4, <3>1, <3>3 DEF ExistsEver, Exists, SamePair, Recording
    <3>4. CASE BurstCount(q) /\ status'[q] \in Recording
      <4>1. pc[q] = "burst" /\ status[q] \in Recording
        BY <3>4 DEF BurstCount, Recording
      <4>2. QED
        BY <3>2, <4>1
    <3>5. QED
      BY <3>2, <3>3, <3>4, StepMoves DEF Moves
  <2>5. QED
    BY <2>3, <2>4
<1>3. TypeOK /\ NoEarlierRow => RepeatIsRejected
  BY DEF TypeOK, NoEarlierRow, RepeatIsRejected
<1>4. QED
  BY <1>1, <1>2, <1>3, TypeCorrect, PTL DEF Spec

------------------------------------------------------------------------------
(* The burst limit *)

\* A request about to be recorded, and a recorded one, found fewer rows than the
\* limit in the window, of which those of ended requests only get fewer.
UnderLimit ==
    \A q \in Requests :
      q \in events \/ (pc[q] = "insert" /\ status[q] \in Recording)
        => Cardinality(RowsInWindow(reporter[q]) \cap before[q]) < BURST_MAX_PER_WINDOW

\* No row is more than the limit allows among the rows its reporter had finished.
THEOREM BurstTheorem == Spec => []BurstIsBounded
<1>1. Init => Fresh /\ UnderLimit
  BY DEF Init, Fresh, UnderLimit
<1>2. TypeOK /\ Fresh /\ UnderLimit /\ [Next]_vars => (Fresh /\ UnderLimit)'
  <2> SUFFICES ASSUME TypeOK, Fresh, UnderLimit, [Next]_vars, NEW q \in Requests,
                      q \in events' \/ (pc'[q] = "insert" /\ status'[q] \in Recording)
               PROVE  Cardinality(RowsInWindow(reporter[q]) \cap before[q])'
                        < BURST_MAX_PER_WINDOW
    BY FreshInductive DEF UnderLimit, TypeOK
  <2> USE DEF TypeOK, Go
  <2> DEFINE R == RowsInWindow(reporter[q])
             B == R \cap before[q]
  <2>1. pc[q] # "new"
    BY StepMoves DEF Moves, Fresh
  <2>2. before'[q] = before[q] /\ reporter'[q] = reporter[q]
    BY <2>1, Kept
  <2>3. B' \subseteq B
    \* Requests that had ended add no row, and rows only leave the window.
    <3>1. ASSUME NEW p \in events', p \in before[q]
          PROVE  p \in events /\ reporter'[p] = reporter[p] /\ age'[p] >= age[p]
      <4>1. pc[p] \in Ended /\ p \in Requests
        BY <3>1 DEF Fresh
      <4>2. p \in events
        BY <3>1, <4>1, StepMoves DEF Ended, Moves
      <4>3. QED
        BY <4>1, <4>2, Kept DEF Ended
    <3>2. QED
      BY <2>2, <3>1, PolicyAssumption DEF RowsInWindow
  <2>4. IsFiniteSet(R) /\ Cardinality(R) \in Nat
    <3>1. R \in SUBSET Requests
      BY DEF RowsInWindow
    <3>2. QED
      BY <3>1, RequestsAssumption, FS_Subset, FS_CardinalityType
  <2>5. /\ Cardinality(B) <= Cardinality(R) /\ Cardinality(B') <= Cardinality(B)
        /\ Cardinality(B) \in Nat /\ Cardinality(B') \in Nat
    <3>1. B \in SUBSET R /\ B' \in SUBSET B
      BY <2>3
    <3> HIDE DEF B, R
    <3>2. IsFiniteSet(B) /\ Cardinality(B) <= Cardinality(R)
      BY <2>4, <3>1, FS_Subset
    <3>3. IsFiniteSet(B') /\ Cardinality(B') <= Cardinality(B)
      BY <3>1, <3>2, FS_Subset
    <3>4. QED
      BY <3>2, <3>3, FS_CardinalityType
  <2>6. Cardinality(B) < BURST_MAX_PER_WINDOW
    <3>1. CASE q \in events \/ (pc[q] = "insert" /\ status[q] \in Recording)
      BY <3>1 DEF UnderLimit
    <3>2. CASE BurstCount(q) /\ status'[q] \in Recording
      <4>1. ~Throttled(reporter[q])
        BY <3>2 DEF BurstCount, Recording, Fresh
      <4>2. Cardinality(R) < BURST_MAX_PER_WINDOW
        BY <2>4, <4>1, PolicyAssumption DEF Throttled
      <4> HIDE DEF B, R
      <4>3. QED
        BY <2>4, <2>5, <4>2, PolicyAssumption
    <3>3. QED
      BY <3>1, <3>2, StepMoves DEF Moves
  <2> HIDE DEF B, R
  <2>7. Cardinality(B') < BURST_MAX_PER_WINDOW
    BY <2>5, <2>6, PolicyAssumption
  <2>8. QED
    BY <2>7 DEF B, R
<1>3. TypeOK /\ UnderLimit => BurstIsBounded
  BY DEF TypeOK, UnderLimit, BurstIsBounded
<1>4. QED
  BY <1>1, <1>2, <1>3, TypeCorrect, PTL DEF Spec

\* Neither repeating nor hurrying gets a reporter more rows than the policy allows.
THEOREM LimitTheorem == Spec => []ReporterIsLimited
<1>1. RepeatIsRejected /\ BurstIsBounded => ReporterIsLimited
  BY DEF ReporterIsLimited
<1>2. QED
  BY <1>1, RepeatTheorem, BurstTheorem, PTL

------------------------------------------------------------------------------
(* The answers *)

Answering == {"reports", "graph", "answered"}

\* The count of a verdict was read when the verdict was taken, or is the
\* fallback's, which raises no signal.
CountWasRead ==
    \A q \in Requests :
      pc[q] \in Answering
        => \/ independent[q] < MULTI_REPORT_THRESHOLD
           \/ independent[q] <= IndependentCount(target[q])

\* A reporter once counted for a target stays counted.
LEMMA CountGrows ==
    ASSUME TypeOK, Fresh, [Next]_vars, NEW t
    PROVE  IndependentCount(t) <= IndependentCount(t)'
<1>1. ReportersOf(t) \in SUBSET ReportersOf(t)'
  BY Kept DEF Fresh, TypeOK, ReportersOf
<1>2. TypeOK'
  BY TypeInductive
<1>3. IsFiniteSet(ReportersOf(t)')
  BY <1>2, ReportersFiniteNext
<1>4. QED
  BY <1>1, <1>3, FS_Subset DEF IndependentCount

\* The signal of many reports is true: when an answer carries it, as many
\* distinct reporters as the policy asks have a row, in every interleaving.
THEOREM SignalTheorem == Spec => []SignalIsTrue
<1>1. Init => Fresh /\ CountWasRead
  BY DEF Init, Fresh, CountWasRead, Answering
<1>2. TypeOK /\ Fresh /\ CountWasRead /\ [Next]_vars => (Fresh /\ CountWasRead)'
  <2> SUFFICES ASSUME TypeOK, Fresh, CountWasRead, [Next]_vars,
                      NEW q \in Requests, pc'[q] \in Answering
               PROVE  \/ independent'[q] < MULTI_REPORT_THRESHOLD
                      \/ independent'[q] <= IndependentCount(target[q])'
    BY FreshInductive DEF CountWasRead
  <2> USE DEF TypeOK, Go, Answering
  <2>1. CASE CountIndependent(q)
    <3>1. independent'[q] \in {0, IndependentCount(target[q])} /\ target' = target
      BY <2>1 DEF CountIndependent
    <3>2. IndependentCount(target[q]) <= IndependentCount(target[q])'
      BY <3>1, CountGrows
    <3>3. QED
      BY <3>1, <3>2, PolicyAssumption
  <2>2. CASE EvaluateFails(q)
    BY <2>2, PolicyAssumption DEF EvaluateFails
  <2>3. CASE /\ independent'[q] = independent[q]
             /\ pc[q] \in Answering
    <3>1. target'[q] = target[q]
      BY <2>3, Kept
    <3>2. PICK t : t = target[q] /\ t = target'[q]
      BY <3>1
    <3>3. /\ independent[q] < MULTI_REPORT_THRESHOLD \/ independent[q] <= IndependentCount(t)
          /\ IndependentCount(t) \in Nat
      BY <2>3, <3>2, ReportersFinite DEF CountWasRead
    <3>4. IndependentCount(t) <= IndependentCount(t)'
      BY CountGrows
    <3>5. IndependentCount(t)' \in Nat
      BY TypeInductive, ReportersFiniteNext
    <3>6. IndependentCount(t)' = IndependentCount(target[q])'
      BY <3>2 DEF IndependentCount, ReportersOf
    <3>7. QED
      BY <2>3, <3>3, <3>4, <3>5, <3>6
  <2>4. \/ CountIndependent(q) \/ EvaluateFails(q)
        \/ independent'[q] = independent[q] /\ pc[q] \in Answering
    <3>1. ASSUME NEW p \in Requests,
                 Arrive(p) \/ ExistsEver(p) \/ BurstCount(p) \/ InsertEvent(p)
          PROVE  independent'[q] = independent[q] /\ pc[q] \in Answering
      BY <3>1 DEF Arrive, ExistsEver, BurstCount, InsertEvent
    <3>2. ASSUME NEW p \in Requests, p # q, CountIndependent(p) \/ EvaluateFails(p)
          PROVE  independent'[q] = independent[q] /\ pc[q] \in Answering
      BY <3>2 DEF CountIndependent, EvaluateFails
    <3>3. ASSUME NEW p \in Requests, SaveReport(p) \/ MergeGraph(p)
          PROVE  independent'[q] = independent[q] /\ pc[q] \in Answering
      BY <3>3 DEF SaveReport, MergeGraph
    <3>4. CASE GatewayDies \/ Tick \/ UNCHANGED vars
      BY <3>4 DEF GatewayDies, Tick, vars
    <3>5. QED
      BY <3>1, <3>2, <3>3, <3>4 DEF Next, Evaluate
  <2>5. QED
    BY <2>1, <2>2, <2>3, <2>4
<1>3. TypeOK /\ CountWasRead => SignalIsTrue
  <2> SUFFICES ASSUME TypeOK, CountWasRead, NEW q \in Requests, pc[q] \in Answering, Signal(q)
               PROVE  IndependentCount(target[q]) >= MULTI_REPORT_THRESHOLD
    BY DEF SignalIsTrue, Answering
  <2>1. IndependentCount(target[q]) \in Nat
    BY ReportersFinite
  <2>2. QED
    BY <2>1, PolicyAssumption DEF CountWasRead, Signal, TypeOK
<1>4. QED
  BY <1>1, <1>2, <1>3, TypeCorrect, PTL DEF Spec

\* Those whose count was read: rows of a target whose evaluate has not failed.
CountedOf(t) ==
    {q \in events : /\ target[q] = t
                    /\ pc[q] \in {"reports", "graph", "answered"}
                    /\ <<q, "events">> \notin failed
                    /\ <<q, "count">> \notin failed}

Distinct(S) == Cardinality({reporter[p] : p \in S})

\* However many of them are taken, the last of these to count saw the others.
SomeoneSaw ==
    \A t \in Targets : \A S \in SUBSET CountedOf(t) :
      S # {} => \E q \in S : independent[q] >= Distinct(S)

\* A request enters CountedOf by its count alone, and keeps what it read.
LEMMA CountedStays ==
    ASSUME TypeOK, Fresh, [Next]_vars, NEW t \in Targets, NEW p \in CountedOf(t)'
    PROVE  CountIndependent(p) \/ (p \in CountedOf(t) /\ independent'[p] = independent[p])
<1> USE DEF TypeOK, CountedOf, Go
<1>1. p \in Requests /\ p \in events' /\ pc'[p] \in {"reports", "graph", "answered"}
  <2>1. TypeOK'
    BY TypeInductive
  <2>2. QED
    BY <2>1
<1>2. pc[p] # "new" /\ target'[p] = target[p]
  <2>1. Moves(p)
    BY <1>1, StepMoves
  <2>2. pc[p] # "new"
    BY <1>1, <2>1 DEF Moves
  <2>3. QED
    BY <1>1, <2>2, Kept
<1> DEFINE Stays == p \in CountedOf(t) /\ independent'[p] = independent[p]
<1>3. ASSUME NEW q \in Requests,
             Arrive(q) \/ ExistsEver(q) \/ BurstCount(q) \/ InsertEvent(q)
      PROVE  Stays
  <2>1. p # q
    BY <1>1, <1>3 DEF Arrive, ExistsEver, BurstCount, InsertEvent
  <2>2. QED
    BY <1>1, <1>2, <1>3, <2>1 DEF Arrive, ExistsEver, BurstCount, InsertEvent
<1>4. ASSUME NEW q \in Requests, CountIndependent(q), p # q
      PROVE  Stays
  BY <1>1, <1>2, <1>4 DEF CountIndependent, Outcome, Fails
<1>5. ASSUME NEW q \in Requests, EvaluateFails(q)
      PROVE  Stays
  <2>1. p # q
    BY <1>1, <1>5 DEF EvaluateFails, Fails
  <2>2. p \in events
    BY <1>1, <1>5, <2>1 DEF EvaluateFails
  <2>3. QED
    BY <1>1, <1>2, <1>5, <2>1, <2>2 DEF EvaluateFails, Fails
<1>6. ASSUME NEW q \in Requests, SaveReport(q) \/ MergeGraph(q)
      PROVE  Stays
  BY <1>1, <1>2, <1>6 DEF SaveReport, MergeGraph, Outcome, Fails
<1>7. CASE GatewayDies
  BY <1>1, <1>2, <1>7 DEF GatewayDies
<1>8. CASE Tick \/ UNCHANGED vars
  BY <1>1, <1>2, <1>8 DEF Tick, vars
<1>9. QED
  BY <1>3, <1>4, <1>5, <1>6, <1>7, <1>8 DEF Next, Evaluate

\* The signal is not lost between requests that count at once, for any number of
\* them and any threshold: of those that were answered, the last to count had all
\* their rows before it.
THEOREM SignalReaches == Spec => []SignalNotLost
<1>1. Init => Fresh /\ SomeoneSaw
  BY DEF Init, Fresh, SomeoneSaw, CountedOf
<1>2. TypeOK /\ Fresh /\ SomeoneSaw /\ [Next]_vars => SomeoneSaw'
  <2> SUFFICES ASSUME TypeOK, Fresh, SomeoneSaw, [Next]_vars, NEW t \in Targets,
                      NEW S \in SUBSET CountedOf(t)', S # {}
               PROVE  \E q \in S : independent'[q] >= Distinct(S)'
    BY DEF SomeoneSaw
  <2>1. CASE \E q \in S : CountIndependent(q)
    <3>1. PICK q \in S : CountIndependent(q)
      BY <2>1
    <3>2. S \in SUBSET Requests /\ q \in Requests
      BY TypeInductive DEF TypeOK, CountedOf
    <3>3. UNCHANGED <<target, reporter, events>>
      BY <3>1 DEF CountIndependent
    <3>4. <<q, "count">> \notin failed' /\ target[q] = t
      BY <3>3 DEF CountedOf
    <3>5. independent'[q] = IndependentCount(t)
      BY <3>1, <3>2, <3>4 DEF CountIndependent, Outcome, Fails, TypeOK
    <3>6. {reporter[p] : p \in S} \in SUBSET ReportersOf(t)
      BY <3>3 DEF CountedOf, ReportersOf
    <3>7. IsFiniteSet(ReportersOf(t))
      BY ReportersFinite
    <3>8. Distinct(S) <= IndependentCount(t)
      BY <3>6, <3>7, FS_Subset DEF Distinct, IndependentCount
    <3>9. Distinct(S)' = Distinct(S)
      BY <3>3 DEF Distinct
    <3>10. Distinct(S) \in Nat /\ IndependentCount(t) \in Nat
      <4>1. IsFiniteSet({reporter[p] : p \in S})
        BY <3>6, <3>7, FS_Subset
      <4>2. QED
        BY <4>1, FS_CardinalityType, ReportersFinite DEF Distinct
    <3>11. QED
      BY <3>5, <3>8, <3>9, <3>10
  <2>2. CASE ~ \E q \in S : CountIndependent(q)
    <3>1. \A p \in S : p \in CountedOf(t) /\ independent'[p] = independent[p]
      BY <2>2, CountedStays
    <3>2. PICK q \in S : independent[q] >= Distinct(S)
      BY <3>1 DEF SomeoneSaw
    <3>3. \A p \in S : reporter'[p] = reporter[p]
      BY <3>1, Kept DEF CountedOf, TypeOK
    <3>4. {reporter'[p] : p \in S} = {reporter[p] : p \in S}
      BY <3>3
    <3>5. Distinct(S)' = Distinct(S)
      BY <3>4 DEF Distinct
    <3>6. QED
      BY <3>1, <3>2, <3>5
  <2>3. QED
    BY <2>1, <2>2
<1>3. TypeOK /\ SomeoneSaw => SignalNotLost
  <2> SUFFICES ASSUME TypeOK, SomeoneSaw, NEW t \in Targets \ Allowlist
               PROVE  LET done == {q \in events : target[q] = t /\ pc[q] = "answered"}
                      IN  /\ Distinct(done) >= MULTI_REPORT_THRESHOLD
                          /\ failed \cap (done \X {"events", "count"}) = {}
                          => \E q \in done : Signal(q)
    BY DEF SignalNotLost, Distinct
  <2> DEFINE done == {q \in events : target[q] = t /\ pc[q] = "answered"}
  <2> SUFFICES ASSUME Distinct(done) >= MULTI_REPORT_THRESHOLD,
                      failed \cap (done \X {"events", "count"}) = {}
               PROVE  \E q \in done : Signal(q)
    OBVIOUS
  <2>1. done \in SUBSET CountedOf(t)
    BY DEF CountedOf
  <2>2. Distinct(done) \in Nat
    <3>1. done \in SUBSET Requests
      BY DEF TypeOK
    <3> DEFINE T == {reporter[p] : p \in done}
    <3>2. \A x \in T : \E p \in done : reporter[p] = x
      OBVIOUS
    <3> HIDE DEF done, T
    <3>3. Cardinality(T) \in Nat
      BY <3>1, <3>2, ImageFinite
    <3>4. QED
      BY <3>3 DEF Distinct, T
  <2>3. done # {}
    <3>1. SUFFICES ASSUME done = {}
                   PROVE  FALSE
      OBVIOUS
    <3>2. {reporter[p] : p \in done} = {}
      BY <3>1
    <3>3. Distinct(done) = 0
      BY <3>2, FS_EmptySet DEF Distinct
    <3>4. QED
      BY <3>3, PolicyAssumption
  <2>4. PICK q \in done : independent[q] >= Distinct(done)
    BY <2>1, <2>3 DEF SomeoneSaw
  <2>5. independent[q] \in Nat /\ target[q] = t
    BY DEF TypeOK
  <2>6. QED
    BY <2>2, <2>4, <2>5, PolicyAssumption DEF Signal, Allowlisted
<1>4. QED
  BY <1>1, <1>2, <1>3, FreshInductive, TypeCorrect, PTL DEF Spec

\* Past its insert a report that was escalated has its row or a failure of its
\* own: whoever else reports, repeats or dies.
Escalated ==
    \A q \in Requests :
      pc[q] \in {"graph", "answered"} /\ status[q] = "reported"
        => q \in reports \/ <<q, "reports">> \in failed

\* A reporter told "reported" counts in the grade unless that very insert failed.
THEOREM AnsweredTheorem == Spec => []AnsweredReportCounts
<1>1. Init => Escalated
  BY DEF Init, Escalated
<1>2. TypeOK /\ Escalated /\ [Next]_vars => Escalated'
  <2> SUFFICES ASSUME TypeOK, Escalated, [Next]_vars
               PROVE  Escalated'
    OBVIOUS
  <2> USE DEF TypeOK, Escalated, Go
  <2>1. ASSUME NEW q \in Requests,
               Arrive(q) \/ ExistsEver(q) \/ BurstCount(q) \/ InsertEvent(q)
        PROVE  Escalated'
    BY <2>1 DEF Arrive, ExistsEver, BurstCount, InsertEvent
  <2>2. ASSUME NEW q \in Requests, CountIndependent(q)
        PROVE  Escalated'
    BY <2>2 DEF CountIndependent, AfterVerdict, Outcome, Fails
  <2>3. ASSUME NEW q \in Requests, EvaluateFails(q)
        PROVE  Escalated'
    BY <2>3 DEF EvaluateFails, AfterVerdict, Fails
  <2>4. ASSUME NEW q \in Requests, SaveReport(q)
        PROVE  Escalated'
    BY <2>4 DEF SaveReport, Outcome, Fails
  <2>5. ASSUME NEW q \in Requests, MergeGraph(q)
        PROVE  Escalated'
    BY <2>5 DEF MergeGraph, Outcome, Fails
  <2>6. CASE GatewayDies
    BY <2>6 DEF GatewayDies
  <2>7. CASE Tick \/ UNCHANGED vars
    BY <2>7 DEF Tick, vars
  <2>8. QED
    BY <2>1, <2>2, <2>3, <2>4, <2>5, <2>6, <2>7 DEF Next, Evaluate
<1>3. Escalated => AnsweredReportCounts
  BY DEF Escalated, AnsweredReportCounts
<1>4. QED
  BY <1>1, <1>2, <1>3, TypeCorrect, PTL DEF Spec

------------------------------------------------------------------------------
(* The grade of a check *)

\* An escalated request has the verdict "reported", and a row of reports only once it
\* is past that insert; unless evaluate failed for it, it has its row in report_events.
RowBacked ==
    \A q \in Requests :
      /\ q \in reports \/ pc[q] \in {"reports", "graph"} => status[q] = "reported"
      /\ q \in reports => pc[q] \in {"graph", "answered", "lost"}
      /\ (pc[q] = "count" /\ status[q] = "reported") \/ pc[q] = "reports" \/ q \in reports
           => q \in events \/ <<q, "events">> \in failed

LEMMA RowsInductive == TypeOK /\ Fresh /\ RowBacked /\ [Next]_vars => RowBacked'
<1> SUFFICES ASSUME TypeOK, Fresh, RowBacked, [Next]_vars
             PROVE  RowBacked'
  OBVIOUS
<1> USE DEF TypeOK, RowBacked, Go
<1>1. ASSUME NEW q \in Requests, Arrive(q) \/ ExistsEver(q) \/ BurstCount(q)
      PROVE  RowBacked'
  BY <1>1 DEF Arrive, ExistsEver, BurstCount
<1>2. ASSUME NEW q \in Requests, InsertEvent(q)
      PROVE  RowBacked'
  BY <1>2 DEF InsertEvent, Recording
<1>3. ASSUME NEW q \in Requests, CountIndependent(q)
      PROVE  RowBacked'
  BY <1>3 DEF CountIndependent, AfterVerdict, Outcome, Fails
<1>4. ASSUME NEW q \in Requests, EvaluateFails(q)
      PROVE  RowBacked'
  BY <1>4 DEF EvaluateFails, AfterVerdict, Fails, Evaluating
<1>5. ASSUME NEW q \in Requests, SaveReport(q)
      PROVE  RowBacked'
  BY <1>5 DEF SaveReport, Outcome, Fails
<1>6. ASSUME NEW q \in Requests, MergeGraph(q)
      PROVE  RowBacked'
  BY <1>6 DEF MergeGraph, Outcome, Fails
<1>7. CASE GatewayDies
  BY <1>7 DEF GatewayDies, InFlight
<1>8. CASE Tick \/ UNCHANGED vars
  BY <1>8 DEF Tick, vars
<1>9. QED
  BY <1>1, <1>2, <1>3, <1>4, <1>5, <1>6, <1>7, <1>8 DEF Next, Evaluate

\* The rows that a check counts are finitely many.
LEMMA RowsFinite ==
    ASSUME TypeOK, NEW t
    PROVE  /\ IsFiniteSet({q \in reports : target[q] = t})
           /\ ReportCount(t) \in Nat
<1> DEFINE R == {q \in reports : target[q] = t}
<1>1. R \in SUBSET Requests
  BY DEF TypeOK
<1>2. QED
  BY <1>1, RequestsAssumption, FS_Subset, FS_CardinalityType DEF ReportCount

\* Where every row passed the defence and no two of one reporter overlapped, the two
\* tables agree: each row is of a reporter of its own, whom report_events knows.
LEMMA RowsAreReporters ==
    ASSUME TypeOK, RowBacked, RepeatIsRejected, NEW t, Defended(t)
    PROVE  ReportCount(t) <= IndependentCount(t)
<1> DEFINE R == {q \in reports : target[q] = t}
           f == [q \in R |-> reporter[q]]
<1>1. \A q \in R : q \in events
  BY DEF TypeOK, RowBacked, Defended
<1>2. f \in Injection(R, ReportersOf(t))
  <2>1. \A q \in R : f[q] \in ReportersOf(t)
    BY <1>1 DEF ReportersOf
  <2>2. ASSUME NEW p \in R, NEW q \in R, f[p] = f[q], p # q
        PROVE  FALSE
    <3>1. SamePair(p, q) /\ SamePair(q, p)
      BY <2>2 DEF SamePair
    <3>2. p \notin before[q] /\ q \notin before[p]
      BY <1>1, <2>2, <3>1 DEF RepeatIsRejected
    <3>3. QED
      BY <2>2, <3>1, <3>2 DEF Defended
  <2>3. QED
    BY <2>1, <2>2 DEF Injection, IsInjective
<1> HIDE DEF R, f
<1>3. IsFiniteSet(ReportersOf(t))
  BY ReportersFinite
<1>4. Cardinality(R) <= Cardinality(ReportersOf(t))
  BY <1>2, <1>3, FS_Injection
<1>5. QED
  BY <1>4 DEF ReportCount, IndependentCount, R

\* Whoever was told that the report counts is counted.
LEMMA ToldAreCounted ==
    ASSUME TypeOK, AnsweredReportCounts, NEW t
    PROVE  /\ Cardinality(ReportersTold(t)) <= ReportCount(t)
           /\ Cardinality(ReportersTold(t)) \in Nat
           /\ ReportersTold(t) # {} => ReportCount(t) >= 1
<1> DEFINE P == {p \in Requests :
                   target[p] = t /\ pc[p] = "answered" /\ status[p] = "reported"
                     /\ <<p, "reports">> \notin failed}
           R == {q \in reports : target[q] = t}
           T == ReportersTold(t)
           f == [p \in P |-> reporter[p]]
<1>1. P \in SUBSET R
  BY DEF AnsweredReportCounts
<1>2. T = {reporter[p] : p \in P}
  BY DEF ReportersTold
<1>3. f \in Surjection(P, T)
  BY <1>2 DEF Surjection
<1>4. IsFiniteSet(R) /\ Cardinality(R) = ReportCount(t) /\ ReportCount(t) \in Nat
  BY RowsFinite DEF ReportCount
<1>5. T # {} => P # {}
  BY <1>2
<1> HIDE DEF P, R, T, f
<1>6. IsFiniteSet(P) /\ Cardinality(P) <= Cardinality(R) /\ Cardinality(P) \in Nat
  BY <1>1, <1>4, FS_Subset, FS_CardinalityType
<1>7. IsFiniteSet(T) /\ Cardinality(T) <= Cardinality(P) /\ Cardinality(T) \in Nat
  BY <1>3, <1>6, FS_Surjection, FS_CardinalityType
<1>8. T # {} => Cardinality(P) >= 1
  BY <1>5, <1>6, FS_EmptySet
<1>9. QED
  BY <1>4, <1>6, <1>7, <1>8 DEF T

\* An allowlisted value has no rows.
LEMMA AllowlistedUncounted ==
    ASSUME AllowlistProtected, NEW t \in Allowlist
    PROVE  ReportCount(t) = 0
<1>1. {q \in reports : target[q] = t} = {}
  BY DEF AllowlistProtected, Allowlisted
<1>2. QED
  BY <1>1, FS_EmptySet DEF ReportCount

\* Whatever its sources answer or fail to answer, and for any number of requests,
\* check raises a value to danger on reports alone only with three independent
\* reporters, and one or three reporters who were told so raise it in every check
\* whose COUNT answers.
THEOREM GradeTheorem == Spec => []GradeFollowsReporters
<1>1. Init => Fresh /\ RowBacked
  BY DEF Init, Fresh, RowBacked
<1>2. ASSUME TypeOK, RowBacked, RepeatIsRejected, AllowlistProtected
      PROVE  GradeIsEarned
  <2> SUFFICES ASSUME NEW t \in Targets, NEW rules \in Grades \ {"danger"},
                      NEW counted \in BOOLEAN
               PROVE  LET grade == CheckGrade(t, rules, FALSE, FALSE, counted)
                      IN  /\ grade = "danger" /\ Defended(t) => IndependentCount(t) >= 3
                          /\ t \in Allowlist => grade = rules
    BY DEF GradeIsEarned
  <2> DEFINE grade == CheckGrade(t, rules, FALSE, FALSE, counted)
  <2>1. ReportCount(t) \in Nat /\ IndependentCount(t) \in Nat
    BY <1>2, RowsFinite, ReportersFinite
  <2>2. grade = "danger" => ReportCount(t) >= 3
    BY <2>1 DEF CheckGrade, GradeOf, Grades
  <2>3. Defended(t) => ReportCount(t) <= IndependentCount(t)
    BY <1>2, RowsAreReporters
  <2>4. t \in Allowlist => grade = rules
    <3> SUFFICES ASSUME t \in Allowlist
                 PROVE  grade = rules
      OBVIOUS
    <3>1. ReportCount(t) = 0
      BY <1>2, AllowlistedUncounted
    <3>2. QED
      BY <3>1 DEF CheckGrade, GradeOf
  <2> HIDE DEF grade
  <2>5. grade = "danger" /\ Defended(t) => IndependentCount(t) >= 3
    BY <2>1, <2>2, <2>3
  <2>6. QED
    BY <2>4, <2>5 DEF grade
<1>3. ASSUME TypeOK, AnsweredReportCounts
      PROVE  GradeCountsReporters
  <2> SUFFICES ASSUME NEW t \in Targets, ReportersTold(t) # {},
                      NEW rules \in Grades, NEW linked \in BOOLEAN, NEW listed \in BOOLEAN
               PROVE  LET grade == CheckGrade(t, rules, linked, listed, TRUE)
                      IN  /\ grade \in {"warning", "danger"}
                          /\ Cardinality(ReportersTold(t)) >= 3 => grade = "danger"
    BY DEF GradeCountsReporters
  <2>1. /\ ReportCount(t) \in Nat /\ ReportCount(t) >= 1
        /\ Cardinality(ReportersTold(t)) \in Nat
        /\ Cardinality(ReportersTold(t)) <= ReportCount(t)
    BY <1>3, RowsFinite, ToldAreCounted
  <2>2. QED
    BY <2>1 DEF CheckGrade, GradeOf, Grades
<1>4. TypeOK /\ RowBacked /\ RepeatIsRejected /\ AllowlistProtected /\ AnsweredReportCounts
        => GradeFollowsReporters
  BY <1>2, <1>3 DEF GradeFollowsReporters
<1>5. QED
  BY <1>1, <1>4, FreshInductive, RowsInductive, TypeCorrect, RepeatTheorem, AllowlistTheorem,
     AnsweredTheorem, PTL DEF Spec
==============================================================================
