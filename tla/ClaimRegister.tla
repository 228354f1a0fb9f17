---------------------------- MODULE ClaimRegister ----------------------------
(***************************************************************************)
(* What apps/engine/app/crawl_state.py promises its callers: a register of *)
(* crawl targets in which a set of hosts is claimed in one indivisible     *)
(* step, only hosts that are due at that instant are claimed, and a        *)
(* finished crawl is recorded in one step.  Time is kept as the age of the *)
(* two timestamps of a row.                                                *)
(***************************************************************************)
EXTENDS Integers

CONSTANTS
    Hosts,              \* values a row of crawl_state can have
    ENQUEUE_COOLDOWN,   \* ENQUEUE_COOLDOWN_SEC, in ticks
    RECRAWL_INTERVAL    \* RECRAWL_INTERVAL_SEC, in ticks

ASSUME IntervalAssumption ==
    /\ ENQUEUE_COOLDOWN \in Nat
    /\ RECRAWL_INTERVAL \in Nat

VARIABLES
    tracked,        \* hosts that have a row
    sinceEnqueued,  \* age of last_enqueued
    sinceCrawled    \* age of last_crawled, Never when it is NULL

rows == <<tracked, sinceEnqueued, sinceCrawled>>

Never == -1

\* An age at the horizon stands for every age beyond both intervals.
Horizon == 1 + IF ENQUEUE_COOLDOWN > RECRAWL_INTERVAL
                 THEN ENQUEUE_COOLDOWN
                 ELSE RECRAWL_INTERVAL

Older(age) == IF age \in 0 .. (Horizon - 1) THEN age + 1 ELSE age

RegisterTypeOK ==
    /\ tracked \subseteq Hosts
    /\ sinceEnqueued \in [Hosts -> 0 .. Horizon]
    /\ sinceCrawled \in [Hosts -> {Never} \cup 0 .. Horizon]

RegisterInit ==
    /\ tracked = {}
    /\ sinceEnqueued = [h \in Hosts |-> 0]
    /\ sinceCrawled = [h \in Hosts |-> Never]

\* The condition _ELIGIBLE: no row, or queued long ago and never crawled, or
\* crawled long ago.
Due(h) ==
    \/ h \notin tracked
    \/ sinceCrawled[h] = Never /\ sinceEnqueued[h] > ENQUEUE_COOLDOWN
    \/ sinceCrawled[h] # Never /\ sinceCrawled[h] > RECRAWL_INTERVAL

\* Every host of S is due and all of them are stamped at once.
ClaimAll(S) ==
    /\ \A h \in S : Due(h)
    /\ tracked' = tracked \cup S
    /\ sinceEnqueued' = [h \in Hosts |-> IF h \in S THEN 0 ELSE sinceEnqueued[h]]
    /\ UNCHANGED sinceCrawled

\* A crawl of h is recorded; a host nobody claimed gets its row here.
Record(h) ==
    /\ tracked' = tracked \cup {h}
    /\ sinceCrawled' = [sinceCrawled EXCEPT ![h] = 0]
    /\ sinceEnqueued' =
         IF h \in tracked THEN sinceEnqueued ELSE [sinceEnqueued EXCEPT ![h] = 0]

Age ==
    /\ sinceEnqueued' = [h \in Hosts |-> IF h \in tracked THEN Older(sinceEnqueued[h])
                                                          ELSE sinceEnqueued[h]]
    /\ sinceCrawled' = [h \in Hosts |-> Older(sinceCrawled[h])]
    /\ UNCHANGED tracked

RegisterNext ==
    \/ \E S \in SUBSET Hosts : ClaimAll(S)
    \/ \E h \in Hosts : Record(h)
    \/ Age

RegisterSpec == RegisterInit /\ [][RegisterNext]_rows

==============================================================================
