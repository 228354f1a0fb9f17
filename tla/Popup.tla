--------------------------------- MODULE Popup --------------------------------
(***************************************************************************)
(* The popup of apps/extension beside the background worker's count of      *)
(* blocked visits.  The count is read and written back by handlers that     *)
(* interleave; the popup shows the stored list and count it read when it    *)
(* was opened or when the user last synced.                                 *)
(***************************************************************************)
EXTENDS ExtensionStore

CONSTANTS
    Pages,          \* block pages whose count may be under way
    MaxBlocks,      \* bound: visits blocked
    MaxDays         \* bound: midnights

ASSUME PopupAssumption ==
    /\ MaxBlocks \in Nat /\ MaxDays \in Nat
    /\ None \notin [date : 0 .. MaxDays, today : 0 .. MaxBlocks, total : 0 .. MaxBlocks]

VARIABLES
    day,
    stats,          \* storage.local: date, blockedToday, blockedTotal
    badge,          \* the count on the icon
    counting,       \* recordBlocked, per page: None, or the stats it is storing
    blocks,         \* history: visits blocked today
    crossedCounts,  \* history: two counts were under way at once, or over midnight
    popupOpen,
    seen,           \* the change of the store the shown verdict is from
    shownToday,     \* the count shown
    busy,           \* buttons that are disabled, each with what it waits for
    synced          \* the change of the store the user's last sync ended at

countVars == <<day, stats, badge, counting, blocks, crossedCounts>>
viewVars == <<popupOpen, seen, shownToday, busy, synced>>
popupVars == <<countVars, viewVars>>

Stats == [date : 0 .. MaxDays, today : 0 .. MaxBlocks, total : 0 .. MaxBlocks]
NoStats == [date |-> 0, today |-> 0, total |-> 0]
Waits == {[button |-> "inspect", for |-> "check"], [button |-> "report", for |-> "report"],
          [button |-> "sync", for |-> "sync"], [button |-> "sync", for |-> "status"],
          [button |-> "sync", for |-> "verdict"]}

PopupTypeOK ==
    /\ day \in 0 .. MaxDays
    /\ stats \in Stats /\ stats.today <= stats.total
    /\ badge \in 0 .. MaxBlocks
    /\ counting \in [Pages -> Stats \cup {None}]
    /\ blocks \in 0 .. MaxBlocks
    /\ crossedCounts \in BOOLEAN
    /\ popupOpen \in BOOLEAN
    /\ seen \in 0 .. MaxChanges
    /\ shownToday \in 0 .. MaxBlocks
    /\ busy \subseteq Waits
    /\ \A w, u \in busy : w.button = u.button => w = u
    /\ synced \in 0 .. MaxChanges

PopupInit ==
    /\ day = 0
    /\ stats = NoStats
    /\ badge = 0
    /\ counting = [p \in Pages |-> None]
    /\ blocks = 0
    /\ crossedCounts = FALSE
    /\ popupOpen = FALSE
    /\ seen = 0 /\ shownToday = 0 /\ synced = 0
    /\ busy = {}

------------------------------------------------------------------------------
(* recordBlocked *)

\* Mutant: the count of another day is carried on.
Carried(s) == [date |-> day, today |-> s.today + 1, total |-> s.total + 1]

\* The count starts again with the day.
Counted(s) ==
    [date |-> day, today |-> (IF s.date = day THEN s.today ELSE 0) + 1, total |-> s.total + 1]

\* A block page reports its visit; the handler reads the count and computes the
\* next one, of the day it is then.
VisitBlocked(p) ==
    /\ counting[p] = None
    /\ stats.total < MaxBlocks /\ blocks < MaxBlocks
    /\ blocks' = blocks + 1
    /\ crossedCounts' = (crossedCounts \/ \E q \in Pages : counting[q] # None)
    /\ counting' = [counting EXCEPT ![p] = Counted(stats)]
    /\ UNCHANGED <<storeVars, viewVars, day, stats, badge>>

\* It writes it back and refreshes the badge.
CountStored(p) ==
    /\ counting[p] # None
    /\ stats' = counting[p]
    /\ badge' = stats'.today
    /\ counting' = [counting EXCEPT ![p] = None]
    /\ UNCHANGED <<storeVars, viewVars, day, blocks, crossedCounts>>

Midnight ==
    /\ day < MaxDays
    /\ day' = day + 1
    /\ blocks' = 0
    /\ crossedCounts' = (\E p \in Pages : counting[p] # None)
    /\ UNCHANGED <<storeVars, viewVars, stats, badge, counting>>

\* bootstrap: refreshBadge, with the count of today.
BadgeRefreshed ==
    /\ badge' = IF stats.date = day THEN stats.today ELSE 0
    /\ UNCHANGED <<storeVars, viewVars, day, stats, counting, blocks, crossedCounts>>

------------------------------------------------------------------------------
(* The popup *)

Disabled(button) == \E w \in busy : w.button = button
Wait(button, what) == [button |-> button, for |-> what]

\* init: loadLocalVerdict and loadStatus; the status has the stats as stored.
OpenPopup ==
    /\ ~popupOpen
    /\ popupOpen' = TRUE
    /\ seen' = changes
    /\ shownToday' = stats.today
    /\ UNCHANGED <<storeVars, countVars, busy, synced>>

\* Leaving the popup ends its page; a sync goes on in the worker.
ClosePopup ==
    /\ popupOpen
    /\ popupOpen' = FALSE
    /\ busy' = {}
    /\ seen' = 0 /\ shownToday' = 0 /\ synced' = 0
    /\ UNCHANGED <<storeVars, countVars>>

Press(button, what) ==
    /\ popupOpen
    /\ ~Disabled(button)
    /\ busy' = busy \cup {Wait(button, what)}
    /\ UNCHANGED <<storeVars, countVars, popupOpen, seen, shownToday, synced>>

\* onInspect, onReport.
Inspect == Press("inspect", "check")
Report == Press("report", "report")

\* The worker answers, an error where the gateway or the worker is gone.
Answered(button, what) ==
    /\ Wait(button, what) \in busy
    /\ busy' = busy \ {Wait(button, what)}
    /\ UNCHANGED <<storeVars, countVars, popupOpen, seen, shownToday, synced>>

InspectAnswered == Answered("inspect", "check")
ReportAnswered == Answered("report", "report")

Sync == Press("sync", "sync")

Moves(from, to) == busy' = (busy \ {Wait("sync", from)}) \cup {Wait("sync", to)}

\* onSync: the sync stores another list, or none ...
SyncAnswers ==
    /\ Wait("sync", "sync") \in busy
    /\ \/ ListChanges /\ synced' = changes'
       \/ UNCHANGED <<storeVars, synced>>
    /\ Moves("sync", "status")
    /\ UNCHANGED <<countVars, popupOpen, seen, shownToday>>

\* ... then the status is read again, unless it fails ...
StatusAnswers ==
    /\ Wait("sync", "status") \in busy
    /\ Moves("status", "verdict")
    /\ shownToday' \in {stats.today, shownToday}
    /\ UNCHANGED <<storeVars, countVars, popupOpen, seen, synced>>

\* ... and the verdict, from the list of now.
VerdictRead ==
    /\ Wait("sync", "verdict") \in busy
    /\ busy' = busy \ {Wait("sync", "verdict")}
    /\ seen' = changes
    /\ UNCHANGED <<storeVars, countVars, popupOpen, shownToday, synced>>

BackgroundSyncs == ListChanges /\ UNCHANGED popupVars

PopupAnswers ==
    \/ InspectAnswered \/ ReportAnswered
    \/ SyncAnswers \/ StatusAnswers \/ VerdictRead

PopupNext ==
    \/ \E p \in Pages : VisitBlocked(p) \/ CountStored(p)
    \/ Midnight \/ BadgeRefreshed
    \/ OpenPopup \/ ClosePopup \/ Inspect \/ Report \/ Sync
    \/ PopupAnswers \/ BackgroundSyncs
==============================================================================
