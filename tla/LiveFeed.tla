-------------------------------- MODULE LiveFeed ------------------------------
(***************************************************************************)
(* The live feed: FeedHandler of the gateway broadcasts the events of the   *)
(* heartbeat and of scans to its WebSocket sessions; subscribeFeed of the   *)
(* web client keeps one socket to it, reconnects, and the LiveFeed panel    *)
(* shows the newest rows.  One viewer; a socket and its session have one    *)
(* name.                                                                    *)
(***************************************************************************)
EXTENDS Naturals, Sequences, FiniteSets, SequencesExt

CONSTANTS
    MAX_ROWS,       \* rows the panel keeps
    SeedRows,       \* rows the panel starts with
    MaxEvents,      \* bound: events broadcast
    MaxFailures,    \* bound: sockets that fail
    Scanners        \* request threads that broadcast scans

ASSUME FeedAssumption ==
    /\ MAX_ROWS \in Nat \ {0} /\ SeedRows \in 0 .. MAX_ROWS
    /\ MaxEvents \in Nat
    /\ MaxFailures \in Nat
    /\ "scheduler" \notin Scanners

Events == 1 .. MaxEvents
Sockets == 1 .. MaxFailures + 1

\* seedEvents: a seed row is a 0.
SeedEvents == [i \in 1 .. SeedRows |-> 0]

Threads == Scanners \cup {"scheduler"}

VARIABLES
    realPool,       \* indicators were loaded: the heartbeat has no need of seeds
    sessions,       \* the sessions of FeedHandler
    loop,           \* the broadcast a thread is in: the sessions it iterates
                    \* over, those it is done with, the one it sends to
    published,      \* events broadcast so far
    collided,       \* sends that failed because another thread was sending
    wire,           \* frames on their way, per socket
    readyState,     \* of each socket, as the browser sees it
    socket,         \* the socket subscribeFeed holds, 0 for null
    listening,      \* sockets whose callbacks are set
    timer,          \* reconnectTimer is set
    stopped,        \* unsubscribed
    mounted,        \* the panel is on the page
    connected,      \* status it shows
    rows,           \* rows of the panel, newest first
    shown           \* every event the panel was given

server == <<realPool, sessions, loop, published, collided>>
client == <<socket, listening, timer, stopped>>
panel == <<mounted, connected, rows, shown>>
vars == <<server, wire, readyState, client, panel>>

Idle == [event |-> 0, audience |-> {}, done |-> {}, at |-> 0]
Loops ==
    [event : Events \cup {0}, audience : SUBSET Sockets, done : SUBSET Sockets,
     at : Sockets \cup {0}]

TypeOK ==
    /\ realPool \in BOOLEAN
    /\ sessions \subseteq Sockets
    /\ loop \in [Threads -> Loops]
    /\ published \subseteq Events
    /\ collided \subseteq Sockets \X Events
    /\ wire \in [Sockets -> Seq(Events)]
    /\ readyState \in [Sockets -> {"new", "connecting", "open", "failed", "closed"}]
    /\ socket \in Sockets \cup {0}
    /\ listening \subseteq Sockets
    /\ timer \in BOOLEAN
    /\ stopped \in BOOLEAN
    /\ mounted \in BOOLEAN
    /\ connected \in BOOLEAN
    /\ rows \in Seq(Events \cup {0})
    /\ shown \in Seq(Events)

\* LiveFeed has mounted: subscribeFeed has connected for the first time.
Init ==
    /\ realPool = FALSE
    /\ sessions = {}
    /\ loop = [t \in Threads |-> Idle]
    /\ published = {}
    /\ collided = {}
    /\ wire = [s \in Sockets |-> << >>]
    /\ readyState = [s \in Sockets |-> IF s = 1 THEN "connecting" ELSE "new"]
    /\ socket = 1
    /\ listening = {1}
    /\ timer = FALSE
    /\ stopped = FALSE
    /\ mounted = TRUE
    /\ connected = FALSE
    /\ rows = SeedEvents
    /\ shown = << >>

------------------------------------------------------------------------------
(* FeedHandler *)

\* refreshPool: only a load that found rows replaces the pool.
RefreshPool ==
    /\ loop["scheduler"] = Idle
    /\ realPool' \in {realPool, TRUE}
    /\ UNCHANGED <<sessions, loop, published, collided, wire, readyState, client, panel>>

\* heartbeat on the scheduler's thread, or the scan of a request thread: the loop
\* of broadcast iterates over the sessions there are now.
Broadcast(t) ==
    /\ loop[t] = Idle
    /\ Cardinality(published) < MaxEvents
    /\ LET e == Cardinality(published) + 1 IN
         /\ published' = published \cup {e}
         /\ loop' = [loop EXCEPT ![t] =
                       [event |-> e, audience |-> sessions, done |-> {}, at |-> 0]]
    /\ UNCHANGED <<realPool, sessions, collided, wire, readyState, client, panel>>

\* Mutant: the loop meets the sessions that join while it runs.
LeftLive(t) == sessions \ loop[t].done

\* A copy-on-write set: the loop keeps to the sessions of its start.
Left(t) == loop[t].audience \ loop[t].done

Busy(s) == \E t \in Threads : loop[t].at = s

Done(t, s) == [loop EXCEPT ![t].done = @ \cup {s}, ![t].at = 0]

\* sendMessage of an open session.  A session on which another thread is sending
\* throws, and broadcast swallows it.
StartSend(t, s) ==
    /\ loop[t].event # 0 /\ loop[t].at = 0
    /\ s \in Left(t)
    /\ IF s \notin sessions
         THEN loop' = Done(t, s) /\ UNCHANGED collided
         ELSE IF Busy(s)
           THEN loop' = Done(t, s) /\ collided' = collided \cup {<<s, loop[t].event>>}
           ELSE loop' = [loop EXCEPT ![t].at = s] /\ UNCHANGED collided
    /\ UNCHANGED <<realPool, sessions, published, wire, readyState, client, panel>>

\* A frame sent on a socket that has failed is lost.
Frame(s, e) ==
    wire' = IF s \in sessions /\ readyState[s] = "open"
              THEN [wire EXCEPT ![s] = Append(@, e)] ELSE wire

\* Mutant: the exception of a session that died ends the loop.
SendBreaks(t) ==
    /\ loop[t].at # 0
    /\ LET s == loop[t].at IN
         /\ Frame(s, loop[t].event)
         /\ loop' = IF s \in sessions
                      THEN Done(t, s)
                      ELSE [loop EXCEPT ![t].done = loop[t].audience, ![t].at = 0]
    /\ UNCHANGED <<realPool, sessions, published, collided, readyState, client, panel>>

\* The frame is sent; or the session has died meanwhile and the exception is
\* swallowed.
EndSend(t) ==
    /\ loop[t].at # 0
    /\ LET s == loop[t].at IN
         /\ Frame(s, loop[t].event)
         /\ loop' = Done(t, s)
    /\ UNCHANGED <<realPool, sessions, published, collided, readyState, client, panel>>

EndBroadcast(t) ==
    /\ loop[t].event # 0 /\ loop[t].at = 0
    /\ Left(t) = {}
    /\ loop' = [loop EXCEPT ![t] = Idle]
    /\ UNCHANGED <<realPool, sessions, published, collided, wire, readyState, client, panel>>

\* afterConnectionClosed, some time after the socket went.
SessionCloses(s) ==
    /\ s \in sessions
    /\ readyState[s] \in {"failed", "closed"}
    /\ sessions' = sessions \ {s}
    /\ UNCHANGED <<realPool, loop, published, collided, wire, readyState, client, panel>>

------------------------------------------------------------------------------
(* subscribeFeed *)

Live(s) == readyState[s] \in {"connecting", "open"}

Became(s, state) == readyState' = [readyState EXCEPT ![s] = state]

\* The frames on their way are lost with the socket.
Gone(s, state) == Became(s, state) /\ wire' = [wire EXCEPT ![s] = << >>]

Status(s, up) == connected' = IF s \in listening THEN up ELSE connected

\* onopen, and afterConnectionEstablished at the other end.
Opens(s) ==
    /\ readyState[s] = "connecting"
    /\ Became(s, "open")
    /\ Status(s, TRUE)
    /\ sessions' = sessions \cup {s}
    /\ UNCHANGED <<realPool, loop, published, collided, wire, client, mounted, rows, shown>>

Failures == Cardinality({s \in Sockets : readyState[s] \in {"failed", "closed"}})

\* Mutant: the error handler reconnects, too.
ErrorReconnects(s) ==
    /\ Live(s)
    /\ Failures < MaxFailures
    /\ Gone(s, "failed")
    /\ Status(s, FALSE)
    /\ timer' = (timer \/ (s \in listening /\ ~stopped))
    /\ UNCHANGED <<server, socket, listening, stopped, mounted, rows, shown>>

\* onerror: the status only.
SocketFails(s) ==
    /\ Live(s)
    /\ Failures < MaxFailures
    /\ Gone(s, "failed")
    /\ Status(s, FALSE)
    /\ UNCHANGED <<server, client, mounted, rows, shown>>

\* Mutant: after an error nothing reconnects.
CloseAfterErrorForgets(s) ==
    /\ \/ readyState[s] = "failed"
       \/ readyState[s] = "open" /\ Failures < MaxFailures
    /\ Gone(s, "closed")
    /\ Status(s, FALSE)
    /\ timer' = (timer \/ (s \in listening /\ ~stopped /\ readyState[s] # "failed"))
    /\ UNCHANGED <<server, socket, listening, stopped, mounted, rows, shown>>

\* onclose, after an error or, when the gateway closes, without one:
\* scheduleReconnect.
SocketCloses(s) ==
    /\ \/ readyState[s] = "failed"
       \/ readyState[s] = "open" /\ Failures < MaxFailures
    /\ Gone(s, "closed")
    /\ Status(s, FALSE)
    /\ timer' = (timer \/ (s \in listening /\ ~stopped))
    /\ UNCHANGED <<server, socket, listening, stopped, mounted, rows, shown>>

Newest(s) == readyState[s] = "new" /\ \A r \in 1 .. s - 1 : readyState[r] # "new"

\* The timer fires: connect, unless the subscription is over.
Connect ==
    /\ timer
    /\ timer' = FALSE
    /\ IF stopped
         THEN UNCHANGED <<readyState, socket, listening>>
         ELSE \E s \in Sockets :
                /\ Newest(s)
                /\ Became(s, "connecting")
                /\ socket' = s
                /\ listening' = listening \cup {s}
    /\ UNCHANGED <<server, wire, stopped, panel>>

\* The callback of the panel: the event goes to the front.
ShowRow(e) == rows' = SubSeq(<<e>> \o rows, 1, Min({Len(rows) + 1, MAX_ROWS}))

\* onmessage
Message(s) ==
    /\ readyState[s] = "open"
    /\ wire[s] # << >>
    /\ wire' = [wire EXCEPT ![s] = Tail(@)]
    /\ IF s \in listening
         THEN ShowRow(Head(wire[s])) /\ shown' = Append(shown, Head(wire[s]))
         ELSE UNCHANGED <<rows, shown>>
    /\ UNCHANGED <<server, readyState, client, mounted, connected>>

\* The panel leaves the page: its effect unsubscribes.
Unsubscribe ==
    /\ mounted
    /\ mounted' = FALSE
    /\ stopped' = TRUE
    /\ timer' = FALSE
    /\ IF Live(socket) THEN Gone(socket, "failed") ELSE UNCHANGED <<readyState, wire>>
    /\ listening' = listening \ {socket}
    /\ socket' = 0
    /\ UNCHANGED <<server, connected, rows, shown>>

\* What the panel shows: its status, its rows, and the row that flashes because
\* it came last.
FeedView ==
    [live |-> connected, lines |-> rows,
     flash |-> IF shown = << >> THEN 0 ELSE Last(shown)]

------------------------------------------------------------------------------

Next ==
    \/ RefreshPool
    \/ \E t \in Threads :
         \/ Broadcast(t)
         \/ \E s \in Sockets : StartSend(t, s)
         \/ EndSend(t)
         \/ EndBroadcast(t)
    \/ \E s \in Sockets :
         SessionCloses(s) \/ Opens(s) \/ SocketFails(s) \/ SocketCloses(s) \/ Message(s)
    \/ Connect
    \/ Unsubscribe

Spec == Init /\ [][Next]_vars

\* The browser fires the timer, answers the connection and closes what failed.
CloseFollows(s) == readyState[s] = "failed" /\ SocketCloses(s)

Fairness ==
    /\ WF_vars(Connect)
    /\ \A s \in Sockets : WF_vars(Opens(s)) /\ WF_vars(CloseFollows(s))

FairSpec == Spec /\ Fairness

------------------------------------------------------------------------------
(* Properties *)

\* Whatever order errors, closes and the timer come in, one socket at most can
\* still give the panel an event; and the panel keeps the newest of the events it
\* was given, in the order they came, above the seed rows they leave room for; the row
\* that flashes is the first.  A panel that stays says that it is live exactly while its
\* socket is open, and is never left without a socket or a timer to hear from.
FeedInv ==
    /\ TypeOK
    /\ \A r, s \in listening :
         (readyState[r] # "closed" /\ readyState[s] # "closed") => r = s
    /\ FeedView.lines =
         SubSeq(Reverse(shown) \o SeedEvents, 1, Min({Len(shown) + SeedRows, MAX_ROWS}))
    /\ FeedView.flash # 0 => FeedView.flash = Head(FeedView.lines)
    /\ mounted => /\ FeedView.live <=> readyState[socket] = "open"
                  /\ timer \/ readyState[socket] \in {"connecting", "open", "failed"}

\* An event is shown once at most, though it may be on two sockets and the
\* panel changes from one to the other while it is broadcast; and none is shown
\* to a panel that has left.
Log == INSTANCE FeedLog
         WITH Events <- Events, published <- published, log <- shown, closed <- ~mounted
OnceAndNotAfterLeaving == Log!Spec

\* A session that fails does not keep the event from the others: the loop passes
\* an open session without sending only when another thread was sending to it.
OthersGetTheEvent ==
    \A t \in Threads : \A s \in loop[t].done \cap sessions :
        \/ readyState[s] # "open"
        \/ loop[t].event \in ToSet(wire[s]) \cup ToSet(shown)
        \/ <<s, loop[t].event>> \in collided

\* A panel that stays on the page is connected again, whatever happened to its
\* sockets.
Reconnects == (mounted /\ ~FeedView.live) ~> (~mounted \/ FeedView.live)
==============================================================================
