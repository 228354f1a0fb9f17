----------------------------- MODULE LiveFeedProofs ----------------------------
(***************************************************************************)
(* Proofs about LiveFeed for any number of sockets, events, threads and     *)
(* rows.  One inductive invariant in four parts: the sockets of the client, *)
(* the loops of the gateway, the events on their way, and the rows.         *)
(***************************************************************************)
EXTENDS LiveFeed, SequenceTheorems, FiniteSetTheorems, TLAPS

------------------------------------------------------------------------------
(* Sequences *)

Distinct(q) == \A i, j \in 1 .. Len(q) : q[i] = q[j] => i = j

LEMMA ToSetAppend ==
    ASSUME NEW S, NEW q \in Seq(S), NEW e \in S
    PROVE  /\ ToSet(Append(q, e)) = ToSet(q) \cup {e}
           /\ Distinct(q) /\ e \notin ToSet(q) => Distinct(Append(q, e))
<1> DEFINE p == Append(q, e)
<1>1. /\ p \in Seq(S) /\ Len(p) = Len(q) + 1 /\ p[Len(q) + 1] = e
      /\ \A i \in 1 .. Len(q) : p[i] = q[i]
  BY AppendProperties
<1>2. Len(q) \in Nat /\ DOMAIN q = 1 .. Len(q) /\ DOMAIN p = 1 .. Len(q) + 1
  BY <1>1, LenProperties
<1> HIDE DEF p
<1>3. ToSet(p) = ToSet(q) \cup {e}
  BY <1>1, <1>2 DEF ToSet
<1>4. Distinct(q) /\ e \notin ToSet(q) => Distinct(p)
  BY <1>1, <1>2 DEF Distinct, ToSet
<1>5. QED
  BY <1>3, <1>4 DEF p

LEMMA ToSetTail ==
    ASSUME NEW S, NEW q \in Seq(S), q # << >>
    PROVE  /\ Head(q) \in S /\ Tail(q) \in Seq(S)
           /\ ToSet(q) = {Head(q)} \cup ToSet(Tail(q))
           /\ Distinct(q) => Distinct(Tail(q)) /\ Head(q) \notin ToSet(Tail(q))
<1> DEFINE p == Tail(q)
<1>1. /\ Head(q) \in S /\ p \in Seq(S) /\ Len(p) = Len(q) - 1
      /\ \A i \in 1 .. Len(p) : p[i] = q[i + 1]
  BY HeadTailProperties
<1>2. Len(q) \in Nat \ {0} /\ DOMAIN q = 1 .. Len(q) /\ DOMAIN p = 1 .. Len(p)
  BY <1>1, LenProperties, EmptySeq
<1>3. Head(q) = q[1]
  OBVIOUS
<1> HIDE DEF p
<1>4. ToSet(q) \subseteq {q[1]} \cup ToSet(p)
  <2> SUFFICES ASSUME NEW i \in 1 .. Len(q), i # 1
               PROVE  q[i] \in ToSet(p)
    BY <1>2 DEF ToSet
  <2>1. i - 1 \in 1 .. Len(p) /\ p[i - 1] = q[i]
    BY <1>1, <1>2
  <2>2. QED
    BY <1>2, <2>1 DEF ToSet
<1>5. {q[1]} \cup ToSet(p) \subseteq ToSet(q)
  BY <1>1, <1>2 DEF ToSet
<1>6. ASSUME Distinct(q)
      PROVE  Distinct(p) /\ q[1] \notin ToSet(p)
  BY <1>1, <1>2, <1>6 DEF Distinct, ToSet
<1>7. QED
  BY <1>1, <1>3, <1>4, <1>5, <1>6 DEF p

LEMMA ToSetEmpty == ToSet(<< >>) = {} /\ Distinct(<< >>)
BY DEF ToSet, Distinct

------------------------------------------------------------------------------
(* The invariant *)

States == {"new", "connecting", "open", "failed", "closed"}
Past(s) == readyState[s] \in {"open", "failed", "closed"}

\* A socket that may still speak is the one the subscription holds; a reconnect is
\* scheduled when every socket before is closed, and only then.
SocketsIInv ==
    /\ readyState \in [Sockets -> States]
    /\ socket \in Sockets \cup {0} /\ listening \subseteq Sockets
    /\ timer \in BOOLEAN /\ mounted \in BOOLEAN /\ connected \in BOOLEAN
    /\ stopped = ~mounted
    /\ mounted => socket \in Sockets
    /\ \A s \in Sockets : Live(s) => s \in listening
    /\ \A s \in listening : readyState[s] # "closed" => mounted /\ s = socket
    /\ timer => mounted /\ \A s \in listening : readyState[s] = "closed"
    /\ mounted =>
         /\ socket \in listening /\ readyState[socket] # "new"
         /\ connected <=> readyState[socket] = "open"
         /\ readyState[socket] = "closed" => timer

\* A loop has an event of its own, and an audience of sockets that have opened.
LoopsIInv ==
    /\ realPool \in BOOLEAN
    /\ sessions \subseteq Sockets /\ \A s \in sessions : Past(s)
    /\ loop \in [Threads -> Loops]
    /\ published \subseteq Events /\ IsFiniteSet(published)
    /\ published = 1 .. Cardinality(published)
    /\ collided \subseteq Sockets \X Events
    /\ \A t \in Threads :
         /\ loop[t].event \in published \cup {0}
         /\ \A s \in loop[t].audience : Past(s)
         /\ loop[t].done \subseteq loop[t].audience
         /\ loop[t].at # 0 => loop[t].event # 0 /\ loop[t].at \in loop[t].audience \ loop[t].done
    /\ \A t, u \in Threads : loop[t].event = loop[u].event /\ loop[t].event # 0 => t = u

\* Frames are on an open socket only, each once, and not shown yet; a loop that
\* still has to send to an open socket is the first to give it the event.
EventsIInv ==
    /\ wire \in [Sockets -> Seq(Events)] /\ shown \in Seq(Events)
    /\ ToSet(shown) \subseteq published
    /\ \A s \in Sockets :
         /\ wire[s] # << >> => readyState[s] = "open"
         /\ ToSet(wire[s]) \subseteq published
         /\ Distinct(wire[s])
         /\ ToSet(wire[s]) \cap ToSet(shown) = {}
    /\ \A t \in Threads : \A s \in loop[t].audience \ loop[t].done :
         readyState[s] = "open" /\ loop[t].event # 0
           => loop[t].event \notin ToSet(wire[s]) \cup ToSet(shown)
    /\ OthersGetTheEvent

\* The newest events, newest first, then seed rows.
RowsIInv ==
    /\ shown \in Seq(Events)
    /\ rows \in Seq(Events \cup {0})
    /\ Len(rows) = IF Len(shown) + SeedRows <= MAX_ROWS THEN Len(shown) + SeedRows ELSE MAX_ROWS
    /\ \A i \in 1 .. Len(rows) :
         rows[i] = IF i <= Len(shown) THEN shown[Len(shown) + 1 - i] ELSE 0

IInv == SocketsIInv /\ LoopsIInv /\ EventsIInv /\ RowsIInv

LEMMA Constants ==
    /\ MaxFailures \in Nat /\ MaxEvents \in Nat /\ 1 \in Sockets /\ 0 \notin Sockets
    /\ 0 \notin Events /\ Events \subseteq Nat /\ "scheduler" \in Threads
BY FeedAssumption DEF Sockets, Events, Threads

------------------------------------------------------------------------------
(* Initial states *)

LEMMA Initial == Init => IInv
<1> SUFFICES ASSUME Init
             PROVE  IInv
  OBVIOUS
<1>1. SocketsIInv
  BY Constants DEF Init, SocketsIInv, States, Live
<1>2. LoopsIInv
  <2>1. Idle \in Loops /\ Idle.event = 0 /\ Idle.audience = {} /\ Idle.done = {} /\ Idle.at = 0
    BY DEF Idle, Loops
  <2>2. loop \in [Threads -> Loops] /\ \A t \in Threads : loop[t] = Idle
    BY <2>1 DEF Init
  <2>3. published = {} /\ IsFiniteSet(published) /\ Cardinality(published) = 0
    BY FS_EmptySet DEF Init
  <2>4. published = 1 .. Cardinality(published)
    BY <2>3
  <2>5. QED
    BY <2>1, <2>2, <2>3, <2>4 DEF Init, LoopsIInv
<1>3. EventsIInv
  <2>1. /\ shown = << >> /\ published = {} /\ wire = [s \in Sockets |-> << >>]
        /\ \A t \in Threads : loop[t].audience = {} /\ loop[t].done = {}
    BY DEF Init, Idle
  <2>2. wire \in [Sockets -> Seq(Events)] /\ shown \in Seq(Events)
        /\ \A s \in Sockets : wire[s] = << >>
    BY <2>1
  <2>3. QED
    BY <2>1, <2>2, ToSetEmpty DEF EventsIInv, OthersGetTheEvent
<1>4. RowsIInv
  <2>1. shown = << >> /\ shown \in Seq(Events) /\ Len(shown) = 0
    BY DEF Init
  <2>2. rows = SeedEvents
    BY DEF Init
  <2>3. /\ SeedRows \in Nat /\ SeedRows <= MAX_ROWS /\ MAX_ROWS \in Nat
    BY FeedAssumption
  <2>4. SeedEvents \in Seq(Events \cup {0}) /\ Len(SeedEvents) = SeedRows
        /\ \A i \in 1 .. SeedRows : SeedEvents[i] = 0
    BY <2>3 DEF SeedEvents
  <2>5. QED
    BY <2>1, <2>2, <2>3, <2>4 DEF RowsIInv
<1>5. QED
  BY <1>1, <1>2, <1>3, <1>4 DEF IInv

------------------------------------------------------------------------------
(* The client *)

LEMMA SocketsKeep ==
    ASSUME SocketsIInv,
           \/ \E s \in Sockets : Opens(s) \/ SocketFails(s) \/ SocketCloses(s)
           \/ Connect \/ Unsubscribe
    PROVE  SocketsIInv' /\ \A s \in Sockets : Past(s) => Past(s)'
<1> USE Constants DEF SocketsIInv, Past, States, Live
<1>1. ASSUME NEW s \in Sockets, Opens(s)
      PROVE  SocketsIInv' /\ \A r \in Sockets : Past(r) => Past(r)'
  BY <1>1 DEF Opens, Became, Status, client
<1>2. ASSUME NEW s \in Sockets, SocketFails(s)
      PROVE  SocketsIInv' /\ \A r \in Sockets : Past(r) => Past(r)'
  BY <1>2 DEF SocketFails, Gone, Became, Status, client
<1>3. ASSUME NEW s \in Sockets, SocketCloses(s)
      PROVE  SocketsIInv' /\ \A r \in Sockets : Past(r) => Past(r)'
  BY <1>3 DEF SocketCloses, Gone, Became, Status
<1>4. CASE Connect
  <2>1. /\ timer /\ timer' = FALSE /\ ~stopped /\ mounted
        /\ \A r \in listening : readyState[r] = "closed"
        /\ UNCHANGED <<stopped, mounted, connected>>
    BY <1>4 DEF Connect, panel
  <2>2. PICK s \in Sockets : /\ readyState[s] = "new"
                            /\ readyState' = [readyState EXCEPT ![s] = "connecting"]
                            /\ socket' = s
                            /\ listening' = listening \cup {s}
    BY <1>4, <2>1 DEF Connect, Newest, Became
  <2>3. /\ readyState' \in [Sockets -> States] /\ readyState'[s] = "connecting"
        /\ \A r \in Sockets : r # s => readyState'[r] = readyState[r]
    BY <2>2
  <2>4. QED
    BY <2>1, <2>2, <2>3
<1>5. CASE Unsubscribe
  BY <1>5 DEF Unsubscribe, Gone, Became
<1>6. QED
  BY <1>1, <1>2, <1>3, <1>4, <1>5

------------------------------------------------------------------------------
(* The gateway *)

\* What a thread has done changes nothing else of any loop.
LEMMA DoneIs ==
    ASSUME LoopsIInv, NEW t \in Threads, NEW s \in loop[t].audience, loop' = Done(t, s)
    PROVE  /\ loop' \in [Threads -> Loops]
           /\ \A u \in Threads : u # t => loop'[u] = loop[u]
           /\ loop'[t].event = loop[t].event /\ loop'[t].audience = loop[t].audience
           /\ loop'[t].done = loop[t].done \cup {s} /\ loop'[t].at = 0
<1>1. loop[t] \in Loops /\ s \in Sockets
  BY DEF LoopsIInv, Loops
<1>2. loop' = [loop EXCEPT ![t] = [loop[t] EXCEPT !.done = loop[t].done \cup {s}, !.at = 0]]
  BY DEF Done, LoopsIInv
<1> DEFINE l == [loop[t] EXCEPT !.done = loop[t].done \cup {s}, !.at = 0]
<1>3. /\ l \in Loops /\ l.event = loop[t].event /\ l.audience = loop[t].audience
      /\ l.done = loop[t].done \cup {s} /\ l.at = 0
  BY <1>1 DEF Loops
<1> HIDE DEF l
<1>4. loop' = [loop EXCEPT ![t] = l]
  BY <1>2 DEF l
<1>5. QED
  BY <1>3, <1>4 DEF LoopsIInv

LEMMA DoneKeepsLoops ==
    ASSUME LoopsIInv, NEW t \in Threads, NEW s \in loop[t].audience, loop' = Done(t, s),
           UNCHANGED <<realPool, sessions, published, readyState>>,
           collided' \subseteq Sockets \X Events
    PROVE  LoopsIInv'
<1>1. /\ loop' \in [Threads -> Loops]
      /\ \A u \in Threads : u # t => loop'[u] = loop[u]
      /\ loop'[t].event = loop[t].event /\ loop'[t].audience = loop[t].audience
      /\ loop'[t].done = loop[t].done \cup {s} /\ loop'[t].at = 0
  BY DoneIs
<1>2. QED
  BY <1>1 DEF LoopsIInv, Past

LEMMA BroadcastKeeps ==
    ASSUME LoopsIInv, EventsIInv, NEW t \in Threads, Broadcast(t)
    PROVE  /\ LoopsIInv' /\ EventsIInv'
           /\ \E e \in Events \ published : published' = published \cup {e}
<1> DEFINE e == Cardinality(published) + 1
<1>1. /\ published' = published \cup {e} /\ Cardinality(published) < MaxEvents
      /\ loop' = [loop EXCEPT ![t] = [event |-> e, audience |-> sessions, done |-> {}, at |-> 0]]
      /\ UNCHANGED <<realPool, sessions, collided, wire, readyState, shown>>
  BY DEF Broadcast, panel
<1>2. /\ IsFiniteSet(published) /\ Cardinality(published) \in Nat
      /\ published = 1 .. Cardinality(published)
  BY FS_CardinalityType DEF LoopsIInv
<1>3. e \in Events /\ e \notin published /\ e # 0
  BY <1>1, <1>2, FeedAssumption DEF Events
<1>4. IsFiniteSet(published') /\ Cardinality(published') = e
  BY <1>1, <1>2, <1>3, FS_AddElement
<1>5. published' = 1 .. e
  BY <1>1, <1>2
<1> DEFINE l == [event |-> e, audience |-> sessions, done |-> {}, at |-> 0]
<1>6. l \in Loops /\ l.event = e /\ l.audience = sessions /\ l.done = {} /\ l.at = 0
  BY <1>3 DEF Loops, LoopsIInv
<1>7. loop' = [loop EXCEPT ![t] = l]
  BY <1>1
<1> HIDE DEF e, l
<1>8. /\ loop' \in [Threads -> Loops] /\ loop'[t] = l
      /\ \A u \in Threads : u # t => loop'[u] = loop[u]
  BY <1>6, <1>7 DEF LoopsIInv
<1>9. published' \subseteq Events
  BY <1>1, <1>3 DEF LoopsIInv
<1>10. \A u \in Threads : u # t => loop[u].event # e
  BY <1>3 DEF LoopsIInv
<1>11. LoopsIInv'
  <2>1. \A u \in Threads :
         /\ loop'[u].event \in published' \cup {0}
         /\ \A s \in loop'[u].audience : Past(s)'
         /\ loop'[u].done \subseteq loop'[u].audience
         /\ loop'[u].at # 0 => loop'[u].event # 0 /\ loop'[u].at \in loop'[u].audience \ loop'[u].done
    BY <1>1, <1>6, <1>8 DEF LoopsIInv, Past
  <2>2. \A u, v \in Threads : loop'[u].event = loop'[v].event /\ loop'[u].event # 0 => u = v
    BY <1>6, <1>8, <1>10 DEF LoopsIInv
  <2>3. /\ realPool' \in BOOLEAN /\ sessions' \subseteq Sockets /\ \A s \in sessions' : Past(s)'
        /\ collided' \subseteq Sockets \X Events
    BY <1>1 DEF LoopsIInv, Past
  <2>4. published' = 1 .. Cardinality(published')
    BY <1>4, <1>5
  <2>5. QED
    BY <1>4, <1>8, <1>9, <2>1, <2>2, <2>3, <2>4 DEF LoopsIInv
<1>12. EventsIInv'
  <2>1. e \notin ToSet(shown) /\ \A s \in Sockets : e \notin ToSet(wire[s])
    BY <1>3 DEF EventsIInv
  <2>2. \A u \in Threads : \A s \in loop'[u].audience \ loop'[u].done :
          readyState'[s] = "open" /\ loop'[u].event # 0
            => loop'[u].event \notin ToSet(wire'[s]) \cup ToSet(shown')
    BY <1>1, <1>6, <1>8, <2>1 DEF EventsIInv, LoopsIInv
  <2>3. OthersGetTheEvent'
    BY <1>1, <1>6, <1>8 DEF EventsIInv, OthersGetTheEvent
  <2>4. QED
    BY <1>1, <2>2, <2>3 DEF EventsIInv
<1>13. QED
  BY <1>1, <1>3, <1>11, <1>12

LEMMA StartSendKeeps ==
    ASSUME LoopsIInv, EventsIInv, NEW t \in Threads, NEW s \in Sockets, StartSend(t, s)
    PROVE  LoopsIInv' /\ EventsIInv'
<1>1. /\ loop[t].event # 0 /\ loop[t].at = 0 /\ s \in loop[t].audience /\ s \notin loop[t].done
      /\ UNCHANGED <<realPool, sessions, published, wire, readyState, shown>>
  BY DEF StartSend, Left, panel
<1>2. loop[t].event \in Events
  BY <1>1 DEF LoopsIInv
<1>3. CASE loop' = Done(t, s)
  <2>1. collided' = collided \/ collided' = collided \cup {<<s, loop[t].event>>}
    BY DEF StartSend
  <2>2. collided' \subseteq Sockets \X Events /\ collided \subseteq collided'
    BY <1>2, <2>1 DEF LoopsIInv
  <2>3. LoopsIInv'
    BY <1>1, <1>3, <2>2, DoneKeepsLoops
  <2>4. /\ \A u \in Threads : u # t => loop'[u] = loop[u]
        /\ loop'[t].event = loop[t].event /\ loop'[t].audience = loop[t].audience
        /\ loop'[t].done = loop[t].done \cup {s}
    BY <1>1, <1>3, DoneIs
  <2>5. s \in sessions => <<s, loop[t].event>> \in collided'
    <3>1. SUFFICES ASSUME s \in sessions, ~Busy(s)
                   PROVE  FALSE
      BY DEF StartSend
    <3>2. loop' = [loop EXCEPT ![t].at = s]
      BY <3>1 DEF StartSend
    <3>3. loop'[t].done = loop[t].done
      BY <3>2 DEF LoopsIInv, Loops
    <3>4. QED
      BY <1>1, <2>4, <3>3
  <2>6. OthersGetTheEvent'
    BY <1>1, <2>2, <2>4, <2>5 DEF EventsIInv, OthersGetTheEvent
  <2>7. \A u \in Threads : \A r \in loop'[u].audience \ loop'[u].done :
          readyState'[r] = "open" /\ loop'[u].event # 0
            => loop'[u].event \notin ToSet(wire'[r]) \cup ToSet(shown')
    BY <1>1, <2>4 DEF EventsIInv
  <2>8. QED
    BY <1>1, <2>3, <2>6, <2>7 DEF EventsIInv
<1>4. CASE loop' = [loop EXCEPT ![t].at = s] /\ collided' = collided
  <2> DEFINE l == [loop[t] EXCEPT !.at = s]
  <2>1. /\ l \in Loops /\ l.event = loop[t].event /\ l.audience = loop[t].audience
        /\ l.done = loop[t].done /\ l.at = s
    BY DEF LoopsIInv, Loops
  <2>2. loop' = [loop EXCEPT ![t] = l]
    BY <1>4
  <2> HIDE DEF l
  <2>3. /\ loop' \in [Threads -> Loops] /\ loop'[t] = l
        /\ \A u \in Threads : u # t => loop'[u] = loop[u]
    BY <2>1, <2>2 DEF LoopsIInv
  <2>4. LoopsIInv'
    BY <1>1, <1>4, <2>1, <2>3 DEF LoopsIInv, Past
  <2>5. OthersGetTheEvent'
    BY <1>1, <1>4, <2>1, <2>3 DEF EventsIInv, OthersGetTheEvent
  <2>6. \A u \in Threads : \A r \in loop'[u].audience \ loop'[u].done :
          readyState'[r] = "open" /\ loop'[u].event # 0
            => loop'[u].event \notin ToSet(wire'[r]) \cup ToSet(shown')
    BY <1>1, <2>1, <2>3 DEF EventsIInv
  <2>7. QED
    BY <1>1, <2>4, <2>5, <2>6 DEF EventsIInv
<1>5. QED
  BY <1>3, <1>4 DEF StartSend

LEMMA EndSendKeeps ==
    ASSUME SocketsIInv, LoopsIInv, EventsIInv, NEW t \in Threads, EndSend(t)
    PROVE  LoopsIInv' /\ EventsIInv'
<1> DEFINE s == loop[t].at
           e == loop[t].event
<1>1. /\ s \in loop[t].audience /\ s \notin loop[t].done /\ s \in Sockets
      /\ e \in Events /\ e \in published /\ e # 0
  BY DEF EndSend, LoopsIInv, Loops
<1>2. /\ Frame(s, e) /\ loop' = Done(t, s)
      /\ UNCHANGED <<realPool, sessions, published, collided, readyState, shown>>
  BY DEF EndSend, panel
<1> HIDE DEF s, e
<1>3. LoopsIInv'
  BY <1>1, <1>2, DoneKeepsLoops DEF LoopsIInv
<1>4. /\ \A u \in Threads : u # t => loop'[u] = loop[u]
      /\ loop'[t].event = e /\ loop'[t].audience = loop[t].audience
      /\ loop'[t].done = loop[t].done \cup {s}
  BY <1>1, <1>2, DoneIs DEF e
<1>5. CASE s \in sessions /\ readyState[s] = "open"
  <2>1. wire' = [wire EXCEPT ![s] = Append(wire[s], e)]
    BY <1>2, <1>5 DEF Frame
  <2>2. wire[s] \in Seq(Events)
    BY <1>1 DEF EventsIInv
  <2>3. Append(wire[s], e) \in Seq(Events)
    BY <1>1, <2>2, AppendProperties
  <2>4. /\ wire' \in [Sockets -> Seq(Events)] /\ wire'[s] = Append(wire[s], e)
        /\ \A r \in Sockets : r # s => wire'[r] = wire[r]
    BY <1>1, <2>1, <2>3 DEF EventsIInv
  <2>5. e \notin ToSet(wire[s]) \cup ToSet(shown)
    BY <1>1, <1>5 DEF EventsIInv, e
  <2>6. ToSet(wire'[s]) = ToSet(wire[s]) \cup {e} /\ Distinct(wire'[s])
    BY <1>1, <2>2, <2>4, <2>5, ToSetAppend DEF EventsIInv
  <2>7. \A r \in Sockets :
          /\ wire'[r] # << >> => readyState'[r] = "open"
          /\ ToSet(wire'[r]) \subseteq published'
          /\ Distinct(wire'[r])
          /\ ToSet(wire'[r]) \cap ToSet(shown') = {}
    <3>1. /\ readyState'[s] = "open" /\ published' = published /\ shown' = shown
          /\ ToSet(wire[s]) \subseteq published /\ ToSet(wire[s]) \cap ToSet(shown) = {}
      BY <1>1, <1>2, <1>5 DEF EventsIInv
    <3>2. /\ ToSet(wire'[s]) \subseteq published'
          /\ ToSet(wire'[s]) \cap ToSet(shown') = {}
      BY <1>1, <2>5, <2>6, <3>1
    <3>3. ASSUME NEW r \in Sockets, r # s
          PROVE  /\ wire'[r] # << >> => readyState'[r] = "open"
                 /\ ToSet(wire'[r]) \subseteq published'
                 /\ Distinct(wire'[r])
                 /\ ToSet(wire'[r]) \cap ToSet(shown') = {}
      BY <1>2, <2>4, <3>1, <3>3 DEF EventsIInv
    <3>4. QED
      BY <2>6, <3>1, <3>2, <3>3
  <2>8. \A r \in Sockets : readyState[r] = "open" => r = s
    BY <1>1, <1>5 DEF SocketsIInv, Live
  <2>9. \A u \in Threads : \A r \in loop'[u].audience \ loop'[u].done :
          readyState'[r] = "open" /\ loop'[u].event # 0
            => loop'[u].event \notin ToSet(wire'[r]) \cup ToSet(shown')
    <3> SUFFICES ASSUME NEW u \in Threads, NEW r \in loop'[u].audience \ loop'[u].done,
                        readyState'[r] = "open", loop'[u].event # 0
                 PROVE  loop'[u].event \notin ToSet(wire'[r]) \cup ToSet(shown')
      OBVIOUS
    <3>1. r \in Sockets
      BY <1>3 DEF LoopsIInv, Loops
    <3>2. r = s /\ u # t
      BY <1>2, <1>4, <2>8, <3>1
    <3>3. loop[u].event # e
      BY <1>1, <1>4, <3>2 DEF LoopsIInv, e
    <3>4. loop[u].event \notin ToSet(wire[s]) \cup ToSet(shown)
      BY <1>2, <1>4, <3>2 DEF EventsIInv
    <3>5. QED
      BY <1>2, <1>4, <2>6, <3>2, <3>3, <3>4
  <2>10. OthersGetTheEvent'
    <3>1. \A r \in Sockets : ToSet(wire[r]) \subseteq ToSet(wire'[r])
      BY <2>4, <2>6
    <3>2. sessions \subseteq Sockets
      BY DEF LoopsIInv
    <3>3. ASSUME NEW u \in Threads, NEW r \in loop'[u].done \cap sessions', readyState'[r] = "open"
          PROVE  \/ loop'[u].event \in ToSet(wire'[r]) \cup ToSet(shown')
                 \/ <<r, loop'[u].event>> \in collided'
      <4>1. CASE u = t /\ r = s
        BY <1>4, <2>6, <4>1
      <4>2. CASE ~(u = t /\ r = s)
        <5>1. r \in loop[u].done \cap sessions /\ readyState[r] = "open" /\ loop'[u].event = loop[u].event
          BY <1>2, <1>4, <3>3, <4>2 DEF e
        <5>2. \/ loop[u].event \in ToSet(wire[r]) \cup ToSet(shown)
              \/ <<r, loop[u].event>> \in collided
          BY <5>1 DEF EventsIInv, OthersGetTheEvent
        <5>3. QED
          BY <1>2, <3>1, <3>2, <5>1, <5>2
      <4>3. QED
        BY <4>1, <4>2
    <3>4. QED
      BY <3>3 DEF OthersGetTheEvent
  <2>11. QED
    BY <1>2, <1>3, <2>4, <2>7, <2>9, <2>10 DEF EventsIInv
<1>6. CASE ~(s \in sessions /\ readyState[s] = "open")
  <2>1. wire' = wire
    BY <1>2, <1>6 DEF Frame
  <2>2. OthersGetTheEvent'
    BY <1>2, <1>4, <1>6, <2>1 DEF EventsIInv, OthersGetTheEvent, e
  <2>3. \A u \in Threads : \A r \in loop'[u].audience \ loop'[u].done :
          readyState'[r] = "open" /\ loop'[u].event # 0
            => loop'[u].event \notin ToSet(wire'[r]) \cup ToSet(shown')
    BY <1>2, <1>4, <2>1 DEF EventsIInv, e
  <2>4. QED
    BY <1>2, <1>3, <2>1, <2>2, <2>3 DEF EventsIInv
<1>7. QED
  BY <1>5, <1>6

LEMMA GatewayKeeps ==
    ASSUME SocketsIInv, LoopsIInv, EventsIInv,
           \/ RefreshPool \/ \E t \in Threads : EndBroadcast(t)
           \/ \E s \in Sockets : SessionCloses(s)
    PROVE  LoopsIInv' /\ EventsIInv'
<1>1. CASE RefreshPool
  <2>1. realPool' \in BOOLEAN
        /\ UNCHANGED <<sessions, loop, published, collided, wire, readyState, shown>>
    BY <1>1 DEF RefreshPool, LoopsIInv, panel
  <2>2. QED
    BY <2>1 DEF LoopsIInv, EventsIInv, OthersGetTheEvent, Past
<1>2. ASSUME NEW t \in Threads, EndBroadcast(t)
      PROVE  LoopsIInv' /\ EventsIInv'
  <2>1. /\ loop' = [loop EXCEPT ![t] = Idle]
        /\ UNCHANGED <<realPool, sessions, published, collided, wire, readyState, shown>>
    BY <1>2 DEF EndBroadcast, panel
  <2>2. Idle \in Loops /\ Idle.event = 0 /\ Idle.audience = {} /\ Idle.done = {} /\ Idle.at = 0
    BY DEF Idle, Loops
  <2>3. /\ loop' \in [Threads -> Loops] /\ loop'[t] = Idle
        /\ \A u \in Threads : u # t => loop'[u] = loop[u]
    BY <2>1, <2>2 DEF LoopsIInv
  <2>4. LoopsIInv'
    BY <2>1, <2>2, <2>3 DEF LoopsIInv, Past
  <2>5. QED
    BY <2>1, <2>2, <2>3, <2>4 DEF EventsIInv, OthersGetTheEvent
<1>3. ASSUME NEW s \in Sockets, SessionCloses(s)
      PROVE  LoopsIInv' /\ EventsIInv'
  <2>1. /\ sessions' = sessions \ {s}
        /\ UNCHANGED <<realPool, loop, published, collided, wire, readyState, shown>>
    BY <1>3 DEF SessionCloses, panel
  <2>2. QED
    BY <2>1 DEF LoopsIInv, EventsIInv, OthersGetTheEvent, Past
<1>4. QED
  BY <1>1, <1>2, <1>3

------------------------------------------------------------------------------
(* What the client's steps leave of the gateway and the events *)

LEMMA ClientKeepsLoops ==
    ASSUME LoopsIInv, \A s \in Sockets : Past(s) => Past(s)',
           \/ \E s \in Sockets : Opens(s) \/ SocketFails(s) \/ SocketCloses(s)
           \/ Connect \/ Unsubscribe,
           SocketsIInv
    PROVE  LoopsIInv'
<1>1. CASE UNCHANGED server
  BY <1>1 DEF LoopsIInv, server, Loops
<1>2. ASSUME NEW s \in Sockets, Opens(s)
      PROVE  LoopsIInv'
  <2>1. sessions' = sessions \cup {s} /\ UNCHANGED <<realPool, loop, published, collided>>
    BY <1>2 DEF Opens
  <2>2. Past(s)'
    BY <1>2 DEF Opens, Became, Past, SocketsIInv
  <2>3. QED
    BY <2>1, <2>2 DEF LoopsIInv, Loops
<1>3. QED
  BY <1>1, <1>2 DEF SocketFails, SocketCloses, Connect, Unsubscribe

\* A socket is closed or fails, and its frames are lost with it.
LEMMA GoneKeepsEvents ==
    ASSUME SocketsIInv, LoopsIInv, EventsIInv, NEW s \in Sockets, NEW state \in {"failed", "closed"},
           Gone(s, state), UNCHANGED <<sessions, loop, published, collided, shown>>
    PROVE  EventsIInv'
<1>1. /\ readyState' \in [Sockets -> States] /\ readyState'[s] = state
      /\ \A r \in Sockets : r # s => readyState'[r] = readyState[r]
  BY DEF Gone, Became, SocketsIInv, States
<1>2. << >> \in Seq(Events)
  OBVIOUS
<1>3. /\ wire' \in [Sockets -> Seq(Events)] /\ wire'[s] = << >>
      /\ \A r \in Sockets : r # s => wire'[r] = wire[r]
  BY <1>2 DEF Gone, EventsIInv
<1>4. \A r \in Sockets : readyState'[r] = "open" => r # s
  BY <1>1
<1>5. \A t \in Threads : loop[t].audience \subseteq Sockets
  BY DEF LoopsIInv, Loops
<1>6. OthersGetTheEvent'
  BY <1>1, <1>3, <1>4 DEF EventsIInv, OthersGetTheEvent, LoopsIInv
<1>7. \A u \in Threads : \A r \in loop'[u].audience \ loop'[u].done :
        readyState'[r] = "open" /\ loop'[u].event # 0
          => loop'[u].event \notin ToSet(wire'[r]) \cup ToSet(shown')
  BY <1>1, <1>3, <1>4, <1>5 DEF EventsIInv
<1>8. QED
  BY <1>1, <1>3, <1>6, <1>7, ToSetEmpty DEF EventsIInv

LEMMA ClientKeepsEvents ==
    ASSUME SocketsIInv, LoopsIInv, EventsIInv,
           \/ \E s \in Sockets : Opens(s) \/ SocketFails(s) \/ SocketCloses(s)
           \/ Connect \/ Unsubscribe
    PROVE  EventsIInv' /\ UNCHANGED <<published, shown, rows>>
<1>1. ASSUME NEW s \in Sockets, Opens(s)
      PROVE  EventsIInv' /\ UNCHANGED <<published, shown, rows>>
  <2>1. /\ readyState[s] = "connecting" /\ sessions' = sessions \cup {s}
        /\ UNCHANGED <<loop, published, collided, wire, shown, rows>>
    BY <1>1 DEF Opens
  <2>2. \A r \in Sockets : r # s => readyState'[r] = readyState[r]
    BY <1>1 DEF Opens, Became, SocketsIInv
  <2>3. \A t \in Threads : loop[t].audience \subseteq Sockets /\ s \notin loop[t].audience
                           /\ loop[t].done \subseteq loop[t].audience
    BY <2>1 DEF LoopsIInv, Loops, Past
  <2>4. OthersGetTheEvent'
    BY <2>1, <2>2, <2>3 DEF EventsIInv, OthersGetTheEvent, LoopsIInv
  <2>5. \A u \in Threads : \A r \in loop'[u].audience \ loop'[u].done :
          readyState'[r] = "open" /\ loop'[u].event # 0
            => loop'[u].event \notin ToSet(wire'[r]) \cup ToSet(shown')
    BY <2>1, <2>2, <2>3 DEF EventsIInv
  <2>6. \A r \in Sockets : wire'[r] # << >> => readyState'[r] = "open"
    BY <2>1, <2>2 DEF EventsIInv
  <2>7. QED
    BY <2>1, <2>4, <2>5, <2>6 DEF EventsIInv
<1>2. ASSUME NEW s \in Sockets, SocketFails(s) \/ SocketCloses(s)
      PROVE  EventsIInv' /\ UNCHANGED <<published, shown, rows>>
  BY <1>2, GoneKeepsEvents DEF SocketFails, SocketCloses, server
<1>3. CASE Connect
  <2>1. UNCHANGED <<sessions, loop, published, collided, wire, shown, rows>>
    BY <1>3 DEF Connect, server, panel
  <2>2. \A r \in Sockets :
          \/ readyState'[r] = readyState[r]
          \/ readyState[r] = "new" /\ readyState'[r] = "connecting"
    <3>1. CASE stopped
      BY <1>3, <3>1 DEF Connect
    <3>2. CASE ~stopped
      <4>1. PICK s \in Sockets : readyState[s] = "new"
                               /\ readyState' = [readyState EXCEPT ![s] = "connecting"]
        BY <1>3, <3>2 DEF Connect, Newest, Became
      <4>2. QED
        BY <4>1 DEF SocketsIInv
    <3>3. QED
      BY <3>1, <3>2
  <2>3. \A t \in Threads : loop[t].audience \subseteq Sockets
    BY DEF LoopsIInv, Loops
  <2>4. OthersGetTheEvent'
    BY <2>1, <2>2 DEF EventsIInv, OthersGetTheEvent, LoopsIInv
  <2>5. \A u \in Threads : \A r \in loop'[u].audience \ loop'[u].done :
          readyState'[r] = "open" /\ loop'[u].event # 0
            => loop'[u].event \notin ToSet(wire'[r]) \cup ToSet(shown')
    BY <2>1, <2>2, <2>3 DEF EventsIInv
  <2>6. \A r \in Sockets : wire'[r] # << >> => readyState'[r] = "open"
    BY <2>1, <2>2 DEF EventsIInv
  <2>7. QED
    BY <2>1, <2>4, <2>5, <2>6 DEF EventsIInv
<1>4. CASE Unsubscribe
  <2>1. UNCHANGED <<sessions, loop, published, collided, shown, rows>> /\ socket \in Sockets
    BY <1>4 DEF Unsubscribe, server, SocketsIInv
  <2>2. CASE Live(socket)
    BY <1>4, <2>1, <2>2, GoneKeepsEvents DEF Unsubscribe
  <2>3. CASE ~Live(socket)
    <3>1. UNCHANGED <<readyState, wire>>
      BY <1>4, <2>3 DEF Unsubscribe
    <3>2. QED
      BY <2>1, <3>1 DEF EventsIInv, OthersGetTheEvent
  <2>4. QED
    BY <2>2, <2>3
<1>5. QED
  BY <1>1, <1>2, <1>3, <1>4

\* What arrives comes off the one open socket, and was not shown before.
LEMMA MessageKeeps ==
    ASSUME SocketsIInv, LoopsIInv, EventsIInv, NEW s \in Sockets, Message(s)
    PROVE  /\ EventsIInv' /\ mounted
           /\ \E e \in published \ ToSet(shown) : shown' = Append(shown, e) /\ ShowRow(e)
<1> DEFINE e == Head(wire[s])
<1>1. /\ readyState[s] = "open" /\ wire[s] # << >> /\ wire' = [wire EXCEPT ![s] = Tail(wire[s])]
      /\ UNCHANGED <<sessions, loop, published, collided, readyState>>
  BY DEF Message, server
<1>2. s \in listening /\ mounted /\ \A r \in Sockets : readyState[r] = "open" => r = s
  BY <1>1 DEF SocketsIInv, Live
<1>3. ShowRow(e) /\ shown' = Append(shown, e)
  BY <1>2 DEF Message
<1>4. wire[s] \in Seq(Events) /\ shown \in Seq(Events)
  BY DEF EventsIInv
<1>5. /\ e \in Events /\ Tail(wire[s]) \in Seq(Events)
      /\ ToSet(wire[s]) = {e} \cup ToSet(Tail(wire[s]))
      /\ Distinct(Tail(wire[s])) /\ e \notin ToSet(Tail(wire[s]))
  BY <1>1, <1>4, ToSetTail DEF EventsIInv
<1> HIDE DEF e
<1>6. e \in published /\ e \notin ToSet(shown)
  BY <1>5 DEF EventsIInv
<1>7. shown' \in Seq(Events) /\ ToSet(shown') = ToSet(shown) \cup {e}
  BY <1>3, <1>4, <1>5, AppendProperties, ToSetAppend
<1>8. /\ wire' \in [Sockets -> Seq(Events)] /\ wire'[s] = Tail(wire[s])
      /\ \A r \in Sockets : r # s => wire'[r] = wire[r]
  BY <1>1, <1>5 DEF EventsIInv
<1>9. \A r \in Sockets : r # s => wire[r] = << >>
  BY <1>2 DEF EventsIInv
<1>10. \A r \in Sockets :
         /\ wire'[r] # << >> => readyState'[r] = "open"
         /\ ToSet(wire'[r]) \subseteq published'
         /\ Distinct(wire'[r])
         /\ ToSet(wire'[r]) \cap ToSet(shown') = {}
  <2>1. /\ readyState'[s] = "open" /\ ToSet(wire'[s]) \subseteq published' /\ Distinct(wire'[s])
        /\ ToSet(wire'[s]) \cap ToSet(shown') = {}
    BY <1>1, <1>5, <1>7, <1>8 DEF EventsIInv
  <2>2. \A r \in Sockets : r # s => wire'[r] = << >>
    BY <1>8, <1>9
  <2>3. QED
    BY <2>1, <2>2, ToSetEmpty
<1>11. ToSet(shown') \subseteq published'
  BY <1>1, <1>6, <1>7 DEF EventsIInv
<1>12. \A u \in Threads : \A r \in loop'[u].audience \ loop'[u].done :
         readyState'[r] = "open" /\ loop'[u].event # 0
           => loop'[u].event \notin ToSet(wire'[r]) \cup ToSet(shown')
  <2> SUFFICES ASSUME NEW u \in Threads, NEW r \in loop[u].audience \ loop[u].done,
                      readyState[r] = "open", loop[u].event # 0
               PROVE  loop[u].event \notin ToSet(wire'[r]) \cup ToSet(shown')
    BY <1>1
  <2>1. r = s
    BY <1>2 DEF LoopsIInv, Loops
  <2>2. loop[u].event \notin ToSet(wire[s]) \cup ToSet(shown)
    BY <2>1 DEF EventsIInv
  <2>3. QED
    BY <1>5, <1>7, <1>8, <2>1, <2>2
<1>13. OthersGetTheEvent'
  <2> SUFFICES ASSUME NEW u \in Threads, NEW r \in loop[u].done \cap sessions, readyState[r] = "open"
               PROVE  \/ loop[u].event \in ToSet(wire'[r]) \cup ToSet(shown')
                      \/ <<r, loop[u].event>> \in collided'
    BY <1>1 DEF OthersGetTheEvent
  <2>1. r = s
    BY <1>2 DEF LoopsIInv
  <2>2. \/ loop[u].event \in ToSet(wire[s]) \cup ToSet(shown)
        \/ <<s, loop[u].event>> \in collided
    BY <2>1 DEF EventsIInv, OthersGetTheEvent
  <2>3. QED
    BY <1>1, <1>5, <1>7, <1>8, <2>1, <2>2
<1>14. QED
  BY <1>2, <1>3, <1>6, <1>7, <1>8, <1>10, <1>11, <1>12, <1>13 DEF EventsIInv

------------------------------------------------------------------------------
(* The rows *)

LEMMA MinOfTwo ==
    ASSUME NEW a \in Nat, NEW b \in Nat
    PROVE  Min({a, b}) = IF a <= b THEN a ELSE b
<1> DEFINE m == IF a <= b THEN a ELSE b
<1>1. m \in {a, b} /\ \A y \in {a, b} : m <= y
  OBVIOUS
<1>2. \A x \in {a, b} : (\A y \in {a, b} : x <= y) => x = m
  OBVIOUS
<1>3. Min({a, b}) \in {a, b} /\ \A y \in {a, b} : Min({a, b}) <= y
  BY <1>1 DEF Min
<1>4. QED
  BY <1>2, <1>3

LEMMA RowsKeep ==
    ASSUME RowsIInv, NEW e \in Events, ShowRow(e), shown' = Append(shown, e)
    PROVE  RowsIInv'
<1> DEFINE S == Events \cup {0}
           n == Len(shown)
           all == <<e>> \o rows
<1>1. /\ shown' \in Seq(Events) /\ Len(shown') = n + 1 /\ shown'[n + 1] = e
      /\ \A i \in 1 .. n : shown'[i] = shown[i] /\ n \in Nat
  BY AppendProperties, LenProperties DEF RowsIInv
<1>2. rows \in Seq(S) /\ Len(rows) \in Nat
  BY LenProperties DEF RowsIInv
<1>3. <<e>> \in Seq(S) /\ Len(<<e>>) = 1 /\ <<e>>[1] = e
  OBVIOUS
<1>4. all \in Seq(S) /\ Len(all) = 1 + Len(rows)
      /\ \A i \in 1 .. 1 + Len(rows) : all[i] = IF i <= 1 THEN e ELSE rows[i - 1]
  <2>1. /\ all \in Seq(S) /\ Len(all) = Len(<<e>>) + Len(rows)
        /\ \A i \in 1 .. Len(<<e>>) + Len(rows) :
             all[i] = IF i <= Len(<<e>>) THEN <<e>>[i] ELSE rows[i - Len(<<e>>)]
    BY <1>2, <1>3, ConcatProperties
  <2>2. QED
    BY <1>2, <1>3, <2>1
<1>5. MAX_ROWS \in Nat \ {0} /\ SeedRows \in Nat /\ SeedRows <= MAX_ROWS
  BY FeedAssumption
<1> DEFINE k == IF Len(rows) + 1 <= MAX_ROWS THEN Len(rows) + 1 ELSE MAX_ROWS
<1>6. rows' = SubSeq(all, 1, k)
  <2>1. Len(rows) + 1 \in Nat /\ MAX_ROWS \in Nat
    BY <1>2, <1>5
  <2>2. Min({Len(rows) + 1, MAX_ROWS}) = k
    BY <2>1, MinOfTwo
  <2>3. rows' = SubSeq(all, 1, Min({Len(rows) + 1, MAX_ROWS}))
    BY DEF ShowRow
  <2>4. QED
    BY <2>2, <2>3, Zenon
<1> HIDE DEF all
<1>7. k \in Nat /\ k >= 1 /\ k <= Len(rows) + 1 /\ k <= MAX_ROWS
  BY <1>2, <1>5
<1>8. \A i \in 1 .. k : all[i] \in S
  BY <1>2, <1>4, <1>7, LenProperties
<1>9. /\ rows' \in Seq(S) /\ Len(rows') = k
      /\ \A i \in 1 .. k : rows'[i] = all[i]
  <2>1. /\ SubSeq(all, 1, k) \in Seq(S)
        /\ Len(SubSeq(all, 1, k)) = IF 1 <= k THEN k - 1 + 1 ELSE 0
        /\ \A i \in 1 .. k - 1 + 1 : SubSeq(all, 1, k)[i] = all[1 + i - 1]
    BY <1>7, <1>8, SubSeqProperties
  <2>2. QED
    BY <1>6, <1>7, <2>1
<1>10. Len(rows) = IF n + SeedRows <= MAX_ROWS THEN n + SeedRows ELSE MAX_ROWS
  BY DEF RowsIInv
<1>11. k = IF n + 1 + SeedRows <= MAX_ROWS THEN n + 1 + SeedRows ELSE MAX_ROWS
  BY <1>1, <1>5, <1>10
<1> HIDE DEF k
<1>12. \A i \in 1 .. k : rows'[i] = IF i <= n + 1 THEN shown'[n + 2 - i] ELSE 0
  <2> SUFFICES ASSUME NEW i \in 1 .. k
               PROVE  rows'[i] = IF i <= n + 1 THEN shown'[n + 2 - i] ELSE 0
    OBVIOUS
  <2>1. CASE i = 1
    <3>1. n + 2 - i = n + 1 /\ i <= n + 1
      BY <1>1, <2>1
    <3>2. rows'[i] = e
      BY <1>2, <1>4, <1>7, <1>9, <2>1
    <3>3. QED
      BY <1>1, <3>1, <3>2
  <2>2. CASE i # 1
    <3>1. i - 1 \in 1 .. Len(rows) /\ rows'[i] = rows[i - 1]
      BY <1>2, <1>4, <1>7, <1>9, <2>2
    <3>2. rows[i - 1] = IF i - 1 <= n THEN shown[n + 1 - (i - 1)] ELSE 0
      BY <3>1 DEF RowsIInv
    <3>3. i - 1 <= n => n + 1 - (i - 1) \in 1 .. n /\ n + 1 - (i - 1) = n + 2 - i
      BY <1>1, <1>7, <2>2
    <3>4. QED
      BY <1>1, <1>7, <3>1, <3>2, <3>3
  <2>3. QED
    BY <2>1, <2>2
<1>13. QED
  BY <1>1, <1>9, <1>11, <1>12 DEF RowsIInv

\* The rows are the newest events above the seed rows, as FeedInv says.
LEMMA RowsAreNewest ==
    RowsIInv => /\ rows = SubSeq(Reverse(shown) \o SeedEvents, 1, Min({Len(shown) + SeedRows, MAX_ROWS}))
                /\ shown # << >> => Last(shown) = Head(rows)
<1> SUFFICES ASSUME RowsIInv
             PROVE  /\ rows = SubSeq(Reverse(shown) \o SeedEvents, 1,
                                     Min({Len(shown) + SeedRows, MAX_ROWS}))
                    /\ shown # << >> => Last(shown) = Head(rows)
  OBVIOUS
<1> DEFINE S == Events \cup {0}
           n == Len(shown)
           back == Reverse(shown)
           all == back \o SeedEvents
<1>1. n \in Nat /\ DOMAIN shown = 1 .. n /\ \A i \in 1 .. n : shown[i] \in Events
  BY LenProperties DEF RowsIInv
<1>2. MAX_ROWS \in Nat \ {0} /\ SeedRows \in Nat /\ SeedRows <= MAX_ROWS
  BY FeedAssumption
<1>3. /\ back \in Seq(S) /\ Len(back) = n
      /\ \A i \in 1 .. n : back[i] = shown[n + 1 - i]
  <2>1. back = [i \in 1 .. n |-> shown[(n - i) + 1]]
    BY DEF Reverse
  <2>2. \A i \in 1 .. n : (n - i) + 1 \in 1 .. n /\ (n - i) + 1 = n + 1 - i
    BY <1>1
  <2>3. back \in [1 .. n -> S]
    BY <1>1, <2>1, <2>2
  <2>4. back \in Seq(S) /\ Len(back) = n
    BY <1>1, <2>3
  <2>5. QED
    BY <2>1, <2>2, <2>4
<1>4. SeedEvents \in Seq(S) /\ Len(SeedEvents) = SeedRows
      /\ \A i \in 1 .. SeedRows : SeedEvents[i] = 0
  BY <1>2 DEF SeedEvents
<1> HIDE DEF back
<1>5. /\ all \in Seq(S) /\ Len(all) = n + SeedRows
      /\ \A i \in 1 .. n + SeedRows : all[i] = IF i <= n THEN back[i] ELSE SeedEvents[i - n]
  <2>1. /\ all \in Seq(S) /\ Len(all) = Len(back) + Len(SeedEvents)
        /\ \A i \in 1 .. Len(back) + Len(SeedEvents) :
             all[i] = IF i <= Len(back) THEN back[i] ELSE SeedEvents[i - Len(back)]
    BY <1>3, <1>4, ConcatProperties
  <2>2. QED
    BY <1>3, <1>4, <2>1
<1> DEFINE k == IF n + SeedRows <= MAX_ROWS THEN n + SeedRows ELSE MAX_ROWS
<1>6. Min({n + SeedRows, MAX_ROWS}) = k
  BY <1>1, <1>2, MinOfTwo
<1>7. k \in Nat /\ k <= n + SeedRows /\ rows \in Seq(S) /\ Len(rows) = k
  BY <1>1, <1>2 DEF RowsIInv
<1>8. n # 0 => k # 0
  BY <1>1, <1>2
<1> HIDE DEF k, all
<1>9. \A i \in 1 .. k : all[i] \in S
  BY <1>1, <1>2, <1>5, <1>7, LenProperties
<1>10. /\ SubSeq(all, 1, k) \in Seq(S) /\ Len(SubSeq(all, 1, k)) = k
       /\ \A i \in 1 .. k : SubSeq(all, 1, k)[i] = all[i]
  <2>1. /\ SubSeq(all, 1, k) \in Seq(S)
        /\ Len(SubSeq(all, 1, k)) = IF 1 <= k THEN k - 1 + 1 ELSE 0
        /\ \A i \in 1 .. k - 1 + 1 : SubSeq(all, 1, k)[i] = all[1 + i - 1]
    BY <1>7, <1>9, SubSeqProperties
  <2>2. QED
    BY <1>7, <2>1
<1>11. \A i \in 1 .. k : rows[i] = all[i]
  <2> SUFFICES ASSUME NEW i \in 1 .. k
               PROVE  rows[i] = all[i]
    OBVIOUS
  <2>1. rows[i] = IF i <= n THEN shown[n + 1 - i] ELSE 0
    BY <1>7 DEF RowsIInv
  <2>2. i \in 1 .. n + SeedRows
    BY <1>1, <1>2, <1>7
  <2>3. i <= n => i \in 1 .. n
    BY <1>1, <1>7
  <2>4. ~(i <= n) => i - n \in 1 .. SeedRows
    BY <1>1, <1>2, <2>2
  <2>5. QED
    BY <1>3, <1>4, <1>5, <2>1, <2>2, <2>3, <2>4
<1>12. rows = SubSeq(all, 1, k)
  BY <1>7, <1>10, <1>11, SeqEqual
<1>13. ASSUME shown # << >>
       PROVE  Last(shown) = Head(rows)
  <2>1. n # 0
    BY <1>13, EmptySeq DEF RowsIInv
  <2>2. 1 \in 1 .. k /\ 1 <= n /\ n + 1 - 1 = n
    BY <1>1, <1>7, <1>8, <2>1
  <2>3. rows[1] = shown[n]
    BY <1>7, <2>2 DEF RowsIInv
  <2>4. QED
    BY <2>3 DEF Last
<1>14. QED
  BY <1>6, <1>12, <1>13 DEF all, back

------------------------------------------------------------------------------
(* Every step *)

\* A step keeps the invariant, and publishes an event, or shows one, or lets the
\* panel go, or does nothing the viewer of FeedLog could see.
LEMMA StepKeeps ==
    ASSUME IInv, [Next]_vars
    PROVE  IInv' /\ [Log!Next]_(Log!vars)
<1> USE DEF IInv
<1>1. ASSUME NEW t \in Threads, Broadcast(t)
      PROVE  IInv' /\ [Log!Next]_(Log!vars)
  <2>1. /\ LoopsIInv' /\ EventsIInv'
        /\ \E e \in Events \ published : published' = published \cup {e}
    BY <1>1, BroadcastKeeps
  <2>2. UNCHANGED <<readyState, client, panel>>
    BY <1>1 DEF Broadcast
  <2>3. SocketsIInv' /\ RowsIInv'
    BY <2>2 DEF SocketsIInv, RowsIInv, Live, client, panel
  <2>4. Log!Publish
    BY <2>1, <2>2 DEF Log!Publish, panel
  <2>5. QED
    BY <2>1, <2>3, <2>4 DEF Log!Next
<1>2. ASSUME UNCHANGED <<published, readyState, client, panel>>, LoopsIInv' /\ EventsIInv'
      PROVE  IInv' /\ [Log!Next]_(Log!vars)
  BY <1>2 DEF SocketsIInv, RowsIInv, Live, client, panel, Log!vars
<1>3. ASSUME NEW t \in Threads, NEW s \in Sockets, StartSend(t, s)
      PROVE  IInv' /\ [Log!Next]_(Log!vars)
  <2>1. UNCHANGED <<published, readyState, client, panel>>
    BY <1>3 DEF StartSend
  <2>2. QED
    BY <1>2, <1>3, <2>1, StartSendKeeps
<1>4. ASSUME NEW t \in Threads, EndSend(t)
      PROVE  IInv' /\ [Log!Next]_(Log!vars)
  <2>1. UNCHANGED <<published, readyState, client, panel>>
    BY <1>4 DEF EndSend
  <2>2. QED
    BY <1>2, <1>4, <2>1, EndSendKeeps
<1>5. CASE \/ RefreshPool \/ \E t \in Threads : EndBroadcast(t)
           \/ \E s \in Sockets : SessionCloses(s)
  <2>1. UNCHANGED <<published, readyState, client, panel>>
    BY <1>5 DEF RefreshPool, EndBroadcast, SessionCloses
  <2>2. QED
    BY <1>2, <1>5, <2>1, GatewayKeeps
<1>6. CASE \/ \E s \in Sockets : Opens(s) \/ SocketFails(s) \/ SocketCloses(s)
           \/ Connect \/ Unsubscribe
  <2>1. SocketsIInv' /\ \A s \in Sockets : Past(s) => Past(s)'
    BY <1>6, SocketsKeep
  <2>2. LoopsIInv'
    BY <1>6, <2>1, ClientKeepsLoops
  <2>3. EventsIInv' /\ UNCHANGED <<published, shown, rows>>
    BY <1>6, ClientKeepsEvents
  <2>4. RowsIInv'
    BY <2>3 DEF RowsIInv
  <2>5. mounted' = mounted \/ mounted' = FALSE
    BY <1>6 DEF Opens, SocketFails, SocketCloses, Connect, Unsubscribe, panel
  <2>6. [Log!Next]_(Log!vars)
    BY <2>3, <2>5 DEF Log!Next, Log!Leave, Log!vars
  <2>7. QED
    BY <2>1, <2>2, <2>3, <2>4, <2>6
<1>7. ASSUME NEW s \in Sockets, Message(s)
      PROVE  IInv' /\ [Log!Next]_(Log!vars)
  <2>1. /\ EventsIInv' /\ mounted
        /\ \E e \in published \ ToSet(shown) : shown' = Append(shown, e) /\ ShowRow(e)
    BY <1>7, MessageKeeps
  <2>2. UNCHANGED <<server, readyState, client, mounted, connected>>
    BY <1>7 DEF Message
  <2>3. SocketsIInv' /\ LoopsIInv'
    BY <2>2 DEF SocketsIInv, LoopsIInv, Live, Past, client, server
  <2>4. PICK e \in published \ ToSet(shown) : shown' = Append(shown, e) /\ ShowRow(e)
    BY <2>1
  <2>5. e \in Events
    BY <2>4 DEF LoopsIInv
  <2>6. RowsIInv'
    BY <2>4, <2>5, RowsKeep
  <2>7. published' = published /\ mounted' = mounted
    BY <2>2 DEF server
  <2>8. Log!Show
    BY <2>1, <2>4, <2>7 DEF Log!Show, Log!ToSet, ToSet
  <2>9. QED
    BY <2>1, <2>3, <2>6, <2>8 DEF Log!Next
<1>8. CASE UNCHANGED vars
  <2>1. UNCHANGED <<server, wire, readyState, client, panel>>
    BY <1>8 DEF vars
  <2>2. LoopsIInv' /\ EventsIInv'
    BY <2>1 DEF LoopsIInv, EventsIInv, OthersGetTheEvent, Past, server, panel
  <2>3. QED
    BY <1>2, <2>1, <2>2 DEF server
<1>9. QED
  BY <1>1, <1>3, <1>4, <1>5, <1>6, <1>7, <1>8 DEF Next

LEMMA InvariantHolds == Spec => []IInv
<1>1. IInv /\ [Next]_vars => IInv'
  BY StepKeeps
<1>2. QED
  BY <1>1, Initial, PTL DEF Spec

LEMMA Typed == IInv => TypeOK
BY DEF IInv, SocketsIInv, LoopsIInv, EventsIInv, RowsIInv, TypeOK, States

------------------------------------------------------------------------------
(* Theorems *)

\* Whatever order errors, closes and the timer come in, one socket at most can
\* still speak, and the panel keeps the newest of the events it was given.
THEOREM FeedTheorem == Spec => []FeedInv
<1>1. ASSUME IInv
      PROVE  FeedInv
  <2>1. SocketsIInv /\ RowsIInv
    BY <1>1 DEF IInv
  <2>2. \A r, s \in listening :
          (readyState[r] # "closed" /\ readyState[s] # "closed") => r = s
    BY <2>1 DEF SocketsIInv
  <2>3. /\ rows = SubSeq(Reverse(shown) \o SeedEvents, 1, Min({Len(shown) + SeedRows, MAX_ROWS}))
        /\ shown # << >> => Last(shown) = Head(rows)
    BY <2>1, RowsAreNewest
  <2>4. /\ FeedView.lines = rows /\ FeedView.flash = IF shown = << >> THEN 0 ELSE Last(shown)
        /\ FeedView.live = connected
    BY DEF FeedView
  <2>5. mounted => /\ connected <=> readyState[socket] = "open"
                   /\ timer \/ readyState[socket] \in {"connecting", "open", "failed"}
    BY <2>1 DEF SocketsIInv, States
  <2>6. QED
    BY <1>1, <2>2, <2>3, <2>4, <2>5, Typed DEF FeedInv
<1>2. QED
  BY <1>1, InvariantHolds, PTL

\* A session that fails keeps the event from no other open session, unless another
\* thread was sending to it.
THEOREM OthersTheorem == Spec => []OthersGetTheEvent
<1>1. IInv => OthersGetTheEvent
  BY DEF IInv, EventsIInv
<1>2. QED
  BY <1>1, InvariantHolds, PTL

\* The feed implements FeedLog: every event it shows was published, is shown once,
\* and never to a panel that has left.
THEOREM LogTheorem == Spec => OnceAndNotAfterLeaving
<1>1. Init => Log!Init
  BY DEF Init, Log!Init
<1>2. IInv /\ [Next]_vars => [Log!Next]_(Log!vars)
  BY StepKeeps
<1>3. QED
  BY <1>1, <1>2, InvariantHolds, PTL DEF Spec, OnceAndNotAfterLeaving, Log!Spec
==============================================================================
