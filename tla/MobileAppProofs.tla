---------------------------- MODULE MobileAppProofs ---------------------------
(***************************************************************************)
(* Proofs about MobileApp for any gateways, any pairing codes and any       *)
(* bounds: memory, calls, preferences and file agree whatever overlaps and  *)
(* whenever the app ends.                                                   *)
(***************************************************************************)
EXTENDS MobileApp, SequenceTheorems, TLAPS

------------------------------------------------------------------------------
(* Fields *)

LEMMA StoreContents ==
    ASSUME NEW r \in Contents, NEW f \in Fields, NEW v \in Values[f]
    PROVE  [r EXCEPT ![f] = v] \in Contents
BY DEF Contents, Fields, Values

LEMMA FieldType ==
    ASSUME NEW r \in Contents, NEW f \in Fields
    PROVE  r[f] \in Values[f]
BY DEF Contents, Fields, Values

LEMMA UnwrittenIsContents == Unwritten \in Contents
BY MobileAssumption DEF Unwritten, Contents, Values, Lists, Metas, Families, NoFamily, Results

------------------------------------------------------------------------------
(* Calls: a new one decides its field, and executing the first changes nothing *)
(* about what will be.                                                         *)

LEMMA AppendCalls ==
    ASSUME NEW S, NEW q \in Seq(S), NEW c
    PROVE  LET r == Append(q, c) IN
           /\ r \in Seq(S \cup {c})
           /\ Len(r) = Len(q) + 1
           /\ DOMAIN r = 1 .. Len(r) /\ DOMAIN q = 1 .. Len(q) /\ Len(q) \in Nat
           /\ r[Len(r)] = c
           /\ \A i \in 1 .. Len(q) : r[i] = q[i]
<1>1. q \in Seq(S \cup {c}) /\ c \in S \cup {c}
  BY SeqMonotonic, S \subseteq S \cup {c}
<1>2. QED
  BY <1>1, AppendProperties, LenProperties

LEMMA AppendHolds ==
    ASSUME NEW S, NEW q \in Seq(S), NEW c, NEW p
    PROVE  LET r == Append(q, c) IN
           /\ WillHold(p, r, c.field, c.value)
           /\ \A f, v : f # c.field /\ WillHold(p, q, f, v) => WillHold(p, r, f, v)
<1> DEFINE r == Append(q, c)
<1>1. /\ Len(r) = Len(q) + 1 /\ Len(q) \in Nat
      /\ DOMAIN r = 1 .. Len(r) /\ DOMAIN q = 1 .. Len(q)
      /\ r[Len(r)] = c
      /\ \A i \in 1 .. Len(q) : r[i] = q[i]
  BY AppendCalls
<1> HIDE DEF r
<1>2. WillHold(p, r, c.field, c.value)
  BY <1>1 DEF WillHold
<1>3. ASSUME NEW f, NEW v, f # c.field, WillHold(p, q, f, v)
      PROVE  WillHold(p, r, f, v)
  <2>1. CASE p[f] = v /\ \A i \in DOMAIN q : q[i].field # f
    <3>1. \A i \in DOMAIN r : r[i].field # f
      BY <1>1, <1>3, <2>1
    <3>2. QED
      BY <2>1, <3>1 DEF WillHold
  <2>2. CASE \E i \in DOMAIN q : /\ q[i].field = f /\ q[i].value = v
                               /\ \A j \in DOMAIN q : j > i => q[j].field # f
    <3>1. PICK i \in DOMAIN q : /\ q[i].field = f /\ q[i].value = v
                               /\ \A j \in DOMAIN q : j > i => q[j].field # f
      BY <2>2
    <3>2. i \in DOMAIN r /\ r[i].field = f /\ r[i].value = v
      BY <1>1, <3>1
    <3>3. \A j \in DOMAIN r : j > i => r[j].field # f
      BY <1>1, <1>3, <3>1
    <3>4. QED
      BY <3>2, <3>3 DEF WillHold
  <2>3. QED
    BY <1>3, <2>1, <2>2 DEF WillHold
<1>4. QED
  BY <1>2, <1>3 DEF r

LEMMA TailCalls ==
    ASSUME NEW S, NEW q \in Seq(S), q # <<>>
    PROVE  /\ Head(q) = q[1] /\ Len(q) \in Nat /\ Len(q) >= 1
           /\ DOMAIN q = 1 .. Len(q) /\ DOMAIN Tail(q) = 1 .. Len(q) - 1
           /\ Tail(q) \in Seq(S)
           /\ \A i \in 1 .. Len(q) - 1 : Tail(q)[i] = q[i + 1]
BY HeadTailProperties, LenProperties, EmptySeq

LEMMA TailHolds ==
    ASSUME NEW S, NEW q \in Seq(S), q # <<>>, NEW p \in Contents, Head(q).field \in Fields,
           NEW f \in Fields, NEW v, WillHold(p, q, f, v)
    PROVE  WillHold([p EXCEPT ![Head(q).field] = Head(q).value], Tail(q), f, v)
<1> DEFINE t == Tail(q)
           c == Head(q)
           n == [p EXCEPT ![c.field] = c.value]
<1>1. /\ c = q[1] /\ Len(q) \in Nat /\ Len(q) >= 1
      /\ DOMAIN q = 1 .. Len(q) /\ DOMAIN t = 1 .. Len(q) - 1
      /\ \A i \in 1 .. Len(q) - 1 : t[i] = q[i + 1]
  BY TailCalls
<1>2. n[f] = IF f = c.field THEN c.value ELSE p[f]
  BY DEF Contents, Fields
<1> HIDE DEF t, c, n
<1>3. CASE p[f] = v /\ \A i \in DOMAIN q : q[i].field # f
  <2>1. f # c.field
    BY <1>1, <1>3
  <2>2. \A i \in DOMAIN t : t[i].field # f
    BY <1>1, <1>3
  <2>3. QED
    BY <1>2, <1>3, <2>1, <2>2 DEF WillHold, n, t, c
<1>4. CASE \E i \in DOMAIN q : /\ q[i].field = f /\ q[i].value = v
                             /\ \A j \in DOMAIN q : j > i => q[j].field # f
  <2>1. PICK i \in DOMAIN q : /\ q[i].field = f /\ q[i].value = v
                             /\ \A j \in DOMAIN q : j > i => q[j].field # f
    BY <1>4
  <2>2. CASE i = 1
    <3>1. f = c.field /\ n[f] = v
      BY <1>1, <1>2, <2>1, <2>2
    <3>2. \A j \in DOMAIN t : t[j].field # f
      BY <1>1, <2>1, <2>2
    <3>3. QED
      BY <3>1, <3>2 DEF WillHold, n, t, c
  <2>3. CASE i # 1
    <3>1. i - 1 \in DOMAIN t /\ t[i - 1].field = f /\ t[i - 1].value = v
      BY <1>1, <2>1, <2>3
    <3>2. \A j \in DOMAIN t : j > i - 1 => t[j].field # f
      BY <1>1, <2>1
    <3>3. QED
      BY <3>1, <3>2 DEF WillHold, n, t, c
  <2>4. QED
    BY <2>2, <2>3
<1>5. QED
  BY <1>3, <1>4 DEF WillHold

\* What was sent grows by a call, and shrinks as calls are executed.
LEMMA SentAfterCall ==
    ASSUME calls \in Seq(Sent), NEW c, calls' = Append(calls, c)
    PROVE  Sent' = Sent \cup {c} /\ calls' \in Seq(Sent')
<1>1. /\ calls' \in Seq(Sent \cup {c})
      /\ DOMAIN calls' = 1 .. Len(calls) + 1 /\ DOMAIN calls = 1 .. Len(calls)
      /\ Len(calls) \in Nat
      /\ calls'[Len(calls) + 1] = c
      /\ \A i \in 1 .. Len(calls) : calls'[i] = calls[i]
  BY AppendCalls
<1>2. Sent' = Sent \cup {c}
  BY <1>1 DEF Sent
<1>3. QED
  BY <1>1, <1>2

LEMMA SentAfterWrite ==
    ASSUME TypeOK, PlatformWrites
    PROVE  /\ Sent' \subseteq Sent /\ calls' \in Seq(Sent')
           /\ Head(calls) \in Sent
<1>1. /\ Head(calls) = calls[1] /\ Len(calls) \in Nat /\ Len(calls) >= 1
      /\ DOMAIN calls = 1 .. Len(calls) /\ DOMAIN calls' = 1 .. Len(calls) - 1
      /\ \A i \in 1 .. Len(calls) - 1 : calls'[i] = calls[i + 1]
      /\ calls' \in Seq(Sent)
  BY TailCalls DEF TypeOK, PlatformWrites
<1>2. Sent' \subseteq Sent /\ Head(calls) \in Sent
  BY <1>1 DEF Sent
<1>3. Len(calls') = Len(calls) - 1
  BY HeadTailProperties DEF TypeOK, PlatformWrites
<1>4. \A i \in 1 .. Len(calls') : calls'[i] \in Sent'
  BY <1>1, <1>3 DEF Sent
<1>5. calls' \in Seq(Sent')
  BY <1>1, <1>3, <1>4, IsASeq, SeqEqual
<1>6. QED
  BY <1>1, <1>2, <1>5

------------------------------------------------------------------------------
(* The history after a result *)

LEMMA Prepended ==
    ASSUME NEW S, NEW e \in S, NEW h \in Seq(S)
    PROVE  LET all == <<e>> \o h IN
           /\ all \in Seq(S) /\ Len(all) = Len(h) + 1 /\ Len(h) \in Nat
           /\ DOMAIN h = 1 .. Len(h) /\ DOMAIN all = 1 .. Len(h) + 1
           /\ all[1] = e
           /\ \A i \in 1 .. Len(h) : all[i + 1] = h[i]
<1> DEFINE one == <<e>>
           all == one \o h
<1>1. one \in Seq(S) /\ Len(one) = 1 /\ one[1] = e
  OBVIOUS
<1>2. Len(h) \in Nat /\ DOMAIN h = 1 .. Len(h)
  BY LenProperties
<1> HIDE DEF one
<1>3. /\ all \in Seq(S) /\ Len(all) = Len(one) + Len(h)
      /\ \A i \in 1 .. Len(one) + Len(h) :
           all[i] = IF i <= Len(one) THEN one[i] ELSE h[i - Len(one)]
  BY <1>1, ConcatProperties
<1> HIDE DEF all
<1>4. DOMAIN all = 1 .. Len(all)
  BY <1>3, LenProperties
<1>5. all[1] = e
  BY <1>1, <1>2, <1>3
<1>6. ASSUME NEW i \in 1 .. Len(h)
      PROVE  all[i + 1] = h[i]
  <2>1. i + 1 \in 1 .. Len(one) + Len(h) /\ ~(i + 1 <= Len(one)) /\ (i + 1) - Len(one) = i
    BY <1>1, <1>2
  <2>2. QED
    BY <1>3, <2>1
<1>7. QED
  BY <1>1, <1>2, <1>3, <1>4, <1>5, <1>6 DEF all, one

LEMMA Truncated ==
    ASSUME NEW S, NEW all \in Seq(S), NEW n \in Nat, n >= 1, n <= Len(all)
    PROVE  LET r == SubSeq(all, 1, n) IN
           /\ r \in Seq(S) /\ Len(r) = n /\ DOMAIN r = 1 .. n
           /\ \A i \in 1 .. n : r[i] = all[i]
<1> DEFINE r == SubSeq(all, 1, n)
<1>1. Len(all) \in Nat
  BY LenProperties
<1>2. n \in 0 .. Len(all) /\ DOMAIN all = 1 .. Len(all)
  BY <1>1, LenProperties
<1>3. r = Restrict(all, 1 .. n)
  BY <1>2, SubSeqRestrict
<1>4. r = [i \in 1 .. n |-> all[i]]
  BY <1>3 DEF Restrict
<1>5. \A i \in 1 .. n : all[i] \in S
  BY <1>1, ElementOfSeq
<1> HIDE DEF r
<1>6. r \in [1 .. n -> S] /\ DOMAIN r = 1 .. n /\ \A i \in 1 .. n : r[i] = all[i]
  BY <1>4, <1>5
<1>7. r \in Seq(S)
  BY <1>6, SeqDef
<1>8. Len(r) = n
  BY <1>6, <1>7, LenProperties
<1>9. QED
  BY <1>6, <1>7, <1>8 DEF r

LEMMA RecordedIsLast ==
    ASSUME NEW h \in Seq(Results), NEW m \in Nat, NEW c \in 0 .. m, m + 1 \in Results,
           Len(h) = (IF m - c > MaxHistory THEN MaxHistory ELSE m - c),
           \A i \in DOMAIN h : h[i] = m + 1 - i
    PROVE  LET r == Recorded(h, m + 1) IN
           /\ r \in Seq(Results)
           /\ Len(r) = (IF m + 1 - c > MaxHistory THEN MaxHistory ELSE m + 1 - c)
           /\ \A i \in DOMAIN r : r[i] = m + 2 - i
<1> DEFINE e == m + 1
           all == <<e>> \o h
           r == Recorded(h, m + 1)
<1>e. e \in Results
  OBVIOUS
<1> HIDE DEF e
<1>1. /\ all \in Seq(Results) /\ Len(all) = Len(h) + 1 /\ Len(h) \in Nat
      /\ DOMAIN h = 1 .. Len(h) /\ DOMAIN all = 1 .. Len(h) + 1
      /\ all[1] = e
      /\ \A i \in 1 .. Len(h) : all[i + 1] = h[i]
  BY <1>e, Prepended
<1>2. r = IF Len(all) > MaxHistory THEN SubSeq(all, 1, MaxHistory) ELSE all
  BY DEF Recorded, e
<1> HIDE DEF all, r
<1>3. ASSUME NEW i \in 1 .. Len(h) + 1
      PROVE  all[i] = m + 2 - i
  <2>1. CASE i = 1
    BY <1>1, <2>1 DEF e
  <2>2. CASE i # 1
    <3>1. i - 1 \in 1 .. Len(h) /\ (i - 1) + 1 = i
      BY <1>1, <2>2
    <3>2. all[i] = h[i - 1]
      BY <1>1, <3>1
    <3>3. QED
      BY <1>1, <3>1, <3>2
  <2>3. QED
    BY <2>1, <2>2
<1>4. MaxHistory \in Nat /\ MaxHistory >= 1
  BY MobileAssumption
<1>5. CASE Len(all) > MaxHistory
  <2>1. /\ r \in Seq(Results) /\ Len(r) = MaxHistory /\ DOMAIN r = 1 .. MaxHistory
        /\ \A i \in 1 .. MaxHistory : r[i] = all[i]
    BY <1>1, <1>2, <1>4, <1>5, Truncated
  <2>2. QED
    BY <1>1, <1>3, <1>4, <1>5, <2>1 DEF r
<1>6. CASE ~(Len(all) > MaxHistory)
  BY <1>1, <1>2, <1>3, <1>4, <1>6 DEF r
<1>7. QED
  BY <1>5, <1>6

------------------------------------------------------------------------------
(* The invariant *)

StoresTyped ==
    /\ mem \in Contents /\ prefs \in Contents /\ disk \in Contents
    /\ calls \in Seq(Sent) /\ replies \in Seq(Waits)
    /\ \A c \in Sent : c \in [field : Fields, value : Values[c.field], for : Waits]

RestTyped ==
    /\ alive \in BOOLEAN
    /\ saves \in 0 .. MaxSaves
    /\ syncs \in [0 .. MaxSaves -> [pc : {"idle", "fetch", "list", "meta"},
                                    url : Gateways \cup {None}]]
    /\ manual \in {"idle", "asking", "saving"}
    /\ screen \in [pc : {"closed", "local", "ready", "deep", "saving"}, id : 0 .. MaxActs]
    /\ acts \in 0 .. MaxActs
    /\ made \in 0 .. acts /\ cleared \in 0 .. made
    /\ shown \in 0 .. made
    /\ fresh \in BOOLEAN /\ crossed \in BOOLEAN

\* An app that does not run has nothing under way.
Resting ==
    ~alive =>
      /\ mem = Unwritten /\ calls = <<>> /\ replies = <<>> /\ saves = 0
      /\ syncs = [n \in 0 .. MaxSaves |-> Idle]
      /\ manual = "idle" /\ shown = 0 /\ screen = Closed /\ made = 0 /\ cleared = 0
      /\ fresh = FALSE /\ crossed = FALSE

\* A check under way was asked for by the user and has no result yet.
Owed ==
    made + (IF manual = "asking" THEN 1 ELSE 0)
         + (IF screen.pc \in {"local", "deep"} THEN 1 ELSE 0) <= acts

\* Every copy of the history counts down from its newest result.
Orderly(h, n) ==
    /\ Len(h) <= MaxHistory
    /\ \A i \in DOMAIN h : h[i] = h[1] + 1 - i
    /\ h # <<>> => h[1] <= n
Histories ==
    /\ Orderly(prefs.history, acts) /\ Orderly(disk.history, acts)
    /\ \A c \in Sent : c.field = "history" => Orderly(c.value, acts)

\* What is awaited, once each, is what a sync, an address or a check waits for.
Answers(q, r) ==
    ({q[i].for : i \in DOMAIN q} \cup {r[i] : i \in DOMAIN r}) \ {Nothing}
Distinct(q, r) ==
    /\ \A i, j \in DOMAIN q : i # j /\ q[i].for = q[j].for => q[i].for = Nothing
    /\ \A i, j \in DOMAIN r : i # j => r[i] # r[j]
    /\ \A i \in DOMAIN q, j \in DOMAIN r : q[i].for # r[j]
    /\ \A j \in DOMAIN r : r[j] # Nothing
Awaited == Answers(calls, replies)
Once == Distinct(calls, replies)
Awaits(w) ==
    /\ w.what # "nothing"
    /\ w.what = "url" => w.id \in 1 .. saves /\ syncs[w.id].pc = "idle"
    /\ w.what \in {"list", "meta"} => w.id \in 0 .. MaxSaves /\ syncs[w.id].pc = w.what
    /\ w.what \in {"check", "deep"} => w.id \in 1 .. made
Waiting ==
    /\ Once
    /\ \A w \in Awaited : Awaits(w)
    /\ \A n \in 0 .. MaxSaves : n > saves => syncs[n].pc = "idle"
    /\ \A n \in 0 .. MaxSaves : Fetching(n) => syncs[n].url \in Gateways

\* What a sync, a check or a screen waits for is awaited.
SyncsAttended ==
    \A n \in 0 .. MaxSaves :
      syncs[n].pc \in {"list", "meta"} => For(syncs[n].pc, n) \in Awaited
CheckAttended == manual = "saving" => \E w \in Awaited : w.what = "check"
ScreenAttended == screen.pc = "saving" => For("deep", screen.id) \in Awaited
Attended == SyncsAttended /\ CheckAttended /\ ScreenAttended

\* The metadata of a list come after the list.
Seeded ==
    /\ prefs.list = Seed => prefs.meta = None
    /\ disk.list = Seed => disk.meta = None
    /\ \A c \in Sent : /\ c.field = "list" => c.value # Seed
                       /\ c.field = "meta" => prefs.list # Seed
                       /\ c.for.what = "list" => c.field = "list"
    /\ \A j \in DOMAIN replies : replies[j].what = "list" => prefs.list # Seed

\* A result is kept by the preferences p and by every call of q from k on, until it
\* is shown: the newest result is number m, the newest one cleared away number c.
KeptIn(r, h, c, m) ==
    (\E i \in DOMAIN h : h[i] = r) \/ r <= c \/ r + MaxHistory <= m
KeptFrom(r, k, q, c, m) ==
    \A j \in DOMAIN q : j >= k /\ q[j].field = "history" => KeptIn(r, q[j].value, c, m)
AllKept(r, p, q, rs, c, m) ==
    /\ r # 0 => KeptIn(r, p, c, m) /\ KeptFrom(r, 1, q, c, m)
    /\ \A j \in DOMAIN rs :
         rs[j].what = "check" => KeptIn(rs[j].id, p, c, m) /\ KeptFrom(rs[j].id, 1, q, c, m)
    /\ \A i \in DOMAIN q :
         q[i].for.what = "check" => q[i].field = "history" /\ KeptFrom(q[i].for.id, i, q, c, m)
ResultsKept == AllKept(shown, prefs.history, calls, replies, cleared, made)

\* No address is on its way, so the fetches are from the present one, and a list
\* that came since the last start is, too.
Settled == \A w \in Awaited : w.what # "url"
FromGateway ==
    ~crossed /\ Settled =>
      /\ \A n \in 0 .. MaxSaves : Fetching(n) => syncs[n].url = mem.url
      /\ alive /\ fresh => mem.list = mem.url /\ mem.meta = mem.url

IInv ==
    /\ StoresTyped /\ RestTyped /\ Resting /\ Owed
    /\ HistoryIsLast /\ Histories
    /\ Waiting /\ Attended /\ Seeded /\ Follows /\ ResultsKept /\ Consented /\ FromGateway

LEMMA Initially == Init => IInv
<1> SUFFICES ASSUME Init PROVE IInv
  OBVIOUS
<1>1. Sent = {} /\ Awaited = {} /\ calls = <<>> /\ replies = <<>>
  BY DEF Init, Sent, Awaited, Answers
<1>2. StoresTyped
  <2>1. calls \in Seq(Sent) /\ replies \in Seq(Waits)
    BY <1>1
  <2>2. mem \in Contents /\ prefs \in Contents /\ disk \in Contents
    BY UnwrittenIsContents DEF Init
  <2>3. \A c \in Sent : c \in [field : Fields, value : Values[c.field], for : Waits]
    BY <1>1, Zenon
  <2>4. QED
    BY <2>1, <2>2, <2>3 DEF StoresTyped
<1>3. RestTyped /\ Resting /\ Owed
  <2>1. Idle \in [pc : {"idle", "fetch", "list", "meta"}, url : Gateways \cup {None}]
    BY DEF Idle
  <2>2. Closed \in [pc : {"closed", "local", "ready", "deep", "saving"}, id : 0 .. MaxActs]
    BY MobileAssumption DEF Closed
  <2>3. RestTyped
    <3>1. syncs \in [0 .. MaxSaves ->
                       [pc : {"idle", "fetch", "list", "meta"}, url : Gateways \cup {None}]]
      BY <2>1 DEF Init
    <3>2. /\ saves \in 0 .. MaxSaves /\ acts \in 0 .. MaxActs
          /\ made \in 0 .. acts /\ cleared \in 0 .. made /\ shown \in 0 .. made
      BY MobileAssumption DEF Init
    <3>3. QED
      BY <2>2, <3>1, <3>2 DEF Init, RestTyped
  <2>4. QED
    BY <2>3 DEF Init, Resting, Owed, Closed
<1>4. HistoryIsLast /\ Follows /\ ResultsKept
  BY <1>1 DEF Init, HistoryIsLast, Follows, ResultsKept, AllKept
<1>5. Histories
  BY <1>1, MobileAssumption DEF Init, Histories, Orderly, Unwritten
<1>6. Waiting /\ Attended
  <2>1. Waiting
    BY <1>1 DEF Init, Waiting, Once, Distinct, Fetching, Idle
  <2>2. SyncsAttended /\ CheckAttended /\ ScreenAttended
    BY DEF Init, SyncsAttended, CheckAttended, ScreenAttended, Idle, Closed
  <2>3. QED
    BY <2>1, <2>2 DEF Attended
<1>7. Seeded /\ Consented /\ FromGateway
  BY <1>1 DEF Init, Seeded, Consented, Consents, Unwritten, NoFamily, FromGateway, Fetching, Idle
<1>8. QED
  BY <1>2, <1>3, <1>4, <1>5, <1>6, <1>7 DEF IInv

LEMMA Typed == IInv => TypeOK
BY DEF IInv, StoresTyped, RestTyped, TypeOK

------------------------------------------------------------------------------
(* What the invariant says before a step *)

LEMMA ContentsOf ==
    ASSUME StoresTyped
    PROVE  /\ mem.url \in Gateways /\ prefs.url \in Gateways
           /\ mem.history \in Seq(Results) /\ prefs.history \in Seq(Results)
           /\ mem.family \in Families /\ prefs.family \in Families
           /\ mem.list \in Lists /\ mem.meta \in Metas
           /\ prefs.list \in Lists /\ prefs.meta \in Metas
BY DEF StoresTyped, Contents, Values

\* The head of the answers is awaited, and stands for what waits.
LEMMA HeadAwaited ==
    ASSUME IInv, replies # <<>>
    PROVE  Head(replies) \in Awaited /\ Head(replies) \in Waits /\ Awaits(Head(replies))
<1>1. /\ Head(replies) = replies[1] /\ DOMAIN replies = 1 .. Len(replies)
      /\ Len(replies) \in Nat /\ Len(replies) >= 1
  BY TailCalls DEF IInv, StoresTyped
<1>2. 1 \in DOMAIN replies /\ Head(replies) \in Waits
  BY <1>1, HeadTailProperties DEF IInv, StoresTyped
<1>3. Head(replies) # Nothing
  BY <1>1, <1>2 DEF IInv, Waiting, Once, Distinct
<1>4. Head(replies) \in Awaited
  BY <1>1, <1>2, <1>3 DEF Awaited, Answers
<1>5. QED
  BY <1>2, <1>4 DEF IInv, Waiting

LEMMA Busy ==
    ASSUME IInv,
           \/ calls # <<>> \/ replies # <<>> \/ manual # "idle" \/ screen.pc # "closed"
           \/ \E n \in 0 .. MaxSaves : Fetching(n)
    PROVE  alive
<1> SUFFICES ASSUME ~alive PROVE FALSE
  OBVIOUS
<1>1. /\ calls = <<>> /\ replies = <<>> /\ manual = "idle" /\ screen.pc = "closed"
      /\ syncs = [n \in 0 .. MaxSaves |-> Idle]
  BY DEF IInv, Resting, Closed
<1>2. \A n \in 0 .. MaxSaves : ~Fetching(n)
  BY <1>1 DEF Fetching, Idle
<1>3. QED
  BY <1>1, <1>2

\* A resumed function waited for a reply of its kind.
LEMMA Resumed ==
    ASSUME IInv, NEW what, Resume(what)
    PROVE  /\ alive /\ replies # <<>> /\ replies' = Tail(replies)
           /\ Head(replies).what = what /\ Head(replies).id \in Nat
           /\ Head(replies) \in Awaited /\ Awaits(Head(replies))
<1>1. replies # <<>> /\ replies' = Tail(replies) /\ Head(replies).what = what
  BY DEF Resume
<1>2. QED
  BY <1>1, HeadAwaited, Busy DEF Waits

------------------------------------------------------------------------------
(* Steps *)

\* Nothing is stored or sent, or an answer is taken, or one value is stored and sent.
Still ==
    /\ alive' = alive /\ disk' \in {disk, prefs}
    /\ UNCHANGED <<mem, prefs, calls, replies, made, cleared>>
Answered ==
    /\ alive /\ alive' /\ replies # <<>> /\ replies' = Tail(replies)
    /\ UNCHANGED <<mem, prefs, disk, calls, made, cleared>>
Sends(f, v, w) ==
    /\ alive /\ alive' /\ Store(f, v, w) /\ UNCHANGED <<prefs, disk, replies>>
Records(w) ==
    /\ Sends("history", Recorded(mem.history, made + 1), w)
    /\ made' = made + 1 /\ cleared' = cleared /\ made + 1 <= acts /\ made + 1 \in Results
    /\ w \in {Nothing, For("check", made + 1), For("deep", made + 1)}
Clears ==
    /\ Sends("history", <<>>, Nothing)
    /\ made' = made /\ cleared' = made
SendsUrl ==
    \E u \in Gateways :
      /\ Sends("url", u, For("url", saves + 1)) /\ UNCHANGED <<made, cleared>>
      /\ saves < MaxSaves
SendsFamily ==
    \E family \in Families :
      /\ Consents(family) /\ Sends("family", family, Nothing)
      /\ UNCHANGED <<made, cleared>>
ListArrives == \E n \in 0 .. MaxSaves : alive /\ alive' /\ SnapshotArrives(n)

Shape ==
    \/ Still \/ Answered \/ (\E w \in Waits : Records(w)) \/ Clears \/ SendsUrl \/ SendsFamily
    \/ ListArrives \/ (alive /\ alive' /\ ListSaved) \/ (alive /\ alive' /\ PlatformWrites)
    \/ Launch \/ Dies

LEMMA Recording ==
    ASSUME IInv, NEW w, w \in {Nothing, For("check", made + 1), For("deep", made + 1)},
           Record(w), alive' = alive, cleared' = cleared,
           manual = "asking" \/ screen.pc \in {"local", "deep"},
           UNCHANGED <<prefs, disk, replies>>
    PROVE  \E v \in Waits : Records(v)
<1>1. made + 1 <= acts /\ made + 1 \in Results /\ made + 1 \in Nat
  BY MobileAssumption DEF IInv, Owed, RestTyped, Results
<1>2. w \in Waits
  BY <1>1 DEF Nothing, For, Waits
<1>3. alive
  BY Busy
<1>4. Records(w)
  BY <1>1, <1>3 DEF Records, Record, Sends
<1>5. QED
  BY <1>2, <1>4

LEMMA FamilyChanges ==
    ASSUME IInv, Family
    PROVE  SendsFamily
<1>1. mem.family \in Families /\ Consents(mem.family)
  BY ContentsOf DEF IInv, Consented
<1>2. ASSUME NEW family \in Families, Consents(family), Update(family)
      PROVE  SendsFamily
  BY <1>2 DEF Update, Act, Sends, SendsFamily, checkVars
<1>3. CASE ToggleConsent
  <2> DEFINE next == [mem.family EXCEPT !.consent = ~@, !.enabled = @ /\ ~mem.family.consent]
  <2>1. next \in Families /\ Consents(next)
    BY <1>1 DEF Families, Consents
  <2>2. QED
    BY <1>2, <1>3, <2>1 DEF ToggleConsent
<1>4. CASE ToggleEnabled
  <2> DEFINE next == [mem.family EXCEPT !.enabled = ~@]
  <2>1. next \in Families /\ Consents(next)
    BY <1>1, <1>4 DEF Families, Consents, ToggleEnabled
  <2>2. QED
    BY <1>2, <1>4, <2>1 DEF ToggleEnabled
<1>5. CASE RegenerateCode
  <2>1. PICK c \in Codes :
          Update([mem.family EXCEPT !.code = c, !.guardian = None, !.enabled = FALSE])
    BY <1>5 DEF RegenerateCode
  <2> DEFINE next == [mem.family EXCEPT !.code = c, !.guardian = None, !.enabled = FALSE]
  <2>2. next \in Families /\ Consents(next)
    BY <1>1 DEF Families, Consents
  <2>3. QED
    BY <1>2, <2>1, <2>2
<1>6. CASE LinkGuardian
  <2> DEFINE next == [mem.family EXCEPT !.guardian = mem.family.code]
  <2>1. next \in Families /\ Consents(next)
    BY <1>1 DEF Families, Consents
  <2>2. QED
    BY <1>2, <1>6, <2>1 DEF LinkGuardian
<1>7. CASE UnlinkGuardian
  <2> DEFINE next == [mem.family EXCEPT !.guardian = None, !.enabled = FALSE]
  <2>1. next \in Families /\ Consents(next)
    BY <1>1 DEF Families, Consents
  <2>2. QED
    BY <1>2, <1>7, <2>1 DEF UnlinkGuardian
<1>8. QED
  BY <1>3, <1>4, <1>5, <1>6, <1>7 DEF Family

LEMMA Shapes ==
    ASSUME IInv, [Next]_vars
    PROVE  Shape
<1>1. CASE Launch \/ Dies \/ Family
  BY <1>1, FamilyChanges DEF Shape
<1>2. CASE PlatformWrites
  BY <1>2, Busy DEF PlatformWrites, Shape
<1>3. CASE FileWritten \/ UNCHANGED vars
  BY <1>3 DEF FileWritten, checkVars, vars, stores, Still, Shape
<1>4. ASSUME NEW u \in Gateways, SetBaseUrl(u)
      PROVE  SendsUrl
  BY <1>4 DEF SetBaseUrl, Act, Sends, SendsUrl, checkVars
<1>5. CASE UrlSaved
  BY <1>5, Resumed DEF UrlSaved, checkVars, Answered, Shape
<1>6. CASE ListSaved
  BY <1>6, Resumed DEF ListSaved, Shape
<1>7. CASE MetaSaved
  BY <1>7, Resumed DEF MetaSaved, checkVars, Answered, Shape
<1>8. ASSUME NEW n \in 0 .. MaxSaves, SnapshotArrives(n)
      PROVE  ListArrives
  BY <1>8, Busy DEF SnapshotArrives, ListArrives
<1>9. ASSUME NEW n \in 0 .. MaxSaves, SyncFails(n)
      PROVE  Still
  BY <1>9 DEF SyncFails, stores, checkVars, Still
<1>10. CASE StartCheck \/ CheckErrs \/ Share \/ AskDeep \/ DeepFails \/ LeaveScreen
  BY <1>10 DEF StartCheck, CheckErrs, Share, AskDeep, DeepFails, LeaveScreen, Act, stores,
     Still, Shape
<1>11. CASE CheckJudged
  BY <1>11, Recording DEF CheckJudged, Shape
<1>12. CASE LocalJudged
  BY <1>12, Recording DEF LocalJudged, Shape
<1>13. CASE DeepJudged
  BY <1>13, Recording DEF DeepJudged, Shape
<1>14. CASE CheckSaved
  BY <1>14, Resumed DEF CheckSaved, Answered, Shape
<1>15. CASE DeepSaved
  BY <1>15, Resumed DEF DeepSaved, Answered, Shape
<1>16. CASE ClearHistory
  BY <1>16 DEF ClearHistory, Act, Sends, Clears, Shape
<1>17. QED
  BY <1>1, <1>2, <1>3, <1>4, <1>5, <1>6, <1>7, <1>8, <1>9, <1>10, <1>11, <1>12, <1>13,
     <1>14, <1>15, <1>16 DEF Next, Sync, Check, Shape

------------------------------------------------------------------------------
(* Types *)

\* What is sent has its field's type.
LEMMA Storing ==
    ASSUME StoresTyped, NEW f \in Fields, NEW v \in Values[f], NEW w \in Waits,
           mem' \in Contents, calls' = Append(calls, Call(f, v, w))
    PROVE  /\ Sent' = Sent \cup {Call(f, v, w)} /\ calls' \in Seq(Sent')
           /\ \A c \in Sent' : c \in [field : Fields, value : Values[c.field], for : Waits]
<1> DEFINE new == Call(f, v, w)
<1>1. Sent' = Sent \cup {new} /\ calls' \in Seq(Sent')
  BY SentAfterCall DEF StoresTyped
<1>2. new \in [field : Fields, value : Values[new.field], for : Waits]
  BY DEF Call
<1>3. QED
  BY <1>1, <1>2 DEF StoresTyped

LEMMA StoresStep ==
    ASSUME IInv, Shape
    PROVE  StoresTyped'
<1> USE DEF IInv
<1>0. /\ mem \in Contents /\ prefs \in Contents /\ disk \in Contents
      /\ calls \in Seq(Sent) /\ replies \in Seq(Waits)
      /\ \A c \in Sent : c \in [field : Fields, value : Values[c.field], for : Waits]
  BY DEF StoresTyped
<1>1. ASSUME NEW f \in Fields, NEW v \in Values[f], NEW w \in Waits, Sends(f, v, w)
      PROVE  StoresTyped'
  <2>1. mem' \in Contents /\ prefs' \in Contents /\ disk' \in Contents
    BY <1>0, <1>1, StoreContents DEF Sends, Store
  <2>2. QED
    BY <1>0, <1>1, <2>1, Storing DEF Sends, Store, StoresTyped
<1>2. CASE Still
  BY <1>0, <1>2 DEF Still, StoresTyped, Sent
<1>3. CASE Answered
  <2>1. replies' \in Seq(Waits)
    BY <1>0, <1>3, HeadTailProperties DEF Answered
  <2>2. QED
    BY <1>0, <1>3, <2>1 DEF Answered, StoresTyped, Sent
<1>4. ASSUME NEW w \in Waits, Records(w)
      PROVE  StoresTyped'
  <2>1. /\ mem.history \in Seq(Results) /\ made \in Nat /\ cleared \in 0 .. made
        /\ made + 1 \in Results
        /\ Len(mem.history) =
             (IF made - cleared > MaxHistory THEN MaxHistory ELSE made - cleared)
        /\ \A i \in DOMAIN mem.history : mem.history[i] = made + 1 - i
    BY <1>4, ContentsOf DEF Records, Sends, HistoryIsLast, RestTyped
  <2>2. Recorded(mem.history, made + 1) \in Seq(Results)
    BY <2>1, RecordedIsLast
  <2>3. QED
    BY <1>1, <1>4, <2>2 DEF Records, Fields, Values
<1>5. CASE Clears
  <2>1. <<>> \in Values["history"] /\ "history" \in Fields /\ Nothing \in Waits
    BY DEF Values, Fields, Nothing, Waits
  <2>2. QED
    BY <1>1, <1>5, <2>1 DEF Clears
<1>6. CASE SendsUrl
  <2>1. For("url", saves + 1) \in Waits
    BY DEF For, Waits, RestTyped
  <2>2. QED
    BY <1>1, <1>6, <2>1 DEF SendsUrl, Fields, Values
<1>7. CASE SendsFamily
  <2>1. Nothing \in Waits
    BY DEF Nothing, Waits
  <2>2. QED
    BY <1>1, <1>7, <2>1 DEF SendsFamily, Fields, Values
<1>8. CASE ListArrives
  <2>1. PICK n \in 0 .. MaxSaves : SnapshotArrives(n)
    BY <1>8 DEF ListArrives
  <2> DEFINE u == syncs[n].url
  <2>2. u \in Gateways
    BY <2>1 DEF SnapshotArrives, Waiting
  <2>3. For("list", n) \in Waits
    BY MobileAssumption DEF For, Waits
  <2>4. mem' \in Contents
    <3>1. mem' = [mem EXCEPT !.list = u, !.meta = u]
      BY <2>1 DEF SnapshotArrives
    <3>2. QED
      BY <1>0, <2>2, <3>1 DEF Contents, Values, Lists, Metas
  <2>5. u \in Values["list"] /\ "list" \in Fields
    BY <2>2 DEF Values, Fields, Lists
  <2>6. /\ calls' \in Seq(Sent')
        /\ \A c \in Sent' : c \in [field : Fields, value : Values[c.field], for : Waits]
    BY <2>1, <2>3, <2>4, <2>5, Storing DEF SnapshotArrives
  <2>7. QED
    BY <1>0, <2>1, <2>4, <2>6 DEF SnapshotArrives, StoresTyped
<1>9. CASE alive /\ alive' /\ ListSaved
  <2> DEFINE w == For("meta", Head(replies).id)
  <2>1. replies # <<>> /\ replies' = Tail(replies) /\ Head(replies).id \in Nat
    BY <1>9, Resumed DEF ListSaved
  <2>2. w \in Waits
    BY <2>1 DEF For, Waits
  <2>3. mem.meta \in Values["meta"] /\ "meta" \in Fields
    BY ContentsOf DEF Values, Fields
  <2>4. mem' \in Contents /\ calls' = Append(calls, Call("meta", mem.meta, w))
    BY <1>0, <1>9 DEF ListSaved
  <2>5. /\ calls' \in Seq(Sent')
        /\ \A c \in Sent' : c \in [field : Fields, value : Values[c.field], for : Waits]
    BY <2>2, <2>3, <2>4, Storing
  <2>6. replies' \in Seq(Waits)
    BY <1>0, <2>1, HeadTailProperties
  <2>7. QED
    BY <1>0, <1>9, <2>4, <2>5, <2>6 DEF ListSaved, StoresTyped
<1>10. CASE alive /\ alive' /\ PlatformWrites
  <2>1. /\ Sent' \subseteq Sent /\ calls' \in Seq(Sent') /\ Head(calls) \in Sent
    BY <1>10, SentAfterWrite, Typed
  <2> DEFINE c == Head(calls)
  <2>2. c.field \in Fields /\ c.value \in Values[c.field] /\ c.for \in Waits
    BY <1>0, <2>1
  <2>3. prefs' \in Contents
    BY <1>0, <1>10, <2>2, StoreContents DEF PlatformWrites
  <2>4. replies' \in Seq(Waits)
    BY <1>0, <1>10, <2>2, AppendProperties DEF PlatformWrites
  <2>5. QED
    BY <1>0, <1>10, <2>1, <2>3, <2>4 DEF PlatformWrites, StoresTyped
<1>11. CASE Launch
  <2>1. PICK c \in Codes :
          LET family == IF prefs.family.code = None THEN [prefs.family EXCEPT !.code = c]
                        ELSE prefs.family IN
          /\ mem' = [prefs EXCEPT !.meta = MetaOf(prefs.list, prefs.meta), !.family = family]
          /\ calls' = IF prefs.family.code = None
                      THEN <<Call("family", family, Nothing)>> ELSE <<>>
    BY <1>11 DEF Launch
  <2> DEFINE family == IF prefs.family.code = None THEN [prefs.family EXCEPT !.code = c]
                       ELSE prefs.family
             meta == MetaOf(prefs.list, prefs.meta)
  <2>2. family \in Families /\ meta \in Metas
    BY ContentsOf DEF Families, MetaOf, Lists, Metas
  <2> HIDE DEF family, meta
  <2>3. mem' \in Contents
    <3>1. mem' = [prefs EXCEPT !.meta = meta, !.family = family]
      BY <2>1 DEF family, meta
    <3>2. QED
      BY <1>0, <2>2, <3>1 DEF Contents, Values
  <2>4. calls = <<>> /\ Nothing \in Waits
    BY <1>11 DEF Launch, Resting, Nothing, Waits
  <2>5. /\ calls' \in Seq(Sent')
        /\ \A d \in Sent' : d \in [field : Fields, value : Values[d.field], for : Waits]
    <3>1. CASE calls' = <<>>
      <4>1. Sent' = {}
        BY <3>1 DEF Sent
      <4>2. QED
        BY <3>1, <4>1
    <3>2. CASE calls' = <<Call("family", family, Nothing)>>
      <4>1. calls' = Append(calls, Call("family", family, Nothing))
        BY <2>4, <3>2
      <4>2. "family" \in Fields /\ family \in Values["family"]
        BY <2>2 DEF Fields, Values
      <4>3. QED
        BY <2>3, <2>4, <4>1, <4>2, Storing
    <3>3. QED
      BY <2>1, <3>1, <3>2 DEF family
  <2>6. QED
    BY <1>0, <1>11, <2>3, <2>5 DEF Launch, StoresTyped
<1>12. CASE Dies
  <2>1. calls' = <<>> /\ replies' = <<>> /\ Sent' = {}
    BY <1>12 DEF Dies, Sent
  <2>2. mem' \in Contents /\ prefs' \in Contents /\ disk' \in Contents
    BY <1>0, <1>12, UnwrittenIsContents DEF Dies
  <2>3. calls' \in Seq(Sent') /\ replies' \in Seq(Waits)
    BY <2>1
  <2>4. \A c \in Sent' : c \in [field : Fields, value : Values[c.field], for : Waits]
    BY <2>1, Zenon
  <2>5. QED
    BY <2>2, <2>3, <2>4 DEF StoresTyped
<1>13. QED
  BY <1>2, <1>3, <1>4, <1>5, <1>6, <1>7, <1>8, <1>9, <1>10, <1>11, <1>12 DEF Shape

\* The numbering of the results starts again from the history that was stored.
LEMMA Renumbered ==
    ASSUME IInv, Launch
    PROVE  /\ made' \in 0 .. acts /\ cleared' \in 0 .. made'
           /\ mem'.history = prefs.history
           /\ Len(prefs.history) = made' - cleared' /\ Len(prefs.history) <= MaxHistory
           /\ Len(prefs.history) \in Nat /\ made' \in Nat
           /\ \A i \in DOMAIN prefs.history : prefs.history[i] = made' + 1 - i
<1>h. PICK h : h = prefs.history
  OBVIOUS
<1>1. /\ h \in Seq(Results) /\ Len(h) \in Nat /\ DOMAIN h = 1 .. Len(h) /\ acts \in Nat
      /\ Len(h) <= MaxHistory /\ (\A i \in DOMAIN h : h[i] = h[1] + 1 - i)
      /\ (h # <<>> => h[1] <= acts)
  BY <1>h, ContentsOf, LenProperties, MobileAssumption
     DEF IInv, Histories, Orderly, RestTyped
<1>2. mem'.history = h
  BY <1>h DEF Launch, IInv, StoresTyped, Contents
<1>3. made' = (IF h = <<>> THEN 0 ELSE Head(h)) /\ cleared' = made' - Len(h)
  BY <1>h DEF Launch
<1>4. CASE h = <<>>
  <2>0. Len(h) = 0
    BY <1>4
  <2>1. Len(h) = 0 /\ made' = 0 /\ cleared' = 0 /\ DOMAIN h = {}
    <3>1. DOMAIN h = 1 .. Len(h)
      BY <1>1
    <3>2. DOMAIN h = {}
      BY <2>0, <3>1
    <3>3. made' = 0
      BY <1>3, <1>4
    <3>4. cleared' = 0 - 0
      BY <1>3, <2>0, <3>3
    <3>5. QED
      BY <2>0, <3>2, <3>3, <3>4
  <2>2. /\ made' \in 0 .. acts /\ cleared' \in 0 .. made' /\ made' \in Nat
        /\ Len(h) = made' - cleared' /\ \A i \in DOMAIN h : h[i] = made' + 1 - i
    BY <1>1, <2>1
  <2>3. QED
    BY <1>h, <1>1, <1>2, <2>2
<1>5. CASE h # <<>>
  <2>1. Head(h) = h[1] /\ Len(h) >= 1
    BY <1>1, <1>5, TailCalls
  <2>2. h[1] \in Results /\ h[Len(h)] \in Results
    BY <1>1, <2>1, ElementOfSeq
  <2>3. h[Len(h)] = h[1] + 1 - Len(h)
    BY <1>1, <2>1
  <2>4. h[1] \in Nat /\ Len(h) <= h[1]
    BY <1>1, <2>2, <2>3, MobileAssumption DEF Results
  <2>5. made' = h[1]
    BY <1>3, <1>5, <2>1
  <2>6. \A i \in DOMAIN h : h[i] = made' + 1 - i
    BY <1>1, <2>5
  <2>7. made' \in 0 .. acts /\ cleared' \in 0 .. made' /\ Len(h) = made' - cleared'
    <3>1. cleared' = h[1] - Len(h) /\ h[1] <= acts /\ h[1] \in Nat /\ Len(h) <= h[1]
      BY <1>1, <1>3, <1>5, <2>4, <2>5
    <3>2. QED
      BY <1>1, <2>5, <3>1
  <2>8. QED
    BY <1>h, <1>1, <1>2, <2>4, <2>5, <2>6, <2>7
<1>6. QED
  BY <1>4, <1>5

\* The family screen leaves syncs and checks alone.
LEMMA FamilyActs ==
    ASSUME Family
    PROVE  Act /\ UNCHANGED <<alive, syncVars, checkVars>>
<1>1. CASE ToggleConsent
  BY <1>1 DEF ToggleConsent, Update
<1>2. CASE ToggleEnabled
  BY <1>2 DEF ToggleEnabled, Update
<1>3. CASE RegenerateCode
  BY <1>3 DEF RegenerateCode, Update
<1>4. CASE LinkGuardian
  BY <1>4 DEF LinkGuardian, Update
<1>5. CASE UnlinkGuardian
  BY <1>5 DEF UnlinkGuardian, Update
<1>6. QED
  BY <1>1, <1>2, <1>3, <1>4, <1>5 DEF Family

LEMMA RestStep ==
    ASSUME IInv, [Next]_vars
    PROVE  RestTyped' /\ Owed'
<1> USE DEF IInv
<1>0. MaxActs \in Nat /\ MaxSaves \in Nat
  BY MobileAssumption
<1>1. CASE Launch
  <2>1. made' \in 0 .. acts /\ cleared' \in 0 .. made' /\ acts \in Nat
    BY <1>0, <1>1, Renumbered DEF RestTyped
  <2>2. syncs' \in [0 .. MaxSaves -> [pc : {"idle", "fetch", "list", "meta"},
                                      url : Gateways \cup {None}]]
    BY <1>1, ContentsOf DEF Launch, RestTyped
  <2>3. manual = "idle" /\ screen.pc = "closed" /\ shown = 0
    BY <1>1 DEF Launch, Resting, Closed
  <2>4. QED
    BY <1>0, <1>1, <2>1, <2>2, <2>3 DEF Launch, RestTyped, Owed
<1>2. CASE Dies
  BY <1>0, <1>2 DEF Dies, Act, RestTyped, Owed, Idle, Closed
<1>3. CASE PlatformWrites \/ FileWritten \/ UNCHANGED vars
  BY <1>3 DEF PlatformWrites, FileWritten, vars, stores, syncVars, checkVars, RestTyped, Owed
<1>4. ASSUME NEW u \in Gateways, SetBaseUrl(u)
      PROVE  RestTyped' /\ Owed'
  BY <1>0, <1>4 DEF SetBaseUrl, Act, checkVars, RestTyped, Owed
<1>5. CASE UrlSaved
  BY <1>0, <1>5, ContentsOf DEF UrlSaved, StartSync, checkVars, RestTyped, Owed, Fetching
<1>6. CASE ListSaved \/ MetaSaved
  BY <1>6 DEF ListSaved, MetaSaved, Idle, checkVars, RestTyped, Owed
<1>7. ASSUME NEW n \in 0 .. MaxSaves, SnapshotArrives(n) \/ SyncFails(n)
      PROVE  RestTyped' /\ Owed'
  <2>1. syncs' \in [0 .. MaxSaves -> [pc : {"idle", "fetch", "list", "meta"},
                                      url : Gateways \cup {None}]]
    <3>1. syncs[n] \in [pc : {"idle", "fetch", "list", "meta"}, url : Gateways \cup {None}]
      BY DEF RestTyped
    <3>2. [syncs[n] EXCEPT !.pc = "list"]
            \in [pc : {"idle", "fetch", "list", "meta"}, url : Gateways \cup {None}]
      BY <3>1
    <3>3. syncs' = [syncs EXCEPT ![n] = [syncs[n] EXCEPT !.pc = "list"]]
            \/ syncs' = [syncs EXCEPT ![n] = Idle]
      BY <1>7 DEF SnapshotArrives, SyncFails
    <3>4. Idle \in [pc : {"idle", "fetch", "list", "meta"}, url : Gateways \cup {None}]
      BY DEF Idle
    <3>5. QED
      BY <3>2, <3>3, <3>4 DEF RestTyped
  <2>2. /\ UNCHANGED <<saves, acts, alive, manual, shown, screen, made, cleared, crossed>>
        /\ fresh' \in BOOLEAN
    BY <1>7 DEF SnapshotArrives, SyncFails, checkVars, RestTyped
  <2>3. QED
    BY <2>1, <2>2 DEF RestTyped, Owed
<1>8. CASE StartCheck \/ Share \/ AskDeep
  BY <1>0, <1>8 DEF StartCheck, Share, AskDeep, Act, syncVars, RestTyped, Owed
<1>9. CASE CheckErrs \/ DeepFails \/ LeaveScreen \/ DeepSaved
  BY <1>0, <1>9 DEF CheckErrs, DeepFails, LeaveScreen, DeepSaved, Closed, syncVars, RestTyped, Owed
<1>10. CASE CheckJudged \/ LocalJudged \/ DeepJudged
  <2>1. CASE CheckJudged
    BY <1>0, <2>1 DEF CheckJudged, Record, syncVars, RestTyped, Owed
  <2>2. CASE LocalJudged
    BY <1>0, <2>2 DEF LocalJudged, Record, syncVars, RestTyped, Owed
  <2>3. CASE DeepJudged
    BY <1>0, <2>3 DEF DeepJudged, Record, syncVars, RestTyped, Owed
  <2>4. QED
    BY <1>10, <2>1, <2>2, <2>3
<1>11. CASE CheckSaved
  <2>1. Head(replies).id \in 1 .. made
    BY <1>11, Resumed DEF CheckSaved, Awaits
  <2>2. QED
    BY <1>0, <1>11, <2>1 DEF CheckSaved, syncVars, RestTyped, Owed
<1>12. CASE ClearHistory
  BY <1>0, <1>12 DEF ClearHistory, Act, syncVars, RestTyped, Owed
<1>13. CASE Family
  <2>1. Act /\ UNCHANGED <<alive, syncVars, checkVars>>
    BY <1>13, FamilyActs
  <2>2. QED
    BY <1>0, <2>1 DEF Act, syncVars, checkVars, RestTyped, Owed
<1>14. QED
  BY <1>1, <1>2, <1>3, <1>4, <1>5, <1>6, <1>7, <1>8, <1>9, <1>10, <1>11, <1>12, <1>13
     DEF Next, Sync, Check

------------------------------------------------------------------------------
(* The app that does not run, and its history *)

LEMMA RestingStep ==
    ASSUME IInv, [Next]_vars
    PROVE  Resting'
<1> USE DEF IInv
<1>1. CASE Dies
  BY <1>1 DEF Dies, Resting
<1>2. CASE FileWritten \/ UNCHANGED vars
  BY <1>2 DEF FileWritten, vars, stores, syncVars, checkVars, Resting
<1>3. ASSUME alive'
      PROVE  Resting'
  BY <1>3 DEF Resting
<1>4. CASE StartCheck \/ Share \/ AskDeep
  BY <1>3, <1>4 DEF StartCheck, Share, AskDeep, Act
<1>5. CASE CheckErrs \/ DeepFails \/ LeaveScreen
  BY <1>3, <1>5, Busy DEF CheckErrs, DeepFails, LeaveScreen
<1>6. ASSUME NEW n \in 0 .. MaxSaves, SyncFails(n)
      PROVE  alive'
  BY <1>6, Busy DEF SyncFails
<1>7. CASE Launch \/ PlatformWrites
  <2>1. CASE Launch
    BY <1>3, <2>1 DEF Launch
  <2>2. CASE PlatformWrites
    BY <1>3, <2>2, Busy DEF PlatformWrites
  <2>3. QED
    BY <1>7, <2>1, <2>2
<1>8. ASSUME NEW n \in 0 .. MaxSaves, SnapshotArrives(n)
      PROVE  alive'
  BY <1>8, Busy DEF SnapshotArrives
<1>9. ASSUME NEW u \in Gateways, SetBaseUrl(u)
      PROVE  alive'
  BY <1>9 DEF SetBaseUrl, Act
<1>10. CASE UrlSaved \/ ListSaved \/ MetaSaved \/ CheckSaved \/ DeepSaved
  BY <1>3, <1>10, Resumed DEF UrlSaved, ListSaved, MetaSaved, CheckSaved, DeepSaved
<1>11. CASE CheckJudged \/ LocalJudged \/ DeepJudged
  BY <1>3, <1>11, Busy DEF CheckJudged, LocalJudged, DeepJudged
<1>12. CASE ClearHistory \/ Family
  BY <1>3, <1>12, FamilyActs DEF ClearHistory, Act
<1>13. QED
  BY <1>1, <1>2, <1>3, <1>4, <1>5, <1>6, <1>7, <1>8, <1>9, <1>10, <1>11, <1>12
     DEF Next, Sync, Check

LEMMA ActsGrow ==
    ASSUME IInv, [Next]_vars
    PROVE  acts \in Nat /\ acts' \in Nat /\ acts <= acts'
<1>0. acts \in Nat
  BY MobileAssumption DEF IInv, RestTyped
<1>1. acts' = acts \/ Act
  <2>1. CASE Launch \/ PlatformWrites \/ FileWritten \/ UNCHANGED vars
    BY <2>1 DEF Launch, PlatformWrites, FileWritten, vars
  <2>2. CASE Sync
    BY <2>2 DEF Sync, SetBaseUrl, UrlSaved, ListSaved, MetaSaved, SnapshotArrives, SyncFails
  <2>3. CASE Check
    BY <2>3 DEF Check, StartCheck, CheckJudged, CheckErrs, CheckSaved, ClearHistory, Share,
       LocalJudged, AskDeep, DeepJudged, DeepFails, DeepSaved, LeaveScreen
  <2>4. CASE Family \/ Dies
    BY <2>4, FamilyActs DEF Dies
  <2>5. QED
    BY <2>1, <2>2, <2>3, <2>4 DEF Next
<1>2. QED
  BY <1>0, <1>1 DEF Act

LEMMA HistoryStep ==
    ASSUME IInv, Shape
    PROVE  HistoryIsLast'
<1> USE DEF IInv
<1>0. /\ mem.history \in Seq(Results) /\ made \in Nat /\ cleared \in 0 .. made
      /\ MaxHistory \in Nat
  BY ContentsOf, MobileAssumption DEF RestTyped
<1>1. ASSUME mem'.history = mem.history, made' = made, cleared' = cleared, alive' => alive
      PROVE  HistoryIsLast'
  BY <1>1 DEF HistoryIsLast
<1>2. CASE Still
  BY <1>1, <1>2 DEF Still
<1>3. CASE Answered
  BY <1>1, <1>3 DEF Answered
<1>4. ASSUME NEW w \in Waits, Records(w)
      PROVE  HistoryIsLast'
  <2>1. /\ made + 1 \in Results
        /\ Len(mem.history) =
             (IF made - cleared > MaxHistory THEN MaxHistory ELSE made - cleared)
        /\ \A i \in DOMAIN mem.history : mem.history[i] = made + 1 - i
    BY <1>4 DEF Records, Sends, HistoryIsLast
  <2> DEFINE r == Recorded(mem.history, made + 1)
  <2>2. /\ Len(r) = (IF made + 1 - cleared > MaxHistory THEN MaxHistory ELSE made + 1 - cleared)
        /\ \A i \in DOMAIN r : r[i] = made + 2 - i
    BY <1>0, <2>1, RecordedIsLast
  <2> HIDE DEF r
  <2>3. mem'.history = r /\ made' = made + 1 /\ cleared' = cleared
    BY <1>4 DEF Records, Sends, Store, StoresTyped, Contents, r
  <2>4. DOMAIN r = 1 .. Len(r) /\ Len(r) \in Nat
    BY <1>0, <2>1, RecordedIsLast, LenProperties DEF r
  <2>5. \A i \in DOMAIN r : r[i] = (made + 1) + 1 - i
    BY <1>0, <2>2, <2>4
  <2>6. (made + 1) - cleared = made + 1 - cleared
    BY <1>0
  <2>7. QED
    BY <2>2, <2>3, <2>5, <2>6 DEF HistoryIsLast
<1>5. CASE Clears
  <2>1. mem'.history = <<>> /\ made' = made /\ cleared' = made
    BY <1>5 DEF Clears, Sends, Store, StoresTyped, Contents
  <2>2. Len(<<>>) = 0 /\ made - made = 0 /\ ~(0 > MaxHistory)
    BY <1>0
  <2>3. QED
    BY <2>1, <2>2 DEF HistoryIsLast
<1>6. CASE SendsUrl
  BY <1>1, <1>6 DEF SendsUrl, Sends, Store, StoresTyped, Contents
<1>7. CASE SendsFamily
  BY <1>1, <1>7 DEF SendsFamily, Sends, Store, StoresTyped, Contents
<1>8. CASE ListArrives
  BY <1>1, <1>8 DEF ListArrives, SnapshotArrives, checkVars, StoresTyped, Contents
<1>9. CASE alive /\ alive' /\ ListSaved
  BY <1>1, <1>9 DEF ListSaved, checkVars
<1>10. CASE alive /\ alive' /\ PlatformWrites
  BY <1>1, <1>10 DEF PlatformWrites, checkVars
<1>11. CASE Launch
  BY <1>0, <1>11, Renumbered DEF HistoryIsLast
<1>12. CASE Dies
  BY <1>12 DEF Dies, HistoryIsLast
<1>13. QED
  BY <1>2, <1>3, <1>4, <1>5, <1>6, <1>7, <1>8, <1>9, <1>10, <1>11, <1>12 DEF Shape

\* Every copy of the history, in a preference, in the file or on its way.
Copies ==
    {prefs.history, disk.history} \cup {c.value : c \in {d \in Sent : d.field = "history"}}

LEMMA OrderlyLater ==
    ASSUME NEW h \in Seq(Results), NEW n \in Nat, NEW m \in Nat, n <= m, Orderly(h, n)
    PROVE  Orderly(h, m)
<1>1. h # <<>> => h[1] \in Nat
  <2>1. h # <<>> => 1 \in 1 .. Len(h)
    BY TailCalls
  <2>2. h # <<>> => h[1] \in Results
    BY <2>1, ElementOfSeq
  <2>3. QED
    BY <2>2, MobileAssumption DEF Results
<1>2. QED
  BY <1>1 DEF Orderly

LEMMA OrderlyFirst ==
    ASSUME NEW h \in Seq(Results), NEW m \in Nat, NEW n \in Nat, m <= n,
           Len(h) <= MaxHistory, \A i \in DOMAIN h : h[i] = m + 1 - i
    PROVE  Orderly(h, n)
<1>1. h # <<>> => 1 \in DOMAIN h
  BY TailCalls
<1>2. h # <<>> => h[1] = m
  BY <1>1
<1>3. DOMAIN h = 1 .. Len(h) /\ Len(h) \in Nat
  BY LenProperties
<1>4. \A i \in DOMAIN h : h # <<>>
  BY EmptySeq, <1>3
<1>5. \A i \in DOMAIN h : h[i] = h[1] + 1 - i
  BY <1>2, <1>4
<1>6. QED
  BY <1>2, <1>5 DEF Orderly

LEMMA HistoriesStep ==
    ASSUME IInv, Shape, [Next]_vars
    PROVE  Histories'
<1> USE DEF IInv
<1>0. acts \in Nat /\ acts' \in Nat /\ acts <= acts' /\ MaxHistory \in Nat /\ MaxHistory >= 1
  BY ActsGrow, MobileAssumption
<1>1. ASSUME NEW h \in Copies
      PROVE  Orderly(h, acts')
  <2>1. h \in Seq(Results) /\ Orderly(h, acts)
    <3>1. prefs.history \in Seq(Results) /\ disk.history \in Seq(Results)
      BY DEF StoresTyped, Contents, Values
    <3>2. \A c \in Sent : c.field = "history" => c.value \in Seq(Results)
      BY DEF StoresTyped, Values
    <3>3. QED
      BY <1>1, <3>1, <3>2 DEF Copies, Histories
  <2>2. QED
    BY <1>0, <2>1, OrderlyLater
<1>2. Orderly(<<>>, acts')
  BY <1>0 DEF Orderly
<1>3. ASSUME NEW w \in Waits, Records(w)
      PROVE  Orderly(Recorded(mem.history, made + 1), acts')
  <2>1. /\ mem.history \in Seq(Results) /\ made \in Nat /\ cleared \in 0 .. made
        /\ made + 1 \in Results /\ made + 1 <= acts
        /\ Len(mem.history) =
             (IF made - cleared > MaxHistory THEN MaxHistory ELSE made - cleared)
        /\ \A i \in DOMAIN mem.history : mem.history[i] = made + 1 - i
    BY <1>0, <1>3, ContentsOf DEF Records, Sends, HistoryIsLast, RestTyped
  <2> DEFINE r == Recorded(mem.history, made + 1)
  <2>2. /\ r \in Seq(Results)
        /\ Len(r) = (IF made + 1 - cleared > MaxHistory THEN MaxHistory ELSE made + 1 - cleared)
        /\ \A i \in DOMAIN r : r[i] = made + 2 - i
    BY <2>1, RecordedIsLast
  <2> HIDE DEF r
  <2>3. DOMAIN r = 1 .. Len(r) /\ Len(r) \in Nat
    BY <2>2, LenProperties
  <2>4. Len(r) <= MaxHistory /\ \A i \in DOMAIN r : r[i] = (made + 1) + 1 - i
    BY <1>0, <2>1, <2>2, <2>3
  <2>5. made + 1 \in Nat /\ made + 1 <= acts'
    BY <1>0, <2>1
  <2>6. Orderly(r, acts')
    BY <1>0, <2>2, <2>4, <2>5, OrderlyFirst
  <2>7. QED
    BY <2>6 DEF r
<1>4. ASSUME \A h \in Copies' : Orderly(h, acts')
      PROVE  Histories'
  BY <1>4 DEF Histories, Copies
<1>5. ASSUME prefs'.history \in Copies, disk'.history \in Copies,
             \A c \in Sent' : c.field = "history" => c \in Sent \/ Orderly(c.value, acts')
      PROVE  Histories'
  <2>1. \A c \in Sent : c.field = "history" => c.value \in Copies
    BY DEF Copies
  <2>2. \A h \in Copies' : Orderly(h, acts')
    BY <1>1, <1>5, <2>1 DEF Copies
  <2>3. QED
    BY <1>4, <2>2
<1>6. prefs.history \in Copies /\ disk.history \in Copies
  BY DEF Copies
<1>7. ASSUME NEW f, NEW v, NEW w, calls' = Append(calls, Call(f, v, w)),
             prefs' = prefs, disk' = disk, f = "history" => Orderly(v, acts')
      PROVE  Histories'
  <2>1. Sent' = Sent \cup {Call(f, v, w)}
    BY <1>7, SentAfterCall DEF StoresTyped
  <2>2. QED
    BY <1>5, <1>6, <1>7, <2>1 DEF Call
<1>8. CASE Still \/ Answered
  BY <1>5, <1>6, <1>8 DEF Still, Answered, Sent
<1>9. ASSUME NEW w \in Waits, Records(w)
      PROVE  Histories'
  BY <1>3, <1>7, <1>9 DEF Records, Sends, Store
<1>10. CASE Clears
  BY <1>2, <1>7, <1>10 DEF Clears, Sends, Store
<1>11. CASE SendsUrl \/ SendsFamily
  BY <1>7, <1>11 DEF SendsUrl, SendsFamily, Sends, Store
<1>12. CASE ListArrives
  BY <1>7, <1>12 DEF ListArrives, SnapshotArrives
<1>17. CASE alive /\ alive' /\ ListSaved
  BY <1>7, <1>17 DEF ListSaved
<1>13. CASE alive /\ alive' /\ PlatformWrites
  <2>1. Sent' \subseteq Sent /\ Head(calls) \in Sent
    BY <1>13, SentAfterWrite, Typed
  <2>2. prefs'.history \in Copies
    BY <1>13, <2>1 DEF PlatformWrites, Copies, StoresTyped, Contents
  <2>3. QED
    BY <1>5, <1>6, <1>13, <2>1, <2>2 DEF PlatformWrites
<1>14. CASE Launch
  <2>1. \A c \in Sent' : c.field = "family"
    BY <1>14 DEF Launch, Sent, Call
  <2>2. QED
    BY <1>5, <1>6, <1>14, <2>1 DEF Launch
<1>15. CASE Dies
  <2>1. Sent' = {}
    BY <1>15 DEF Dies, Sent
  <2>2. QED
    BY <1>5, <1>6, <1>15, <2>1 DEF Dies
<1>16. QED
  BY <1>8, <1>9, <1>10, <1>11, <1>12, <1>13, <1>14, <1>15, <1>17 DEF Shape

------------------------------------------------------------------------------
(* What is awaited *)

LEMMA AnswersAfterCall ==
    ASSUME NEW S, NEW q \in Seq(S), NEW r, NEW c, Distinct(q, r),
           c.for = Nothing \/ c.for \notin Answers(q, r)
    PROVE  /\ Distinct(Append(q, c), r)
           /\ Answers(Append(q, c), r) = Answers(q, r) \cup ({c.for} \ {Nothing})
<1> DEFINE t == Append(q, c)
<1>1. /\ Len(t) = Len(q) + 1 /\ Len(q) \in Nat
      /\ DOMAIN t = 1 .. Len(q) + 1 /\ DOMAIN q = 1 .. Len(q)
      /\ t[Len(q) + 1] = c
      /\ \A i \in 1 .. Len(q) : t[i] = q[i]
  BY AppendCalls
<1> HIDE DEF t
<1>2. DOMAIN t = DOMAIN q \cup {Len(q) + 1} /\ Len(q) + 1 \notin DOMAIN q
  BY <1>1
<1>3. {t[i].for : i \in DOMAIN t} = {q[i].for : i \in DOMAIN q} \cup {c.for}
  <2>1. \A i \in DOMAIN q : t[i].for = q[i].for
    BY <1>1
  <2>2. t[Len(q) + 1].for = c.for
    BY <1>1
  <2>3. QED
    BY <1>2, <2>1, <2>2
<1>4. Answers(t, r) = Answers(q, r) \cup ({c.for} \ {Nothing})
  BY <1>3 DEF Answers
<1>5. \A i \in DOMAIN q : q[i].for = c.for => c.for = Nothing
  BY DEF Answers
<1>6. \A j \in DOMAIN r : r[j] # c.for
  BY DEF Answers, Distinct
<1>7. \A i, j \in DOMAIN t : i # j /\ t[i].for = t[j].for => t[i].for = Nothing
  BY <1>1, <1>2, <1>5 DEF Distinct
<1>8. \A i \in DOMAIN t, j \in DOMAIN r : t[i].for # r[j]
  BY <1>1, <1>2, <1>6 DEF Distinct
<1>9. QED
  BY <1>4, <1>7, <1>8 DEF Distinct, t

LEMMA AnswersAfterTake ==
    ASSUME NEW S, NEW r \in Seq(S), r # <<>>, NEW q, Distinct(q, r)
    PROVE  Distinct(q, Tail(r)) /\ Answers(q, Tail(r)) = Answers(q, r) \ {Head(r)}
<1> DEFINE t == Tail(r)
<1>1. /\ Head(r) = r[1] /\ Len(r) \in Nat /\ Len(r) >= 1
      /\ DOMAIN r = 1 .. Len(r) /\ DOMAIN t = 1 .. Len(r) - 1
      /\ \A i \in 1 .. Len(r) - 1 : t[i] = r[i + 1]
  BY TailCalls
<1> HIDE DEF t
<1>2. \A i \in DOMAIN t : i + 1 \in DOMAIN r /\ i + 1 # 1 /\ t[i] = r[i + 1]
  BY <1>1
<1>3. \A j \in DOMAIN r : j # 1 => j - 1 \in DOMAIN t /\ t[j - 1] = r[j]
  <2>1. ASSUME NEW j \in DOMAIN r, j # 1
        PROVE  j - 1 \in 1 .. Len(r) - 1 /\ (j - 1) + 1 = j
    BY <1>1, <2>1
  <2>2. QED
    BY <1>1, <2>1
<1>4. 1 \in DOMAIN r
  BY <1>1
<1>5. {t[i] : i \in DOMAIN t} = {r[i] : i \in DOMAIN r} \ {r[1]}
  <2>1. \A i \in DOMAIN t : \E j \in DOMAIN r : t[i] = r[j] /\ r[j] # r[1]
    BY <1>2, <1>4 DEF Distinct
  <2>2. \A j \in DOMAIN r : r[j] # r[1] => \E i \in DOMAIN t : t[i] = r[j]
    BY <1>3
  <2>3. QED
    BY <2>1, <2>2
<1>6. Answers(q, t) = Answers(q, r) \ {Head(r)}
  <2>1. PICK sent : sent = {q[i].for : i \in DOMAIN q}
    OBVIOUS
  <2>2. PICK taken : taken = {r[i] : i \in DOMAIN r}
    OBVIOUS
  <2>3. r[1] \notin sent
    BY <1>4, <2>1 DEF Distinct
  <2>4. (sent \cup (taken \ {r[1]})) \ {Nothing} = ((sent \cup taken) \ {Nothing}) \ {r[1]}
    BY <2>3
  <2>5. QED
    BY <1>1, <1>5, <2>1, <2>2, <2>4 DEF Answers
<1>7. \A i, j \in DOMAIN t : i # j => t[i] # t[j]
  BY <1>1, <1>2 DEF Distinct
<1>8. Distinct(q, t)
  BY <1>2, <1>7 DEF Distinct
<1>9. QED
  BY <1>6, <1>8 DEF t

LEMMA AnswersAfterWrite ==
    ASSUME IInv, PlatformWrites
    PROVE  Once' /\ Awaited' = Awaited
<1> DEFINE c == Head(calls)
<1>1. /\ c = calls[1] /\ Len(calls) \in Nat /\ Len(calls) >= 1
      /\ DOMAIN calls = 1 .. Len(calls) /\ DOMAIN calls' = 1 .. Len(calls) - 1
      /\ \A i \in 1 .. Len(calls) - 1 : calls'[i] = calls[i + 1]
  BY TailCalls DEF IInv, StoresTyped, PlatformWrites
<1>2. Distinct(calls, replies)
  BY DEF IInv, Waiting, Once
<1>3. \A i \in DOMAIN calls' : i + 1 \in DOMAIN calls /\ i + 1 # 1 /\ calls'[i] = calls[i + 1]
  BY <1>1
<1>4. \A j \in DOMAIN calls : j # 1 => j - 1 \in DOMAIN calls' /\ calls'[j - 1] = calls[j]
  <2>1. ASSUME NEW j \in DOMAIN calls, j # 1
        PROVE  j - 1 \in 1 .. Len(calls) - 1 /\ (j - 1) + 1 = j
    BY <1>1, <2>1
  <2>2. QED
    BY <1>1, <2>1
<1>5. 1 \in DOMAIN calls
  BY <1>1
<1>6. \A i, j \in DOMAIN calls' :
        i # j /\ calls'[i].for = calls'[j].for => calls'[i].for = Nothing
  BY <1>1, <1>2, <1>3 DEF Distinct
<1>7. \A i \in DOMAIN calls' : calls'[i].for = c.for => c.for = Nothing
  BY <1>1, <1>2, <1>3, <1>5 DEF Distinct
<1>8. CASE c.for = Nothing
  <2>1. replies' = replies
    BY <1>8 DEF PlatformWrites
  <2>2. Distinct(calls', replies')
    BY <1>2, <1>3, <1>6, <2>1 DEF Distinct
  <2>3. Answers(calls', replies') = Answers(calls, replies)
    BY <1>1, <1>3, <1>4, <1>5, <1>8, <2>1 DEF Answers
  <2>4. QED
    BY <2>2, <2>3 DEF Once, Awaited
<1>9. CASE c.for # Nothing
  <2>1. replies' = Append(replies, c.for)
    BY <1>9 DEF PlatformWrites
  <2>2. /\ DOMAIN replies = 1 .. Len(replies) /\ DOMAIN replies' = 1 .. Len(replies) + 1
        /\ Len(replies) \in Nat
        /\ replies'[Len(replies) + 1] = c.for
        /\ \A i \in 1 .. Len(replies) : replies'[i] = replies[i]
    BY <2>1, AppendCalls DEF IInv, StoresTyped
  <2>3. /\ DOMAIN replies' = DOMAIN replies \cup {Len(replies) + 1}
        /\ \A i \in DOMAIN replies : replies'[i] = replies[i] /\ i # Len(replies) + 1
    BY <2>2
  <2>4. \A j \in DOMAIN replies : replies[j] # c.for
    BY <1>1, <1>2, <1>5 DEF Distinct
  <2>5. \A i, j \in DOMAIN replies' : i # j => replies'[i] # replies'[j]
    BY <1>2, <2>2, <2>3, <2>4 DEF Distinct
  <2>6. \A i \in DOMAIN calls', j \in DOMAIN replies' : calls'[i].for # replies'[j]
    BY <1>2, <1>3, <1>7, <1>9, <2>2, <2>3 DEF Distinct
  <2>7. \A j \in DOMAIN replies' : replies'[j] # Nothing
    BY <1>2, <1>9, <2>2, <2>3 DEF Distinct
  <2>8. Distinct(calls', replies')
    BY <1>6, <2>5, <2>6, <2>7 DEF Distinct
  <2>9. {replies'[i] : i \in DOMAIN replies'} = {replies[i] : i \in DOMAIN replies} \cup {c.for}
    BY <2>2, <2>3
  <2>10. {calls[i].for : i \in DOMAIN calls} = {calls'[i].for : i \in DOMAIN calls'} \cup {c.for}
    <3>1. \A i \in DOMAIN calls' : \E j \in DOMAIN calls : calls'[i].for = calls[j].for
      BY <1>3
    <3>2. \A j \in DOMAIN calls :
            calls[j].for = c.for \/ \E i \in DOMAIN calls' : calls'[i].for = calls[j].for
      BY <1>1, <1>4
    <3>3. calls[1].for = c.for
      BY <1>1
    <3>4. QED
      BY <1>5, <3>1, <3>2, <3>3
  <2>11. Answers(calls', replies') = Answers(calls, replies)
    BY <2>9, <2>10 DEF Answers
  <2>12. QED
    BY <2>8, <2>11 DEF Once, Awaited
<1>10. QED
  BY <1>8, <1>9

\* What is awaited, for every way a step treats calls and answers.
LEMMA AwaitedAfterSend ==
    ASSUME IInv, NEW f, NEW v, NEW w, calls' = Append(calls, Call(f, v, w)),
           replies' = replies, w = Nothing \/ w \notin Awaited
    PROVE  Once' /\ Awaited' = Awaited \cup ({w} \ {Nothing})
<1>1. calls \in Seq(Sent) /\ Distinct(calls, replies) /\ Call(f, v, w).for = w
  BY DEF IInv, StoresTyped, Waiting, Once, Call
<1>2. QED
  BY <1>1, AnswersAfterCall DEF Once, Awaited

LEMMA AwaitedAfterResume ==
    ASSUME IInv, NEW what, Resume(what), calls' = calls
    PROVE  Once' /\ Awaited' = Awaited \ {Head(replies)}
<1>1. replies \in Seq(Waits) /\ Distinct(calls, replies)
  BY DEF IInv, StoresTyped, Waiting, Once
<1>2. QED
  BY <1>1, AnswersAfterTake DEF Resume, Once, Awaited

LEMMA AwaitedAfterBoth ==
    ASSUME IInv, NEW what, Resume(what), NEW f, NEW v, NEW w,
           calls' = Append(calls, Call(f, v, w)), w = Nothing \/ w \notin Awaited
    PROVE  Once' /\ Awaited' = (Awaited \ {Head(replies)}) \cup ({w} \ {Nothing})
<1> DEFINE t == Tail(replies)
<1>1. replies \in Seq(Waits) /\ Distinct(calls, replies) /\ calls \in Seq(Sent)
      /\ replies # <<>> /\ replies' = t
  BY DEF IInv, StoresTyped, Waiting, Once, Resume
<1>2. Distinct(calls, t) /\ Answers(calls, t) = Awaited \ {Head(replies)}
  BY <1>1, AnswersAfterTake DEF Awaited
<1> HIDE DEF t
<1>3. Call(f, v, w).for = w
  BY DEF Call
<1>4. Call(f, v, w).for = Nothing \/ Call(f, v, w).for \notin Answers(calls, t)
  BY <1>2, <1>3
<1>5. Distinct(calls', t) /\ Answers(calls', t) = Answers(calls, t) \cup ({w} \ {Nothing})
  BY <1>1, <1>2, <1>3, <1>4, AnswersAfterCall
<1>6. QED
  BY <1>1, <1>2, <1>5 DEF Once, Awaited

LEMMA AwaitedTyped ==
    ASSUME IInv, NEW w \in Awaited
    PROVE  w \in Waits /\ w = For(w.what, w.id) /\ Awaits(w)
<1>1. \A i \in DOMAIN calls : calls[i].for \in Waits
  BY DEF IInv, StoresTyped, Sent
<1>2. \A i \in DOMAIN replies : replies[i] \in Waits
  BY ElementOfSeq, LenProperties DEF IInv, StoresTyped
<1>3. w \in Waits
  BY <1>1, <1>2 DEF Awaited, Answers
<1>4. w = For(w.what, w.id)
  BY <1>3 DEF Waits, For
<1>5. QED
  BY <1>3, <1>4 DEF IInv, Waiting

LEMMA WaitingStep ==
    ASSUME IInv, [Next]_vars
    PROVE  Waiting'
<1> USE DEF IInv
<1>0. /\ MaxSaves \in Nat /\ saves \in 0 .. MaxSaves /\ made \in Nat
      /\ syncs \in [0 .. MaxSaves -> [pc : {"idle", "fetch", "list", "meta"},
                                      url : Gateways \cup {None}]]
      /\ \A n \in 0 .. MaxSaves : n > saves => syncs[n].pc = "idle"
      /\ \A n \in 0 .. MaxSaves : Fetching(n) => syncs[n].url \in Gateways
      /\ Once
  BY MobileAssumption DEF RestTyped, Waiting
<1>t. \A w \in Awaited : w \in Waits /\ w = For(w.what, w.id) /\ Awaits(w)
  BY AwaitedTyped
<1>1. ASSUME Once', syncs' = syncs, saves' = saves \/ saves' = saves + 1,
             made' = made \/ made' = made + 1,
             \A w \in Awaited' : w \in Awaited \/ Awaits(w)'
      PROVE  Waiting'
  <2>1. \A w \in Awaited : Awaits(w)'
    BY <1>0, <1>t, <1>1 DEF Awaits
  <2>2. \A n \in 0 .. MaxSaves : n > saves' => syncs'[n].pc = "idle"
    BY <1>0, <1>1
  <2>3. QED
    BY <1>0, <1>1, <2>1, <2>2 DEF Waiting, Fetching
<1>2. ASSUME NEW k \in 0 .. MaxSaves, NEW s, syncs' = [syncs EXCEPT ![k] = s],
             saves' = saves, made' = made, Once',
             k > saves => s.pc = "idle", s.pc = "fetch" => s.url \in Gateways,
             \A w \in Awaited' :
               \/ w \in Awaited /\ (w.what \in {"url", "list", "meta"} => w.id # k)
               \/ w.what = s.pc /\ w.id = k /\ s.pc \in {"list", "meta"}
      PROVE  Waiting'
  <2>1. \A n \in 0 .. MaxSaves : syncs'[n] = IF n = k THEN s ELSE syncs[n]
    BY <1>0, <1>2
  <2>2. ASSUME NEW w \in Awaited, w.what \in {"url", "list", "meta"} => w.id # k
        PROVE  Awaits(w)'
    <3>1. w.id \in 1 .. saves => w.id \in 0 .. MaxSaves
      BY <1>0
    <3>2. QED
      BY <1>0, <1>t, <1>2, <2>1, <2>2, <3>1 DEF Awaits
  <2>3. ASSUME NEW w, w.what = s.pc /\ w.id = k /\ s.pc \in {"list", "meta"}
        PROVE  Awaits(w)'
    BY <2>1, <2>3 DEF Awaits
  <2>4. \A w \in Awaited' : Awaits(w)'
    BY <1>2, <2>2, <2>3
  <2>5. QED
    BY <1>0, <1>2, <2>1, <2>4 DEF Waiting, Fetching
<1>3. CASE Launch
  <2>1. replies' = <<>> /\ \A i \in DOMAIN calls' : i = 1 /\ calls'[i].for = Nothing
    BY <1>3 DEF Launch, Resting, Call
  <2>2. Awaited' = {} /\ Once'
    BY <2>1 DEF Awaited, Answers, Once, Distinct
  <2>3. /\ syncs' = [syncs EXCEPT ![0] = [pc |-> "fetch", url |-> prefs.url]]
        /\ saves' = saves
    BY <1>3 DEF Launch
  <2>4. prefs.url \in Gateways
    BY ContentsOf
  <2>5. QED
    BY <1>0, <2>2, <2>3, <2>4 DEF Waiting, Fetching
<1>4. CASE Dies
  <2>1. calls' = <<>> /\ replies' = <<>>
    BY <1>4 DEF Dies
  <2>2. Awaited' = {} /\ Once'
    BY <2>1 DEF Awaited, Answers, Once, Distinct
  <2>3. QED
    BY <1>0, <1>4, <2>2 DEF Dies, Waiting, Fetching, Idle
<1>5. CASE PlatformWrites
  BY <1>1, <1>5, AnswersAfterWrite DEF PlatformWrites, syncVars, checkVars
<1>6. ASSUME calls' = calls, replies' = replies
      PROVE  Once' /\ Awaited' = Awaited
  BY <1>0, <1>6 DEF Once, Awaited
<1>7. CASE FileWritten \/ UNCHANGED vars
  BY <1>1, <1>6, <1>7 DEF FileWritten, vars, stores, syncVars, checkVars
<1>8. CASE StartCheck \/ CheckErrs \/ Share \/ AskDeep \/ DeepFails \/ LeaveScreen
  BY <1>1, <1>6, <1>8
     DEF StartCheck, CheckErrs, Share, AskDeep, DeepFails, LeaveScreen, stores, syncVars
<1>9. CASE CheckSaved \/ DeepSaved
  BY <1>1, <1>9, AwaitedAfterResume DEF CheckSaved, DeepSaved, syncVars
<1>10. CASE LocalJudged
  BY <1>1, <1>10, AwaitedAfterSend DEF LocalJudged, Record, Store, syncVars
<1>11. ASSUME NEW what \in {"check", "deep"}, Record(For(what, made + 1)), replies' = replies,
              UNCHANGED syncVars
      PROVE  Waiting'
  <2>1. PICK w : w = For(what, made + 1)
    OBVIOUS
  <2>2. w.what = what /\ w.id = made + 1
    BY <2>1 DEF For
  <2>3. w \notin Awaited
    BY <1>0, <1>t, <2>2 DEF Awaits
  <2>4. Awaits(w)'
    BY <1>0, <1>11, <2>2 DEF Awaits, Record
  <2>5. Once' /\ Awaited' = Awaited \cup ({w} \ {Nothing})
    BY <1>11, <2>1, <2>3, AwaitedAfterSend DEF Record, Store
  <2>6. QED
    BY <1>1, <1>11, <2>4, <2>5 DEF Record, syncVars
<1>12. CASE CheckJudged \/ DeepJudged
  BY <1>11, <1>12 DEF CheckJudged, DeepJudged
<1>13. CASE ClearHistory
  BY <1>1, <1>13, AwaitedAfterSend DEF ClearHistory, Store, syncVars
<1>14. CASE Family
  <2>1. UNCHANGED <<syncVars, checkVars>>
    BY <1>14, FamilyActs
  <2>2. SendsFamily
    BY <1>14, FamilyChanges
  <2>3. QED
    BY <1>1, <2>1, <2>2, AwaitedAfterSend DEF SendsFamily, Sends, Store, syncVars, checkVars
<1>15. ASSUME NEW u \in Gateways, SetBaseUrl(u)
       PROVE  Waiting'
  <2>1. PICK w : w = For("url", saves + 1)
    OBVIOUS
  <2>2. w.what = "url" /\ w.id = saves + 1
    BY <2>1 DEF For
  <2>3. saves < MaxSaves /\ saves' = saves + 1 /\ syncs' = syncs /\ made' = made
    BY <1>15 DEF SetBaseUrl, checkVars
  <2>4. w \notin Awaited
    BY <1>0, <1>t, <2>2 DEF Awaits
  <2>5. Awaits(w)'
    BY <1>0, <2>2, <2>3 DEF Awaits
  <2>6. Once' /\ Awaited' = Awaited \cup ({w} \ {Nothing})
    BY <1>15, <2>1, <2>4, AwaitedAfterSend DEF SetBaseUrl, Store
  <2>7. QED
    BY <1>1, <2>3, <2>5, <2>6
<1>16. CASE UrlSaved
  <2> DEFINE k == Head(replies).id
  <2>1. k \in 1 .. saves /\ syncs[k].pc = "idle" /\ Head(replies) = For("url", k)
    BY <1>t, <1>16, Resumed DEF UrlSaved, Awaits
  <2>2. Once' /\ Awaited' = Awaited \ {Head(replies)}
    BY <1>16, AwaitedAfterResume DEF UrlSaved
  <2>3. \A w \in Awaited' : w.what \in {"url", "list", "meta"} => w.id # k
    BY <1>t, <2>1, <2>2 DEF Awaits
  <2>4. k \in 0 .. MaxSaves /\ k <= saves
    BY <1>0, <2>1
  <2>5. mem.url \in Gateways
    BY ContentsOf
  <2>6. PICK s : s = [pc |-> "fetch", url |-> mem.url]
    OBVIOUS
  <2>7. syncs' = [syncs EXCEPT ![k] = s] /\ saves' = saves /\ made' = made
    BY <1>16, <2>6 DEF UrlSaved, StartSync, checkVars
  <2>8. s.url \in Gateways /\ ~(k > saves)
    BY <1>0, <2>1, <2>4, <2>5, <2>6
  <2>9. \A w \in Awaited' : w \in Awaited
    BY <2>2
  <2> HIDE DEF k
  <2>10. QED
    BY <1>2, <2>2, <2>3, <2>4, <2>7, <2>8, <2>9
<1>17. CASE ListSaved
  <2> DEFINE k == Head(replies).id
  <2>1. k \in 0 .. MaxSaves /\ syncs[k].pc = "list" /\ Head(replies) = For("list", k)
    BY <1>t, <1>17, Resumed DEF ListSaved, Awaits
  <2>2. For("meta", k) \notin Awaited
    BY <1>t, <2>1 DEF For, Awaits
  <2>3. /\ Once'
        /\ Awaited' = (Awaited \ {Head(replies)}) \cup ({For("meta", k)} \ {Nothing})
    BY <1>17, <2>2, AwaitedAfterBoth DEF ListSaved
  <2>4. \A w \in Awaited :
          w # Head(replies) => (w.what \in {"url", "list", "meta"} => w.id # k)
    BY <1>t, <2>1 DEF Awaits
  <2>5. k <= saves
    BY <1>0, <2>1
  <2>6. syncs' = [syncs EXCEPT ![k] = [syncs[k] EXCEPT !.pc = "meta"]]
    BY <1>17 DEF ListSaved
  <2>7. [syncs[k] EXCEPT !.pc = "meta"].pc = "meta"
    BY <1>0, <2>1
  <2>8. For("meta", k).what = "meta" /\ For("meta", k).id = k
    BY DEF For
  <2>9. \A w \in Awaited' :
          \/ w \in Awaited /\ (w.what \in {"url", "list", "meta"} => w.id # k)
          \/ w.what = "meta" /\ w.id = k
    BY <2>3, <2>4, <2>8
  <2>10. PICK s : s = [syncs[k] EXCEPT !.pc = "meta"]
    OBVIOUS
  <2>11. s.pc = "meta" /\ ~(k > saves)
    BY <1>0, <2>1, <2>5, <2>7, <2>10
  <2>12. syncs' = [syncs EXCEPT ![k] = s] /\ saves' = saves /\ made' = made
    BY <1>17, <2>6, <2>10 DEF ListSaved, checkVars
  <2> HIDE DEF k
  <2>13. \A w \in Awaited' :
           \/ w \in Awaited /\ (w.what \in {"url", "list", "meta"} => w.id # k)
           \/ w.what = s.pc /\ w.id = k /\ s.pc \in {"list", "meta"}
    BY <2>9, <2>11
  <2>14. QED
    BY <1>2, <2>1, <2>3, <2>11, <2>12, <2>13
<1>18. CASE MetaSaved
  <2> DEFINE k == Head(replies).id
  <2>1. k \in 0 .. MaxSaves /\ syncs[k].pc = "meta" /\ Head(replies) = For("meta", k)
    BY <1>t, <1>18, Resumed DEF MetaSaved, Awaits
  <2>2. Once' /\ Awaited' = Awaited \ {Head(replies)}
    BY <1>18, AwaitedAfterResume DEF MetaSaved
  <2>3. \A w \in Awaited' : w.what \in {"url", "list", "meta"} => w.id # k
    BY <1>t, <2>1, <2>2 DEF Awaits
  <2>4. QED
    BY <1>2, <1>18, <2>1, <2>2, <2>3 DEF MetaSaved, checkVars, Idle
<1>19. ASSUME NEW n \in 0 .. MaxSaves, SnapshotArrives(n)
       PROVE  Waiting'
  <2>1. For("list", n) \notin Awaited
    BY <1>t, <1>19 DEF For, Awaits, SnapshotArrives, Fetching
  <2>2. Once' /\ Awaited' = Awaited \cup ({For("list", n)} \ {Nothing})
    BY <1>19, <2>1, AwaitedAfterSend DEF SnapshotArrives
  <2>3. \A w \in Awaited : w.what \in {"url", "list", "meta"} => w.id # n
    BY <1>t, <1>19 DEF Awaits, SnapshotArrives, Fetching
  <2>4. n <= saves
    BY <1>0, <1>19 DEF SnapshotArrives, Fetching
  <2>5. syncs' = [syncs EXCEPT ![n] = [syncs[n] EXCEPT !.pc = "list"]]
    BY <1>19 DEF SnapshotArrives
  <2>6. [syncs[n] EXCEPT !.pc = "list"].pc = "list"
    BY <1>0
  <2>7. For("list", n).what = "list" /\ For("list", n).id = n
    BY DEF For
  <2>8. \A w \in Awaited' :
          \/ w \in Awaited /\ (w.what \in {"url", "list", "meta"} => w.id # n)
          \/ w.what = "list" /\ w.id = n
    BY <2>2, <2>3, <2>7
  <2>9. PICK s : s = [syncs[n] EXCEPT !.pc = "list"]
    OBVIOUS
  <2>10. s.pc = "list" /\ ~(n > saves)
    BY <1>0, <2>4, <2>6, <2>9
  <2>11. syncs' = [syncs EXCEPT ![n] = s] /\ saves' = saves /\ made' = made
    BY <1>19, <2>5, <2>9 DEF SnapshotArrives, checkVars
  <2>12. \A w \in Awaited' :
           \/ w \in Awaited /\ (w.what \in {"url", "list", "meta"} => w.id # n)
           \/ w.what = s.pc /\ w.id = n /\ s.pc \in {"list", "meta"}
    BY <2>8, <2>10
  <2>13. QED
    BY <1>2, <2>2, <2>10, <2>11, <2>12
<1>20. ASSUME NEW n \in 0 .. MaxSaves, SyncFails(n)
       PROVE  Waiting'
  <2>1. \A w \in Awaited : w.what \in {"url", "list", "meta"} => w.id # n
    BY <1>t, <1>20 DEF Awaits, SyncFails, Fetching
  <2>2. Once' /\ Awaited' = Awaited
    BY <1>6, <1>20 DEF SyncFails, stores
  <2>3. QED
    BY <1>2, <1>20, <2>1, <2>2 DEF SyncFails, checkVars, Idle
<1>21. QED
  BY <1>3, <1>4, <1>5, <1>7, <1>8, <1>9, <1>10, <1>12, <1>13, <1>14, <1>15, <1>16, <1>17,
     <1>18, <1>19, <1>20 DEF Next, Sync, Check

LEMMA AttendedStep ==
    ASSUME IInv, [Next]_vars
    PROVE  Attended'
<1>0. /\ 0 \in 0 .. MaxSaves
      /\ syncs \in [0 .. MaxSaves -> [pc : {"idle", "fetch", "list", "meta"},
                                      url : Gateways \cup {None}]]
      /\ SyncsAttended /\ CheckAttended /\ ScreenAttended
  BY MobileAssumption DEF IInv, RestTyped, Attended
<1>f. \A what, i : For(what, i).what = what /\ For(what, i).id = i
  BY DEF For
<1>1. ASSUME syncs' = syncs,
             \A w \in Awaited : w.what \in {"list", "meta"} => w \in Awaited'
      PROVE  SyncsAttended'
  BY <1>0, <1>1, <1>f DEF SyncsAttended
<1>2. ASSUME manual' = manual \/ manual' # "saving",
             \A w \in Awaited : w.what = "check" => w \in Awaited'
      PROVE  CheckAttended'
  BY <1>0, <1>2 DEF CheckAttended
<1>3. ASSUME screen' = screen \/ screen'.pc # "saving",
             \A w \in Awaited : w.what = "deep" => w \in Awaited'
      PROVE  ScreenAttended'
  BY <1>0, <1>3, <1>f DEF ScreenAttended
<1>4. ASSUME NEW k \in 0 .. MaxSaves, NEW s, syncs' = [syncs EXCEPT ![k] = s],
             s.pc \in {"list", "meta"} => For(s.pc, k) \in Awaited',
             \A w \in Awaited : w.what \in {"list", "meta"} /\ w.id # k => w \in Awaited'
      PROVE  SyncsAttended'
  <2>1. \A n \in 0 .. MaxSaves : syncs'[n] = IF n = k THEN s ELSE syncs[n]
    BY <1>0, <1>4
  <2>2. QED
    BY <1>0, <1>4, <1>f, <2>1 DEF SyncsAttended
<1>5. CASE Launch
  <2>1. syncs = [n \in 0 .. MaxSaves |-> Idle] /\ manual = "idle" /\ screen.pc = "closed"
    BY <1>5 DEF IInv, Resting, Launch, Closed
  <2>2. syncs' = [syncs EXCEPT ![0] = [pc |-> "fetch", url |-> prefs.url]]
        /\ manual' = manual /\ screen' = screen
    BY <1>5 DEF Launch
  <2>3. \A n \in 0 .. MaxSaves : syncs'[n].pc \in {"idle", "fetch"}
    BY <2>1, <2>2 DEF Idle
  <2>4. QED
    BY <2>1, <2>2, <2>3 DEF Attended, SyncsAttended, CheckAttended, ScreenAttended
<1>6. CASE Dies
  BY <1>6 DEF Dies, Attended, SyncsAttended, CheckAttended, ScreenAttended, Idle, Closed
<1>7. ASSUME syncs' = syncs, manual' = manual \/ manual' # "saving",
             screen' = screen \/ screen'.pc # "saving", Awaited \subseteq Awaited'
      PROVE  Attended'
  BY <1>1, <1>2, <1>3, <1>7 DEF Attended
<1>8. CASE PlatformWrites
  BY <1>7, <1>8, AnswersAfterWrite DEF PlatformWrites, syncVars, checkVars
<1>9. ASSUME calls' = calls, replies' = replies
      PROVE  Awaited' = Awaited
  BY <1>9 DEF Awaited
<1>10. CASE FileWritten \/ UNCHANGED vars
  BY <1>7, <1>9, <1>10 DEF FileWritten, vars, stores, syncVars, checkVars
<1>11. CASE StartCheck \/ CheckErrs \/ Share \/ AskDeep \/ DeepFails \/ LeaveScreen
  BY <1>7, <1>9, <1>11
     DEF StartCheck, CheckErrs, Share, AskDeep, DeepFails, LeaveScreen, stores, syncVars, Closed
<1>12. ASSUME NEW f, NEW v, Store(f, v, Nothing), replies' = replies,
              syncs' = syncs, manual' = manual, screen' = screen \/ screen'.pc # "saving"
       PROVE  Attended'
  BY <1>7, <1>12, AwaitedAfterSend DEF Store
<1>13. CASE LocalJudged
  BY <1>12, <1>13 DEF LocalJudged, Record, syncVars
<1>14. CASE ClearHistory
  BY <1>12, <1>14 DEF ClearHistory, syncVars
<1>15. CASE Family
  BY <1>12, <1>15, FamilyActs, FamilyChanges DEF SendsFamily, Sends, syncVars, checkVars
<1>16. ASSUME NEW what \in {"url", "list", "check", "deep"}, NEW i,
              \A w \in Awaited : w.what = what => w.id # i,
              NEW f, NEW v, calls' = Append(calls, Call(f, v, For(what, i))),
              replies' = replies
       PROVE  Awaited \subseteq Awaited' /\ For(what, i) \in Awaited'
  <2>1. PICK w : w = For(what, i)
    OBVIOUS
  <2>2. w \notin Awaited /\ w.what # "nothing"
    BY <1>16, <1>f, <2>1
  <2>3. w # Nothing
    BY <2>2 DEF Nothing
  <2>4. Awaited' = Awaited \cup ({w} \ {Nothing})
    BY <1>16, <2>1, <2>2, AwaitedAfterSend
  <2>5. QED
    BY <2>1, <2>3, <2>4
<1>n. \A w \in Awaited : w.what \in {"check", "deep"} => w.id # made + 1
  BY AwaitedTyped DEF Awaits, IInv, RestTyped
<1>17. ASSUME NEW u \in Gateways, SetBaseUrl(u)
       PROVE  Attended'
  <2>1. \A w \in Awaited : w.what = "url" => w.id # saves + 1
    BY AwaitedTyped DEF Awaits, IInv, RestTyped
  <2>2. Awaited \subseteq Awaited'
    BY <1>16, <1>17, <2>1 DEF SetBaseUrl, Store
  <2>3. QED
    BY <1>7, <1>17, <2>2 DEF SetBaseUrl, checkVars
<1>18. CASE CheckJudged
  <2>1. Awaited \subseteq Awaited' /\ For("check", made + 1) \in Awaited'
    BY <1>16, <1>18, <1>n DEF CheckJudged, Record, Store
  <2>2. syncs' = syncs /\ screen' = screen
    BY <1>18 DEF CheckJudged, syncVars
  <2>3. QED
    BY <1>1, <1>3, <1>f, <2>1, <2>2 DEF Attended, CheckAttended
<1>19. CASE DeepJudged
  <2>1. Awaited \subseteq Awaited' /\ For("deep", made + 1) \in Awaited'
    BY <1>16, <1>19, <1>n DEF DeepJudged, Record, Store
  <2>2. syncs' = syncs /\ manual' = manual /\ screen'.id = made + 1
    BY <1>19 DEF DeepJudged, syncVars
  <2>3. QED
    BY <1>1, <1>2, <2>1, <2>2 DEF Attended, ScreenAttended
<1>20. CASE CheckSaved
  <2>1. Awaited' = Awaited \ {Head(replies)} /\ Head(replies).what = "check"
    BY <1>20, AwaitedAfterResume, Resumed DEF CheckSaved
  <2>2. syncs' = syncs /\ screen' = screen /\ manual' = "idle"
    BY <1>20 DEF CheckSaved, syncVars
  <2>3. QED
    BY <1>1, <1>3, <2>1, <2>2 DEF Attended, CheckAttended
<1>21. CASE DeepSaved
  <2>1. Awaited' = Awaited \ {Head(replies)} /\ Head(replies).what = "deep"
    BY <1>21, AwaitedAfterResume, Resumed DEF DeepSaved
  <2>2. syncs' = syncs /\ manual' = manual
        /\ screen' = IF screen.id = Head(replies).id THEN [pc |-> "ready", id |-> 0]
                     ELSE screen
    BY <1>21 DEF DeepSaved, syncVars
  <2>3. ScreenAttended'
    BY <1>0, <1>f, <2>1, <2>2 DEF ScreenAttended
  <2>4. QED
    BY <1>1, <1>2, <2>1, <2>2, <2>3 DEF Attended
<1>22. CASE UrlSaved
  <2> DEFINE k == Head(replies).id
  <2>1. k \in 1 .. saves /\ Head(replies).what = "url"
    BY <1>22, Resumed DEF UrlSaved, Awaits
  <2>2. k \in 0 .. MaxSaves
    BY <2>1, MobileAssumption DEF IInv, RestTyped
  <2>3. Awaited' = Awaited \ {Head(replies)}
    BY <1>22, AwaitedAfterResume DEF UrlSaved
  <2>4. PICK s : s = [pc |-> "fetch", url |-> mem.url]
    OBVIOUS
  <2>5. syncs' = [syncs EXCEPT ![k] = s] /\ manual' = manual /\ screen' = screen
    BY <1>22, <2>4 DEF UrlSaved, StartSync, checkVars
  <2> HIDE DEF k
  <2>6. SyncsAttended'
    BY <1>4, <2>1, <2>2, <2>3, <2>4, <2>5
  <2>7. QED
    BY <1>2, <1>3, <2>1, <2>3, <2>5, <2>6 DEF Attended
<1>23. CASE ListSaved
  <2> DEFINE k == Head(replies).id
  <2>1. k \in 0 .. MaxSaves /\ syncs[k].pc = "list" /\ Head(replies).what = "list"
    BY <1>23, Resumed DEF ListSaved, Awaits
  <2>2. PICK w : w = For("meta", k)
    OBVIOUS
  <2>3. w.what = "meta" /\ w.id = k /\ w # Nothing
    BY <1>f, <2>2 DEF Nothing
  <2>4. w \notin Awaited
    BY <2>1, <2>3, AwaitedTyped DEF Awaits
  <2>5. Awaited' = (Awaited \ {Head(replies)}) \cup ({w} \ {Nothing})
    BY <1>23, <2>2, <2>4, AwaitedAfterBoth DEF ListSaved
  <2>6. PICK s : s = [syncs[k] EXCEPT !.pc = "meta"]
    OBVIOUS
  <2>7. s.pc = "meta"
    BY <1>0, <2>1, <2>6
  <2>8. syncs' = [syncs EXCEPT ![k] = s] /\ manual' = manual /\ screen' = screen
    BY <1>23, <2>6 DEF ListSaved, checkVars
  <2>9. \A v \in Awaited : v.what # "list" \/ v.id # k => v \in Awaited'
    BY <2>1, <2>5
  <2>10. For(s.pc, k) \in Awaited'
    BY <2>2, <2>3, <2>5, <2>7
  <2>11. Head(replies).id = k
    OBVIOUS
  <2>12. \A v \in Awaited : v.what \in {"list", "meta"} /\ v.id # k => v \in Awaited'
    BY <2>9
  <2> HIDE DEF k
  <2>13. SyncsAttended'
    BY <1>4, <2>1, <2>8, <2>10, <2>12
  <2>14. QED
    BY <1>2, <1>3, <2>8, <2>9, <2>13 DEF Attended
<1>24. CASE MetaSaved
  <2> DEFINE k == Head(replies).id
  <2>1. k \in 0 .. MaxSaves /\ Head(replies).what = "meta"
    BY <1>24, Resumed DEF MetaSaved, Awaits
  <2>2. Awaited' = Awaited \ {Head(replies)}
    BY <1>24, AwaitedAfterResume DEF MetaSaved
  <2>3. syncs' = [syncs EXCEPT ![k] = Idle] /\ manual' = manual /\ screen' = screen
    BY <1>24 DEF MetaSaved, checkVars
  <2>4. Idle.pc = "idle"
    BY DEF Idle
  <2>5. \A v \in Awaited : v.what # "meta" \/ v.id # k => v \in Awaited'
    BY <2>1, <2>2
  <2> HIDE DEF k
  <2>6. SyncsAttended'
    BY <1>4, <2>1, <2>3, <2>4, <2>5
  <2>7. QED
    BY <1>2, <1>3, <2>3, <2>5, <2>6 DEF Attended
<1>25. ASSUME NEW n \in 0 .. MaxSaves, SnapshotArrives(n)
       PROVE  Attended'
  <2>1. \A w \in Awaited : w.what = "list" => w.id # n
    BY <1>25, AwaitedTyped DEF Awaits, SnapshotArrives, Fetching
  <2>2. Awaited \subseteq Awaited' /\ For("list", n) \in Awaited'
    BY <1>16, <1>25, <2>1 DEF SnapshotArrives
  <2>3. PICK s : s = [syncs[n] EXCEPT !.pc = "list"]
    OBVIOUS
  <2>4. s.pc = "list"
    BY <1>0, <2>3
  <2>5. syncs' = [syncs EXCEPT ![n] = s] /\ manual' = manual /\ screen' = screen
    BY <1>25, <2>3 DEF SnapshotArrives, checkVars
  <2>6. SyncsAttended'
    BY <1>4, <2>2, <2>4, <2>5
  <2>7. QED
    BY <1>2, <1>3, <2>2, <2>5, <2>6 DEF Attended
<1>26. ASSUME NEW n \in 0 .. MaxSaves, SyncFails(n)
       PROVE  Attended'
  <2>1. Awaited' = Awaited /\ syncs' = [syncs EXCEPT ![n] = Idle]
        /\ manual' = manual /\ screen' = screen
    BY <1>9, <1>26 DEF SyncFails, stores, checkVars
  <2>2. Idle.pc = "idle"
    BY DEF Idle
  <2>3. SyncsAttended'
    BY <1>4, <2>1, <2>2
  <2>4. QED
    BY <1>2, <1>3, <2>1, <2>3 DEF Attended
<1>27. QED
  BY <1>5, <1>6, <1>8, <1>10, <1>11, <1>13, <1>14, <1>15, <1>17, <1>18, <1>19, <1>20, <1>21,
     <1>22, <1>23, <1>24, <1>25, <1>26 DEF Next, Sync, Check

\* Who waits is answered, in the terms of the model.
LEMMA AttendedIsAnswered == IInv => NoneForgotten
<1> SUFFICES ASSUME IInv PROVE NoneForgotten
  OBVIOUS
<1>1. \A w \in Awaited : UnderWay(w) /\ w = For(w.what, w.id) /\ Awaits(w)
  BY AwaitedTyped DEF Awaited, Answers, UnderWay
<1>2. DOMAIN syncs = 0 .. MaxSaves /\ SyncsAttended /\ CheckAttended /\ ScreenAttended
  BY DEF IInv, RestTyped, Attended
<1>3. manual = "saving" => \E i \in 1 .. made : UnderWay(For("check", i))
  BY <1>1, <1>2 DEF CheckAttended, Awaits
<1>4. \A n \in DOMAIN syncs :
        syncs[n].pc \in {"list", "meta"} => UnderWay(For(syncs[n].pc, n))
  BY <1>1, <1>2 DEF SyncsAttended
<1>5. screen.pc = "saving" => UnderWay(For("deep", screen.id))
  BY <1>1, <1>2 DEF ScreenAttended
<1>6. QED
  BY <1>3, <1>4, <1>5 DEF NoneForgotten

------------------------------------------------------------------------------
(* The list before its metadata *)

LEMMA SeededStep ==
    ASSUME IInv, Shape
    PROVE  Seeded'
<1> USE DEF IInv
<1>0. /\ prefs.list = Seed => prefs.meta = None
      /\ disk.list = Seed => disk.meta = None
      /\ \A c \in Sent : /\ c.field = "list" => c.value # Seed
                         /\ c.field = "meta" => prefs.list # Seed
                         /\ c.for.what = "list" => c.field = "list"
      /\ \A j \in DOMAIN replies : replies[j].what = "list" => prefs.list # Seed
  BY DEF Seeded
<1>1. ASSUME NEW f, NEW v, NEW w, calls' = Append(calls, Call(f, v, w)),
             prefs' = prefs, disk' = disk,
             \A j \in DOMAIN replies' : replies'[j].what = "list" => prefs.list # Seed,
             f = "list" => v # Seed, f = "meta" => prefs.list # Seed,
             w.what = "list" => f = "list"
      PROVE  Seeded'
  <2>1. Sent' = Sent \cup {Call(f, v, w)}
    BY <1>1, SentAfterCall DEF StoresTyped
  <2>2. QED
    BY <1>0, <1>1, <2>1 DEF Call, Seeded
<1>2. CASE Still
  BY <1>0, <1>2 DEF Still, Sent, Seeded
<1>3. ASSUME replies # <<>>, replies' = Tail(replies)
      PROVE  \A j \in DOMAIN replies' : j + 1 \in DOMAIN replies /\ replies'[j] = replies[j + 1]
  <2>1. /\ Len(replies) \in Nat /\ DOMAIN replies = 1 .. Len(replies)
        /\ DOMAIN replies' = 1 .. Len(replies) - 1
        /\ \A i \in 1 .. Len(replies) - 1 : replies'[i] = replies[i + 1]
    BY <1>3, TailCalls DEF StoresTyped
  <2>2. QED
    BY <2>1
<1>4. CASE Answered
  BY <1>0, <1>3, <1>4 DEF Answered, Sent, Seeded
<1>5. ASSUME NEW w \in Waits, Records(w)
      PROVE  Seeded'
  BY <1>0, <1>1, <1>5 DEF Records, Sends, Store, Nothing, For
<1>6. CASE Clears
  BY <1>0, <1>1, <1>6 DEF Clears, Sends, Store, Nothing
<1>7. CASE SendsUrl
  BY <1>0, <1>1, <1>7 DEF SendsUrl, Sends, Store, For
<1>8. CASE SendsFamily
  BY <1>0, <1>1, <1>8 DEF SendsFamily, Sends, Store, Nothing
<1>9. CASE ListArrives
  <2>1. PICK n \in 0 .. MaxSaves : SnapshotArrives(n)
    BY <1>9 DEF ListArrives
  <2>2. syncs[n].url \in Gateways
    BY <2>1 DEF SnapshotArrives, Waiting
  <2>3. syncs[n].url # Seed
    BY <2>2, MobileAssumption
  <2>4. QED
    BY <1>0, <1>1, <2>1, <2>3 DEF SnapshotArrives
<1>10. CASE alive /\ alive' /\ ListSaved
  <2>1. replies # <<>> /\ replies' = Tail(replies) /\ Head(replies).what = "list"
    BY <1>10 DEF ListSaved, Resume
  <2>2. Head(replies) = replies[1] /\ 1 \in DOMAIN replies
    BY <2>1, TailCalls DEF StoresTyped
  <2>3. prefs.list # Seed
    BY <1>0, <2>1, <2>2
  <2>4. For("meta", Head(replies).id).what # "list"
    BY DEF For
  <2>5. QED
    BY <1>1, <1>10, <2>3, <2>4 DEF ListSaved
<1>11. CASE alive /\ alive' /\ PlatformWrites
  <2> DEFINE c == Head(calls)
  <2>1. Sent' \subseteq Sent /\ c \in Sent
    BY <1>11, SentAfterWrite, Typed
  <2>2. c.field \in Fields /\ prefs' = [prefs EXCEPT ![c.field] = c.value] /\ disk' = disk
    BY <1>11, <2>1 DEF PlatformWrites, StoresTyped
  <2>3. /\ prefs'.list = IF c.field = "list" THEN c.value ELSE prefs.list
        /\ prefs'.meta = IF c.field = "meta" THEN c.value ELSE prefs.meta
    BY <2>2 DEF StoresTyped, Contents
  <2>4. prefs'.list = Seed => prefs.list = Seed /\ c.field # "list"
    BY <1>0, <2>1, <2>3
  <2>5. prefs'.list = Seed => prefs'.meta = None
    BY <1>0, <2>1, <2>3, <2>4
  <2>6. \A j \in DOMAIN replies' : replies'[j].what = "list" => prefs'.list # Seed
    <3>1. CASE c.for = Nothing
      BY <1>0, <1>11, <2>4, <3>1 DEF PlatformWrites
    <3>2. CASE c.for # Nothing
      <4>1. replies' = Append(replies, c.for)
        BY <1>11, <3>2 DEF PlatformWrites
      <4>2. /\ DOMAIN replies = 1 .. Len(replies) /\ DOMAIN replies' = 1 .. Len(replies) + 1
            /\ Len(replies) \in Nat
            /\ replies'[Len(replies) + 1] = c.for
            /\ \A i \in 1 .. Len(replies) : replies'[i] = replies[i]
        BY <4>1, AppendCalls DEF StoresTyped
      <4>3. \A j \in DOMAIN replies' :
              (j \in DOMAIN replies /\ replies'[j] = replies[j]) \/ replies'[j] = c.for
        BY <4>2
      <4>4. c.for.what = "list" => prefs'.list # Seed
        BY <1>0, <2>1, <2>3
      <4>5. QED
        BY <1>0, <2>4, <4>3, <4>4
    <3>3. QED
      BY <3>1, <3>2
  <2>7. QED
    BY <1>0, <2>1, <2>2, <2>4, <2>5, <2>6 DEF Seeded
<1>12. CASE Launch
  <2>1. \A c \in Sent' : c.field = "family" /\ c.for = Nothing
    BY <1>12 DEF Launch, Sent, Call
  <2>2. prefs' = prefs /\ disk' = disk /\ replies' = replies
    BY <1>12 DEF Launch
  <2>3. QED
    BY <1>0, <2>1, <2>2 DEF Seeded, Nothing
<1>13. CASE Dies
  <2>1. Sent' = {} /\ replies' = <<>>
    BY <1>13 DEF Dies, Sent
  <2>2. QED
    BY <1>0, <1>13, <2>1 DEF Dies, Seeded
<1>14. QED
  BY <1>2, <1>4, <1>5, <1>6, <1>7, <1>8, <1>9, <1>10, <1>11, <1>12, <1>13 DEF Shape

------------------------------------------------------------------------------
(* Consent *)

LEMMA ConsentedStep ==
    ASSUME IInv, Shape
    PROVE  Consented'
<1> USE DEF IInv
<1>0. /\ Consents(mem.family) /\ Consents(prefs.family) /\ Consents(disk.family)
      /\ \A c \in Sent : c.field = "family" => Consents(c.value)
      /\ mem \in Contents /\ prefs \in Contents
  BY DEF Consented, StoresTyped
<1>1. ASSUME NEW f, NEW v, NEW w, calls' = Append(calls, Call(f, v, w)),
             prefs' = prefs, disk' = disk, f = "family" => Consents(v),
             mem'.family = mem.family \/ Consents(mem'.family)
      PROVE  Consented'
  <2>1. Sent' = Sent \cup {Call(f, v, w)}
    BY <1>1, SentAfterCall DEF StoresTyped
  <2>2. QED
    BY <1>0, <1>1, <2>1 DEF Call, Consented
<1>2. CASE Still \/ Answered
  BY <1>0, <1>2 DEF Still, Answered, Sent, Consented
<1>3. ASSUME NEW w \in Waits, Records(w)
      PROVE  Consented'
  BY <1>0, <1>1, <1>3 DEF Records, Sends, Store, Contents
<1>4. CASE Clears
  BY <1>0, <1>1, <1>4 DEF Clears, Sends, Store, Contents
<1>5. CASE SendsUrl
  BY <1>0, <1>1, <1>5 DEF SendsUrl, Sends, Store, Contents
<1>6. CASE SendsFamily
  BY <1>0, <1>1, <1>6 DEF SendsFamily, Sends, Store, Contents
<1>7. CASE ListArrives
  BY <1>0, <1>1, <1>7 DEF ListArrives, SnapshotArrives, Contents
<1>8. CASE alive /\ alive' /\ ListSaved
  BY <1>0, <1>1, <1>8 DEF ListSaved
<1>9. CASE alive /\ alive' /\ PlatformWrites
  <2>1. Sent' \subseteq Sent /\ Head(calls) \in Sent
    BY <1>9, SentAfterWrite, Typed
  <2>2. prefs'.family = IF Head(calls).field = "family" THEN Head(calls).value ELSE prefs.family
    BY <1>0, <1>9 DEF PlatformWrites, Contents
  <2>3. QED
    BY <1>0, <1>9, <2>1, <2>2 DEF PlatformWrites, Consented
<1>10. CASE Launch
  <2>1. PICK c \in Codes :
          LET family == IF prefs.family.code = None THEN [prefs.family EXCEPT !.code = c]
                        ELSE prefs.family IN
          /\ mem' = [prefs EXCEPT !.meta = MetaOf(prefs.list, prefs.meta), !.family = family]
          /\ calls' = IF prefs.family.code = None
                      THEN <<Call("family", family, Nothing)>> ELSE <<>>
    BY <1>10 DEF Launch
  <2> DEFINE family == IF prefs.family.code = None THEN [prefs.family EXCEPT !.code = c]
                       ELSE prefs.family
  <2>2. Consents(family)
    BY <1>0 DEF Consents, Contents, Values, Families
  <2> HIDE DEF family
  <2>3. mem'.family = family
    <3>1. mem' = [prefs EXCEPT !.meta = MetaOf(prefs.list, prefs.meta), !.family = family]
      BY <2>1 DEF family
    <3>2. QED
      BY <1>0, <3>1 DEF Contents
  <2>4. \A d \in Sent' : d.value = family
    <3>1. calls' = <<>> \/ calls' = <<Call("family", family, Nothing)>>
      BY <2>1 DEF family
    <3>2. QED
      BY <3>1 DEF Sent, Call
  <2>5. QED
    BY <1>0, <1>10, <2>2, <2>3, <2>4 DEF Launch, Consented
<1>11. CASE Dies
  <2>1. Sent' = {}
    BY <1>11 DEF Dies, Sent
  <2>2. QED
    BY <1>0, <1>11, <2>1, MobileAssumption DEF Dies, Consented, Consents, Unwritten, NoFamily
<1>12. QED
  BY <1>2, <1>3, <1>4, <1>5, <1>6, <1>7, <1>8, <1>9, <1>10, <1>11 DEF Shape

------------------------------------------------------------------------------
(* The preferences follow the memory *)

\* A list being stored is still being stored, or its metadata are on their way.
LEMMA ListSyncs ==
    ASSUME IInv, [Next]_vars, alive, alive', ~ListSaved,
           NEW n \in DOMAIN syncs, syncs[n].pc = "list"
    PROVE  n \in DOMAIN syncs' /\ syncs'[n].pc = "list"
<1> USE DEF IInv
<1>0. /\ n \in 0 .. MaxSaves
      /\ syncs \in [0 .. MaxSaves -> [pc : {"idle", "fetch", "list", "meta"},
                                      url : Gateways \cup {None}]]
  BY DEF RestTyped
<1>1. CASE Launch \/ Dies
  BY <1>1 DEF Launch, Dies, Act
<1>2. CASE syncs' = syncs
  BY <1>2
<1>3. CASE UrlSaved
  <2>1. syncs[Head(replies).id].pc = "idle"
    BY <1>3, Resumed DEF UrlSaved, Awaits
  <2>2. QED
    BY <1>0, <1>3, <2>1 DEF UrlSaved, StartSync
<1>4. CASE MetaSaved
  <2>1. syncs[Head(replies).id].pc = "meta"
    BY <1>4, Resumed DEF MetaSaved, Awaits
  <2>2. QED
    BY <1>0, <1>4, <2>1 DEF MetaSaved
<1>5. ASSUME NEW m \in 0 .. MaxSaves, SnapshotArrives(m) \/ SyncFails(m)
      PROVE  n \in DOMAIN syncs' /\ syncs'[n].pc = "list"
  BY <1>0, <1>5 DEF SnapshotArrives, SyncFails, Fetching
<1>6. CASE PlatformWrites \/ FileWritten \/ UNCHANGED vars
  BY <1>2, <1>6 DEF PlatformWrites, FileWritten, vars, syncVars
<1>7. CASE Check
  BY <1>2, <1>7 DEF Check, StartCheck, CheckJudged, CheckErrs, CheckSaved, ClearHistory, Share,
     LocalJudged, AskDeep, DeepJudged, DeepFails, DeepSaved, LeaveScreen, syncVars
<1>8. CASE Family
  BY <1>2, <1>8, FamilyActs DEF syncVars
<1>9. ASSUME NEW u \in Gateways, SetBaseUrl(u)
      PROVE  n \in DOMAIN syncs' /\ syncs'[n].pc = "list"
  BY <1>2, <1>9 DEF SetBaseUrl
<1>10. QED
  BY <1>1, <1>3, <1>4, <1>5, <1>6, <1>7, <1>8, <1>9 DEF Next, Sync

LEMMA FollowsStep ==
    ASSUME IInv, Shape, [Next]_vars
    PROVE  Follows'
<1> USE DEF IInv
<1>0. mem \in Contents /\ prefs \in Contents /\ calls \in Seq(Sent)
  BY DEF StoresTyped
<1>1. ASSUME ~alive'
      PROVE  Follows'
  BY <1>1 DEF Follows
<1>2. ASSUME alive, alive', ~ListSaved,
             \A f \in Fields \ {"meta"} : WillHold(prefs', calls', f, mem'[f]),
             mem'.list = mem.list, mem'.meta = mem.meta,
             \A v : WillHold(prefs, calls, "meta", v) => WillHold(prefs', calls', "meta", v)
      PROVE  Follows'
  <2>1. CASE WillHold(prefs, calls, "meta", mem.meta)
    BY <1>2, <2>1 DEF Follows
  <2>2. CASE WillHold(prefs, calls, "meta", None) /\ mem.meta = MetaOf(mem.list, None)
    BY <1>2, <2>2 DEF Follows
  <2>3. CASE \E n \in DOMAIN syncs : syncs[n].pc = "list"
    <3>1. \E n \in DOMAIN syncs' : syncs'[n].pc = "list"
      BY <1>2, <2>3, ListSyncs
    <3>2. QED
      BY <1>2, <3>1 DEF Follows
  <2>4. QED
    BY <1>2, <2>1, <2>2, <2>3 DEF Follows
<1>3. ASSUME alive, alive', ~ListSaved, UNCHANGED <<mem, prefs, calls>>
      PROVE  Follows'
  BY <1>2, <1>3 DEF Follows
<1>4. ASSUME NEW f \in Fields \ {"list", "meta"}, NEW v, NEW w, Sends(f, v, w), ~ListSaved
      PROVE  Follows'
  <2> DEFINE c == Call(f, v, w)
  <2>1. calls' = Append(calls, c) /\ mem' = [mem EXCEPT ![f] = v] /\ prefs' = prefs
    BY <1>4 DEF Sends, Store
  <2>2. c.field = f /\ c.value = v
    BY DEF Call
  <2> HIDE DEF c
  <2>3. /\ WillHold(prefs, calls', f, v)
        /\ \A g, x : g # f /\ WillHold(prefs, calls, g, x) => WillHold(prefs, calls', g, x)
    BY <1>0, <2>1, <2>2, AppendHolds
  <2>4. \A g \in Fields : mem'[g] = IF g = f THEN v ELSE mem[g]
    BY <1>0, <2>1 DEF Contents, Fields
  <2>5. \A g \in Fields \ {"meta"} : WillHold(prefs', calls', g, mem'[g])
    BY <1>4, <2>1, <2>3, <2>4 DEF Sends, Follows
  <2>6. mem'.list = mem.list /\ mem'.meta = mem.meta
    BY <1>4, <2>4 DEF Fields
  <2>7. \A x : WillHold(prefs, calls, "meta", x) => WillHold(prefs', calls', "meta", x)
    BY <2>1, <2>3
  <2>8. QED
    BY <1>2, <1>4, <2>5, <2>6, <2>7 DEF Sends
<1>6. CASE Still
  <2>1. CASE alive
    <3>1. ~ListSaved
      BY <1>0, <1>6, AppendProperties, LenProperties DEF Still, ListSaved
    <3>2. QED
      BY <1>3, <1>6, <2>1, <3>1 DEF Still
  <2>2. CASE ~alive
    BY <1>1, <1>6, <2>2 DEF Still
  <2>3. QED
    BY <2>1, <2>2
<1>7. CASE Answered
  <2>1. ~ListSaved
    BY <1>0, <1>7, AppendProperties, LenProperties DEF Answered, ListSaved
  <2>2. QED
    BY <1>3, <1>7, <2>1 DEF Answered
<1>8. ASSUME NEW f \in Fields \ {"list", "meta"}, NEW v, NEW w, Sends(f, v, w)
      PROVE  Follows'
  <2>1. CASE ListSaved
    <3>1. PICK c : c = Call(f, v, w)
      OBVIOUS
    <3>2. PICK d : d = Call("meta", mem.meta, For("meta", Head(replies).id))
      OBVIOUS
    <3>3. Append(calls, c) = Append(calls, d)
      BY <1>8, <2>1, <3>1, <3>2 DEF Sends, Store, ListSaved
    <3>4. c = d
      BY <1>0, <3>3, AppendCalls
    <3>5. QED
      BY <1>8, <3>1, <3>2, <3>4 DEF Call
  <2>2. QED
    BY <1>4, <1>8, <2>1
<1>9. ASSUME NEW w \in Waits, Records(w)
      PROVE  Follows'
  BY <1>8, <1>9 DEF Records, Fields
<1>10. CASE Clears
  BY <1>8, <1>10 DEF Clears, Fields
<1>11. CASE SendsUrl
  BY <1>8, <1>11 DEF SendsUrl, Fields
<1>12. CASE SendsFamily
  BY <1>8, <1>12 DEF SendsFamily, Fields
<1>13. CASE ListArrives
  <2>1. PICK n \in 0 .. MaxSaves : SnapshotArrives(n) /\ alive /\ alive'
    BY <1>13 DEF ListArrives
  <2>u. PICK u : u = syncs[n].url
    OBVIOUS
  <2>c. PICK c : c = Call("list", u, For("list", n))
    OBVIOUS
  <2>2. /\ calls' = Append(calls, c) /\ prefs' = prefs
        /\ mem' = [mem EXCEPT !.list = u, !.meta = u]
        /\ syncs' = [syncs EXCEPT ![n].pc = "list"]
    BY <2>1, <2>u, <2>c DEF SnapshotArrives
  <2>3. c.field = "list" /\ c.value = u
    BY <2>c DEF Call
  <2>4. /\ WillHold(prefs, calls', "list", u)
        /\ \A g, x : g # "list" /\ WillHold(prefs, calls, g, x) => WillHold(prefs, calls', g, x)
    BY <1>0, <2>2, <2>3, AppendHolds
  <2>5. \A g \in Fields \ {"meta"} : mem'[g] = IF g = "list" THEN u ELSE mem[g]
    BY <1>0, <2>2 DEF Contents, Fields
  <2>6. \A g \in Fields \ {"meta"} : WillHold(prefs', calls', g, mem'[g])
    BY <2>1, <2>2, <2>4, <2>5 DEF Follows
  <2>7. n \in DOMAIN syncs' /\ syncs'[n].pc = "list"
    BY <2>2 DEF RestTyped
  <2>8. QED
    BY <2>6, <2>7 DEF Follows
<1>14. CASE alive /\ alive' /\ ListSaved
  <2>c. PICK c : c = Call("meta", mem.meta, For("meta", Head(replies).id))
    OBVIOUS
  <2>1. calls' = Append(calls, c) /\ prefs' = prefs /\ mem' = mem
    BY <1>14, <2>c DEF ListSaved
  <2>2. c.field = "meta" /\ c.value = mem.meta
    BY <2>c DEF Call
  <2>3. /\ WillHold(prefs, calls', "meta", mem.meta)
        /\ \A g, x : g # "meta" /\ WillHold(prefs, calls, g, x) => WillHold(prefs, calls', g, x)
    BY <1>0, <2>1, <2>2, AppendHolds
  <2>4. QED
    BY <1>14, <2>1, <2>3 DEF Follows
<1>15. CASE alive /\ alive' /\ PlatformWrites
  <2> DEFINE c == Head(calls)
  <2>1. c \in Sent /\ c.field \in Fields
    BY <1>15, SentAfterWrite, Typed DEF StoresTyped
  <2>2. /\ prefs' = [prefs EXCEPT ![c.field] = c.value] /\ calls' = Tail(calls)
        /\ mem' = mem /\ calls # <<>>
    BY <1>15 DEF PlatformWrites
  <2>3. \A f \in Fields : \A v :
          WillHold(prefs, calls, f, v) => WillHold(prefs', calls', f, v)
    BY <1>0, <2>1, <2>2, TailHolds
  <2>4. ~ListSaved
    <3>1. Len(calls') = Len(calls) - 1 /\ Len(calls) \in Nat
      BY <1>0, <2>2, HeadTailProperties, LenProperties
    <3>2. QED
      BY <1>0, <3>1, AppendProperties DEF ListSaved
  <2>5. "meta" \in Fields
    BY DEF Fields
  <2>6. QED
    BY <1>2, <1>15, <2>2, <2>3, <2>4, <2>5 DEF Follows
<1>16. CASE Launch
  <2>1. PICK c \in Codes :
          LET family == IF prefs.family.code = None THEN [prefs.family EXCEPT !.code = c]
                        ELSE prefs.family IN
          /\ mem' = [prefs EXCEPT !.meta = MetaOf(prefs.list, prefs.meta), !.family = family]
          /\ calls' = IF prefs.family.code = None
                      THEN <<Call("family", family, Nothing)>> ELSE <<>>
    BY <1>16 DEF Launch
  <2>f. PICK family : family = IF prefs.family.code = None THEN [prefs.family EXCEPT !.code = c]
                               ELSE prefs.family
    OBVIOUS
  <2>2. /\ mem' = [prefs EXCEPT !.meta = MetaOf(prefs.list, prefs.meta), !.family = family]
        /\ \/ calls' = <<Call("family", family, Nothing)>>
           \/ calls' = <<>> /\ family = prefs.family
        /\ prefs' = prefs
    BY <1>16, <2>1, <2>f DEF Launch
  <2>3. \A i \in DOMAIN calls' : i = 1 /\ calls'[i].field = "family"
                                       /\ calls'[i].value = family
    BY <2>2 DEF Call
  <2>4. /\ mem'.family = family /\ mem'.list = prefs.list
        /\ mem'.meta = MetaOf(prefs.list, prefs.meta)
        /\ mem'.url = prefs.url /\ mem'.history = prefs.history
    BY <1>0, <2>2 DEF Contents
  <2>5. \A f, v : f # "family" /\ prefs[f] = v => WillHold(prefs', calls', f, v)
    BY <2>2, <2>3 DEF WillHold
  <2>6. WillHold(prefs', calls', "family", family)
    <3>1. CASE calls' = <<>> /\ family = prefs.family
      BY <2>2, <3>1 DEF WillHold
    <3>2. CASE calls' = <<Call("family", family, Nothing)>>
      <4>1. 1 \in DOMAIN calls'
        BY <3>2
      <4>2. \A j \in DOMAIN calls' : ~(j > 1)
        BY <2>3
      <4>3. QED
        BY <2>3, <4>1, <4>2 DEF WillHold
    <3>3. QED
      BY <2>2, <3>1, <3>2
  <2>7. \A f \in Fields \ {"meta"} : WillHold(prefs', calls', f, mem'[f])
    BY <2>4, <2>5, <2>6 DEF Fields
  <2>8. \/ WillHold(prefs', calls', "meta", mem'.meta)
        \/ WillHold(prefs', calls', "meta", None) /\ mem'.meta = MetaOf(mem'.list, None)
    BY <2>4, <2>5 DEF MetaOf, Seeded
  <2>9. QED
    BY <2>7, <2>8 DEF Follows
<1>17. CASE Dies
  BY <1>1, <1>17 DEF Dies
<1>18. QED
  BY <1>6, <1>7, <1>9, <1>10, <1>11, <1>12, <1>13, <1>14, <1>15, <1>16, <1>17 DEF Shape

------------------------------------------------------------------------------
(* The results on the screen and on their way there *)

LEMMA KeptLater ==
    ASSUME NEW r \in Nat, NEW h, NEW c \in Nat, NEW d \in Nat, NEW m \in Nat, NEW n \in Nat,
           c <= d, m <= n, KeptIn(r, h, c, m)
    PROVE  KeptIn(r, h, d, n)
BY MobileAssumption DEF KeptIn

\* A history that ends with the newest result keeps all results.
LEMMA KeptByLast ==
    ASSUME NEW h \in Seq(Results), NEW m \in Nat, NEW c \in 0 .. m,
           Len(h) = (IF m - c > MaxHistory THEN MaxHistory ELSE m - c),
           \A i \in DOMAIN h : h[i] = m + 1 - i,
           NEW r \in 1 .. m
    PROVE  KeptIn(r, h, c, m)
<1>1. MaxHistory \in Nat /\ DOMAIN h = 1 .. Len(h) /\ Len(h) \in Nat
  BY LenProperties, MobileAssumption
<1>2. CASE r > c /\ r + MaxHistory > m
  <2>1. m + 1 - r \in DOMAIN h
    BY <1>1, <1>2
  <2>2. h[m + 1 - r] = m + 1 - (m + 1 - r) /\ m + 1 - (m + 1 - r) = r
    BY <2>1
  <2>3. QED
    BY <2>1, <2>2 DEF KeptIn
<1>3. QED
  BY <1>1, <1>2 DEF KeptIn

\* What is shown or awaited is the number of a result.
LEMMA CheckNumbers ==
    ASSUME IInv
    PROVE  /\ shown # 0 => shown \in 1 .. made
           /\ \A j \in DOMAIN replies :
                replies[j].what = "check" => replies[j].id \in 1 .. made
           /\ \A i \in DOMAIN calls :
                calls[i].for.what = "check" => calls[i].for.id \in 1 .. made
           /\ made \in Nat /\ cleared \in 0 .. made
<1>1. /\ shown # 0 => shown \in 1 .. made
      /\ made \in Nat /\ cleared \in 0 .. made
  BY MobileAssumption DEF IInv, RestTyped
<1>2. ASSUME NEW w \in Awaited, w.what = "check"
      PROVE  w.id \in 1 .. made
  BY <1>2 DEF IInv, Waiting, Awaits
<1>3. Nothing.what # "check"
  BY DEF Nothing
<1>4. \A j \in DOMAIN replies : replies[j].what = "check" => replies[j] \in Awaited
  BY <1>3 DEF Awaited, Answers
<1>5. \A i \in DOMAIN calls : calls[i].for.what = "check" => calls[i].for \in Awaited
  BY <1>3 DEF Awaited, Answers
<1>6. QED
  BY <1>1, <1>2, <1>4, <1>5

\* A call that stores another field, or a history that keeps all results.
LEMMA AllKeptAfterSend ==
    ASSUME NEW S, NEW q \in Seq(S), NEW p, NEW rs, NEW r, NEW e,
           NEW c \in Nat, NEW d \in Nat, NEW m \in Nat, NEW n \in Nat, c <= d, m <= n,
           AllKept(r, p, q, rs, c, m),
           r # 0 => r \in 1 .. m,
           \A j \in DOMAIN rs : rs[j].what = "check" => rs[j].id \in 1 .. m,
           \A i \in DOMAIN q : q[i].for.what = "check" => q[i].for.id \in 1 .. m,
           e.field = "history" => \A x \in 1 .. n : KeptIn(x, e.value, d, n),
           e.for.what = "check" => e.field = "history" /\ e.for.id \in 1 .. n
    PROVE  AllKept(r, p, Append(q, e), rs, d, n)
<1> DEFINE t == Append(q, e)
<1>1. /\ DOMAIN t = 1 .. Len(q) + 1 /\ DOMAIN q = 1 .. Len(q) /\ Len(q) \in Nat
      /\ t[Len(q) + 1] = e
      /\ \A i \in 1 .. Len(q) : t[i] = q[i]
  BY AppendCalls
<1> HIDE DEF t
<1>2. \A x \in 1 .. m : \A h : KeptIn(x, h, c, m) => KeptIn(x, h, d, n)
  BY KeptLater
<1>3. ASSUME NEW x \in 1 .. m, NEW k \in Nat, KeptFrom(x, k, q, c, m)
      PROVE  KeptFrom(x, k, t, d, n)
  <2>1. x \in 1 .. n
    OBVIOUS
  <2>2. ASSUME NEW j \in DOMAIN t, j >= k, t[j].field = "history"
        PROVE  KeptIn(x, t[j].value, d, n)
    <3>1. CASE j \in DOMAIN q
      BY <1>1, <1>2, <1>3, <2>2, <3>1 DEF KeptFrom
    <3>2. CASE j \notin DOMAIN q
      <4>1. t[j] = e
        BY <1>1, <2>2, <3>2
      <4>2. QED
        BY <2>1, <2>2, <4>1
    <3>3. QED
      BY <3>1, <3>2
  <2>3. QED
    BY <2>2 DEF KeptFrom
<1>4. r # 0 => KeptIn(r, p, d, n) /\ KeptFrom(r, 1, t, d, n)
  BY <1>2, <1>3 DEF AllKept
<1>5. \A j \in DOMAIN rs :
        rs[j].what = "check" => KeptIn(rs[j].id, p, d, n) /\ KeptFrom(rs[j].id, 1, t, d, n)
  BY <1>2, <1>3 DEF AllKept
<1>6. ASSUME NEW i \in DOMAIN t, t[i].for.what = "check"
      PROVE  t[i].field = "history" /\ KeptFrom(t[i].for.id, i, t, d, n)
  <2>1. CASE i \in DOMAIN q
    <3>1. t[i] = q[i] /\ i \in Nat
      BY <1>1, <2>1
    <3>2. QED
      BY <1>3, <1>6, <2>1, <3>1 DEF AllKept
  <2>2. CASE i \notin DOMAIN q
    <3>1. i = Len(q) + 1 /\ t[i] = e
      BY <1>1, <2>2
    <3>2. \A j \in DOMAIN t : j >= i => j = i
      BY <1>1, <3>1
    <3>3. e.field = "history" /\ e.for.id \in 1 .. n
      BY <1>6, <3>1
    <3>4. KeptIn(e.for.id, e.value, d, n)
      BY <3>3
    <3>5. QED
      BY <3>1, <3>2, <3>3, <3>4 DEF KeptFrom
  <2>3. QED
    BY <2>1, <2>2
<1>7. QED
  BY <1>4, <1>5, <1>6 DEF AllKept, t

LEMMA AllKeptAfterOther ==
    ASSUME NEW S, NEW q \in Seq(S), NEW p, NEW rs, NEW r, NEW e, NEW c \in Nat, NEW m \in Nat,
           AllKept(r, p, q, rs, c, m),
           r # 0 => r \in 1 .. m,
           \A j \in DOMAIN rs : rs[j].what = "check" => rs[j].id \in 1 .. m,
           \A i \in DOMAIN q : q[i].for.what = "check" => q[i].for.id \in 1 .. m,
           e.field # "history", e.for.what # "check"
    PROVE  AllKept(r, p, Append(q, e), rs, c, m)
<1>1. c <= c /\ m <= m
  OBVIOUS
<1>2. QED
  BY <1>1, AllKeptAfterSend

\* Taking an answer leaves fewer.
LEMMA AllKeptWithFewer ==
    ASSUME NEW p, NEW q, NEW rs, NEW less, NEW r, NEW x, NEW c, NEW m,
           AllKept(r, p, q, rs, c, m),
           \A j \in DOMAIN less : \E i \in DOMAIN rs : less[j] = rs[i],
           x \in {0, r} \/ \E i \in DOMAIN rs : rs[i].what = "check" /\ rs[i].id = x
    PROVE  AllKept(x, p, q, less, c, m)
<1>1. \A j \in DOMAIN less : less[j].what = "check" =>
        KeptIn(less[j].id, p, c, m) /\ KeptFrom(less[j].id, 1, q, c, m)
  BY DEF AllKept
<1>2. x # 0 => KeptIn(x, p, c, m) /\ KeptFrom(x, 1, q, c, m)
  BY DEF AllKept
<1>3. QED
  BY <1>1, <1>2 DEF AllKept

LEMMA AllKeptAfterWrite ==
    ASSUME IInv, PlatformWrites
    PROVE  AllKept(shown, prefs'.history, calls', replies', cleared, made)
<1> DEFINE e == Head(calls)
<1>1. /\ e = calls[1] /\ Len(calls) \in Nat /\ Len(calls) >= 1
      /\ DOMAIN calls = 1 .. Len(calls) /\ DOMAIN calls' = 1 .. Len(calls) - 1
      /\ \A i \in 1 .. Len(calls) - 1 : calls'[i] = calls[i + 1]
  BY TailCalls DEF IInv, StoresTyped, PlatformWrites
<1>2. \A i \in DOMAIN calls' : i + 1 \in DOMAIN calls /\ i \in Nat /\ calls'[i] = calls[i + 1]
  BY <1>1
<1>3. 1 \in DOMAIN calls
  BY <1>1
<1>4. AllKept(shown, prefs.history, calls, replies, cleared, made)
  BY DEF IInv, ResultsKept
<1>5. prefs'.history = IF e.field = "history" THEN e.value ELSE prefs.history
  BY DEF PlatformWrites, IInv, StoresTyped, Contents
<1>6. ASSUME NEW r, NEW k \in Nat, KeptFrom(r, k + 1, calls, cleared, made)
      PROVE  KeptFrom(r, k, calls', cleared, made)
  BY <1>2, <1>6 DEF KeptFrom
<1>7. ASSUME NEW r, KeptFrom(r, 1, calls, cleared, made)
      PROVE  /\ KeptFrom(r, 1, calls', cleared, made)
             /\ KeptIn(r, prefs.history, cleared, made) \/ e.field = "history"
                  => KeptIn(r, prefs'.history, cleared, made)
  <2>1. KeptFrom(r, 1, calls', cleared, made)
    BY <1>2, <1>7 DEF KeptFrom
  <2>2. e.field = "history" => KeptIn(r, e.value, cleared, made)
    BY <1>1, <1>3, <1>7 DEF KeptFrom
  <2>3. QED
    BY <1>5, <2>1, <2>2
<1>8. shown # 0 =>
        KeptIn(shown, prefs'.history, cleared, made) /\ KeptFrom(shown, 1, calls', cleared, made)
  BY <1>4, <1>7 DEF AllKept
<1>9. ASSUME NEW i \in DOMAIN calls', calls'[i].for.what = "check"
      PROVE  calls'[i].field = "history" /\ KeptFrom(calls'[i].for.id, i, calls', cleared, made)
  <2>1. /\ calls[i + 1].field = "history"
        /\ KeptFrom(calls[i + 1].for.id, i + 1, calls, cleared, made)
    BY <1>2, <1>4, <1>9 DEF AllKept
  <2>2. QED
    BY <1>2, <1>6, <2>1
<1>10. ASSUME NEW w, w.what = "check", w = e.for \/ \E j \in DOMAIN replies : w = replies[j]
       PROVE  KeptIn(w.id, prefs'.history, cleared, made) /\ KeptFrom(w.id, 1, calls', cleared, made)
  <2>1. CASE w = e.for
    <3>1. e.field = "history" /\ KeptFrom(w.id, 1, calls, cleared, made)
      BY <1>1, <1>3, <1>4, <1>10, <2>1 DEF AllKept
    <3>2. QED
      BY <1>7, <3>1
  <2>2. CASE \E j \in DOMAIN replies : w = replies[j]
    <3>1. KeptIn(w.id, prefs.history, cleared, made) /\ KeptFrom(w.id, 1, calls, cleared, made)
      BY <1>4, <1>10, <2>2 DEF AllKept
    <3>2. QED
      BY <1>7, <3>1
  <2>3. QED
    BY <1>10, <2>1, <2>2
<1>11. ASSUME NEW j \in DOMAIN replies'
       PROVE  replies'[j] = e.for \/ \E i \in DOMAIN replies : replies'[j] = replies[i]
  <2>1. CASE e.for = Nothing
    BY <1>11, <2>1 DEF PlatformWrites
  <2>2. CASE e.for # Nothing
    <3>1. replies' = Append(replies, e.for)
      BY <2>2 DEF PlatformWrites
    <3>2. /\ DOMAIN replies = 1 .. Len(replies) /\ DOMAIN replies' = 1 .. Len(replies) + 1
          /\ Len(replies) \in Nat
          /\ replies'[Len(replies) + 1] = e.for
          /\ \A i \in 1 .. Len(replies) : replies'[i] = replies[i]
      BY <3>1, AppendCalls DEF IInv, StoresTyped
    <3>3. j \in DOMAIN replies \/ j = Len(replies) + 1
      BY <1>11, <3>2
    <3>4. QED
      BY <3>2, <3>3
  <2>3. QED
    BY <2>1, <2>2
<1>12. QED
  BY <1>8, <1>9, <1>10, <1>11 DEF AllKept

LEMMA ShownStep ==
    ASSUME [Next]_vars
    PROVE  shown' \in {0, shown} \/ CheckSaved
<1>1. CASE Launch \/ Dies \/ PlatformWrites \/ FileWritten \/ UNCHANGED vars
  BY <1>1 DEF Launch, Dies, PlatformWrites, FileWritten, vars, checkVars
<1>2. CASE Sync
  BY <1>2 DEF Sync, SetBaseUrl, UrlSaved, ListSaved, MetaSaved, SnapshotArrives, SyncFails,
     checkVars
<1>3. CASE Check
  BY <1>3 DEF Check, StartCheck, CheckJudged, CheckErrs, CheckSaved, ClearHistory, Share,
     LocalJudged, AskDeep, DeepJudged, DeepFails, DeepSaved, LeaveScreen
<1>4. CASE Family
  BY <1>4, FamilyActs DEF checkVars
<1>5. QED
  BY <1>1, <1>2, <1>3, <1>4 DEF Next

LEMMA ResultsKeptStep ==
    ASSUME IInv, Shape, [Next]_vars
    PROVE  ResultsKept'
<1> USE DEF IInv
<1>0. /\ AllKept(shown, prefs.history, calls, replies, cleared, made)
      /\ calls \in Seq(Sent) /\ replies \in Seq(Waits)
      /\ made \in Nat /\ cleared \in Nat /\ cleared <= made
      /\ shown # 0 => shown \in 1 .. made
      /\ \A j \in DOMAIN replies : replies[j].what = "check" => replies[j].id \in 1 .. made
      /\ \A i \in DOMAIN calls :
           calls[i].for.what = "check" => calls[i].for.id \in 1 .. made
  BY CheckNumbers DEF ResultsKept, StoresTyped
<1>1. ASSUME AllKept(shown', prefs'.history, calls', replies', cleared', made')
      PROVE  ResultsKept'
  BY <1>1 DEF ResultsKept
<1>2. ASSUME replies # <<>>, replies' = Tail(replies)
      PROVE  \A j \in DOMAIN replies' : \E i \in DOMAIN replies : replies'[j] = replies[i]
  <2>1. /\ DOMAIN replies = 1 .. Len(replies) /\ DOMAIN replies' = 1 .. Len(replies) - 1
        /\ \A i \in 1 .. Len(replies) - 1 : replies'[i] = replies[i + 1]
        /\ Len(replies) \in Nat
    BY <1>0, <1>2, TailCalls
  <2>2. \A j \in DOMAIN replies' : j + 1 \in DOMAIN replies /\ replies'[j] = replies[j + 1]
    BY <2>1
  <2>3. QED
    BY <2>2
<1>3. CASE CheckSaved
  <2>1. /\ replies # <<>> /\ replies' = Tail(replies) /\ Head(replies).what = "check"
        /\ shown' = Head(replies).id
        /\ UNCHANGED <<prefs, calls, cleared, made>>
    BY <1>3 DEF CheckSaved, Resume
  <2>2. Head(replies) = replies[1] /\ 1 \in DOMAIN replies
    BY <1>0, <2>1, TailCalls
  <2>3. PICK less, x : less = replies' /\ x = shown'
    OBVIOUS
  <2>4. /\ \A j \in DOMAIN less : \E i \in DOMAIN replies : less[j] = replies[i]
        /\ \E i \in DOMAIN replies : replies[i].what = "check" /\ replies[i].id = x
    BY <1>2, <2>1, <2>2, <2>3
  <2>5. AllKept(x, prefs.history, calls, less, cleared, made)
    BY <1>0, <2>4, AllKeptWithFewer
  <2>6. QED
    BY <1>1, <2>1, <2>3, <2>5
<1> SUFFICES ASSUME ~CheckSaved PROVE ResultsKept'
  BY <1>3
<1>4. shown' \in {0, shown}
  BY ShownStep
<1>5. AllKept(shown', prefs.history, calls, replies, cleared, made)
      /\ (shown' # 0 => shown' \in 1 .. made)
  <2>1. \A j \in DOMAIN replies : \E i \in DOMAIN replies : replies[j] = replies[i]
    OBVIOUS
  <2>2. QED
    BY <1>0, <1>4, <2>1, AllKeptWithFewer
<1>6. CASE Still
  BY <1>1, <1>5, <1>6 DEF Still
<1>7. ASSUME replies # <<>>, replies' = Tail(replies)
      PROVE  /\ AllKept(shown', prefs.history, calls, replies', cleared, made)
             /\ \A j \in DOMAIN replies' :
                  replies'[j].what = "check" => replies'[j].id \in 1 .. made
  <2>1. PICK less, x : less = replies' /\ x = shown'
    OBVIOUS
  <2>2. \A j \in DOMAIN less : \E i \in DOMAIN replies : less[j] = replies[i]
    BY <1>2, <1>7, <2>1
  <2>3. x \in {0, shown}
    BY <1>4, <2>1
  <2>4. AllKept(x, prefs.history, calls, less, cleared, made)
    BY <1>0, <2>2, <2>3, AllKeptWithFewer
  <2>5. QED
    BY <1>0, <2>1, <2>2, <2>4
<1>8. CASE Answered
  BY <1>1, <1>7, <1>8 DEF Answered
<1>9. ASSUME NEW f, NEW v, NEW w, Sends(f, v, w), made' \in Nat, made <= made',
             cleared' \in Nat, cleared <= cleared',
             f = "history" => \A x \in 1 .. made' : KeptIn(x, v, cleared', made'),
             w.what = "check" => f = "history" /\ w.id \in 1 .. made'
      PROVE  ResultsKept'
  <2>e. PICK e : e = Call(f, v, w)
    OBVIOUS
  <2>1. e.field = f /\ e.value = v /\ e.for = w
    BY <2>e DEF Call
  <2>2. calls' = Append(calls, e) /\ prefs' = prefs /\ replies' = replies
    BY <1>9, <2>e DEF Sends, Store
  <2>3. AllKept(shown', prefs.history, Append(calls, e), replies, cleared', made')
    BY <1>0, <1>5, <1>9, <2>1, AllKeptAfterSend
  <2>4. QED
    BY <1>1, <2>2, <2>3
<1>10. ASSUME NEW w \in Waits, Records(w)
       PROVE  ResultsKept'
  <2>1. HistoryIsLast' /\ StoresTyped' /\ alive'
    BY <1>10, HistoryStep, StoresStep DEF Records, Sends
  <2>v. PICK v : v = Recorded(mem.history, made + 1)
    OBVIOUS
  <2>2. Sends("history", v, w) /\ mem'.history = v
    BY <1>10, <2>v DEF Records, Sends, Store, StoresTyped, Contents
  <2>3. v \in Seq(Results)
    BY <2>1, <2>2 DEF StoresTyped, Contents, Values
  <2>n. PICK n : n = made'
    OBVIOUS
  <2>4. made' = made + 1 /\ cleared' = cleared /\ n \in Nat /\ cleared \in 0 .. n
    BY <1>0, <1>10, <2>n DEF Records
  <2>5. /\ Len(v) = (IF n - cleared > MaxHistory THEN MaxHistory ELSE n - cleared)
        /\ \A i \in DOMAIN v : v[i] = n + 1 - i
    BY <2>1, <2>2, <2>4, <2>n DEF HistoryIsLast
  <2>6. \A x \in 1 .. n : KeptIn(x, v, cleared, n)
    BY <2>3, <2>4, <2>5, KeptByLast
  <2>7. w.what = "check" => w.id \in 1 .. made'
    BY <1>0, <1>10, <2>4 DEF Records, Nothing, For
  <2>8. QED
    BY <1>0, <1>9, <2>2, <2>4, <2>6, <2>7, <2>n
<1>11. CASE Clears
  <2>1. Sends("history", <<>>, Nothing) /\ made' = made /\ cleared' = made
    BY <1>11 DEF Clears
  <2>2. \A x \in 1 .. made : KeptIn(x, <<>>, made, made)
    BY <1>0 DEF KeptIn
  <2>3. Nothing.what # "check"
    BY DEF Nothing
  <2>4. QED
    BY <1>0, <1>9, <2>1, <2>2, <2>3
<1>12. CASE SendsUrl
  <2>1. PICK u \in Gateways :
          Sends("url", u, For("url", saves + 1)) /\ UNCHANGED <<made, cleared>>
    BY <1>12 DEF SendsUrl
  <2>2. For("url", saves + 1).what # "check"
    BY DEF For
  <2>3. QED
    BY <1>0, <1>9, <2>1, <2>2
<1>13. CASE SendsFamily
  <2>1. PICK family \in Families :
          Sends("family", family, Nothing) /\ UNCHANGED <<made, cleared>>
    BY <1>13 DEF SendsFamily
  <2>2. Nothing.what # "check"
    BY DEF Nothing
  <2>3. QED
    BY <1>0, <1>9, <2>1, <2>2
<1>14. CASE ListArrives
  <2>1. PICK n \in 0 .. MaxSaves : SnapshotArrives(n)
    BY <1>14 DEF ListArrives
  <2>e. PICK e : e = Call("list", syncs[n].url, For("list", n))
    OBVIOUS
  <2>2. /\ calls' = Append(calls, e) /\ e.field # "history" /\ e.for.what # "check"
        /\ UNCHANGED <<prefs, replies, made, cleared>>
    BY <2>1, <2>e DEF SnapshotArrives, checkVars, Call, For
  <2>3. AllKept(shown', prefs.history, Append(calls, e), replies, cleared, made)
    BY <1>0, <1>5, <2>2, AllKeptAfterOther
  <2>4. QED
    BY <1>1, <2>2, <2>3
<1>15. CASE alive /\ alive' /\ ListSaved
  <2>e. PICK e : e = Call("meta", mem.meta, For("meta", Head(replies).id))
    OBVIOUS
  <2>1. /\ calls' = Append(calls, e) /\ e.field # "history" /\ e.for.what # "check"
        /\ replies # <<>> /\ replies' = Tail(replies)
        /\ UNCHANGED <<prefs, made, cleared>>
    BY <1>15, <2>e DEF ListSaved, Resume, checkVars, Call, For
  <2>2. /\ AllKept(shown', prefs.history, calls, replies', cleared, made)
        /\ \A j \in DOMAIN replies' :
             replies'[j].what = "check" => replies'[j].id \in 1 .. made
    BY <1>7, <2>1
  <2>3. PICK less, x : less = replies' /\ x = shown'
    OBVIOUS
  <2>4. /\ AllKept(x, prefs.history, calls, less, cleared, made)
        /\ x # 0 => x \in 1 .. made
        /\ \A j \in DOMAIN less : less[j].what = "check" => less[j].id \in 1 .. made
    BY <1>5, <2>2, <2>3
  <2>5. AllKept(x, prefs.history, Append(calls, e), less, cleared, made)
    BY <1>0, <2>1, <2>4, AllKeptAfterOther
  <2>6. QED
    BY <1>1, <2>1, <2>3, <2>5
<1>16. CASE alive /\ alive' /\ PlatformWrites
  <2>1. UNCHANGED <<shown, made, cleared>>
    BY <1>16 DEF PlatformWrites, checkVars
  <2>2. QED
    BY <1>1, <1>16, <2>1, AllKeptAfterWrite
<1>17. CASE Launch
  <2>1. shown' = 0 /\ replies' = <<>> /\ \A i \in DOMAIN calls' : calls'[i].for = Nothing
    BY <1>17 DEF Launch, Resting, Call
  <2>2. QED
    BY <1>1, <2>1 DEF AllKept, Nothing
<1>18. CASE Dies
  <2>1. shown' = 0 /\ replies' = <<>> /\ calls' = <<>>
    BY <1>18 DEF Dies
  <2>2. QED
    BY <1>1, <2>1 DEF AllKept
<1>19. QED
  BY <1>6, <1>8, <1>10, <1>11, <1>12, <1>13, <1>14, <1>15, <1>16, <1>17, <1>18 DEF Shape

------------------------------------------------------------------------------
(* The gateway of the list *)

\* An address on its way stays on its way until it is saved.
LEMMA StillUnsettled ==
    ASSUME IInv, [Next]_vars, ~UrlSaved, ~Launch, ~Dies, Settled'
    PROVE  Settled
<1> USE DEF IInv
<1>1. ASSUME Awaited \subseteq Awaited'
      PROVE  Settled
  BY <1>1 DEF Settled
<1>2. ASSUME NEW what, what # "url", Resume(what), Awaited \ {Head(replies)} \subseteq Awaited'
      PROVE  Settled
  BY <1>2 DEF Settled, Resume
<1>3. ASSUME calls' = calls, replies' = replies
      PROVE  Settled
  BY <1>1, <1>3 DEF Awaited
<1>4. CASE FileWritten \/ UNCHANGED vars
  BY <1>3, <1>4 DEF FileWritten, vars, stores
<1>5. CASE PlatformWrites
  BY <1>1, <1>5, AnswersAfterWrite
<1>6. CASE StartCheck \/ CheckErrs \/ Share \/ AskDeep \/ DeepFails \/ LeaveScreen
  BY <1>3, <1>6 DEF StartCheck, CheckErrs, Share, AskDeep, DeepFails, LeaveScreen, stores
<1>7. ASSUME NEW n \in 0 .. MaxSaves, SyncFails(n)
      PROVE  Settled
  BY <1>3, <1>7 DEF SyncFails, stores
<1>8. CASE CheckSaved \/ DeepSaved \/ MetaSaved
  BY <1>2, <1>8, AwaitedAfterResume DEF CheckSaved, DeepSaved, MetaSaved
<1>9. ASSUME NEW c, calls' = Append(calls, c), replies' = replies
      PROVE  Settled
  <2>1. /\ DOMAIN calls' = 1 .. Len(calls) + 1 /\ DOMAIN calls = 1 .. Len(calls)
        /\ Len(calls) \in Nat
        /\ \A i \in 1 .. Len(calls) : calls'[i] = calls[i]
    BY <1>9, AppendCalls DEF StoresTyped
  <2>2. \A i \in DOMAIN calls : i \in DOMAIN calls' /\ calls'[i] = calls[i]
    BY <2>1
  <2>3. Awaited \subseteq Awaited'
    BY <1>9, <2>2 DEF Awaited, Answers
  <2>4. QED
    BY <1>1, <2>3
<1>10. CASE CheckJudged \/ LocalJudged \/ DeepJudged \/ ClearHistory
  BY <1>9, <1>10 DEF CheckJudged, LocalJudged, DeepJudged, ClearHistory, Record, Store
<1>11. CASE Family
  <2>1. SendsFamily
    BY <1>11, FamilyChanges
  <2>2. QED
    BY <1>9, <2>1 DEF SendsFamily, Sends, Store
<1>12. ASSUME NEW u \in Gateways, SetBaseUrl(u)
       PROVE  Settled
  BY <1>9, <1>12 DEF SetBaseUrl, Store
<1>13. ASSUME NEW n \in 0 .. MaxSaves, SnapshotArrives(n)
       PROVE  Settled
  BY <1>9, <1>13 DEF SnapshotArrives
<1>14. CASE ListSaved
  <2> DEFINE k == Head(replies).id
  <2>1. k \in 0 .. MaxSaves /\ syncs[k].pc = "list"
    BY <1>14, Resumed DEF ListSaved, Awaits
  <2>2. For("meta", k) \notin Awaited
    BY <2>1, AwaitedTyped DEF For, Awaits
  <2>3. Awaited \ {Head(replies)} \subseteq Awaited'
    BY <1>14, <2>2, AwaitedAfterBoth DEF ListSaved
  <2>4. QED
    BY <1>2, <1>14, <2>3 DEF ListSaved
<1>15. QED
  BY <1>4, <1>5, <1>6, <1>7, <1>8, <1>10, <1>11, <1>12, <1>13, <1>14 DEF Next, Sync, Check

LEMMA FromGatewayStep ==
    ASSUME IInv, [Next]_vars
    PROVE  FromGateway'
<1> USE DEF IInv
<1>0. /\ syncs \in [0 .. MaxSaves -> [pc : {"idle", "fetch", "list", "meta"},
                                      url : Gateways \cup {None}]]
      /\ mem \in Contents /\ crossed \in BOOLEAN /\ MaxSaves \in Nat
  BY MobileAssumption DEF StoresTyped, RestTyped
<1>1. CASE UrlSaved
  <2> DEFINE k == Head(replies).id
  <2>1. /\ syncs' = [syncs EXCEPT ![k] = [pc |-> "fetch", url |-> mem.url]]
        /\ fresh' = FALSE /\ mem' = mem
        /\ crossed' = \E m \in DOMAIN syncs : Fetching(m) /\ (crossed \/ syncs[m].url # mem.url)
    BY <1>1 DEF UrlSaved, StartSync
  <2> HIDE DEF k
  <2>2. ~crossed' => \A n \in 0 .. MaxSaves : Fetching(n) => syncs[n].url = mem.url
    BY <1>0, <2>1
  <2>3. ~crossed' => \A n \in 0 .. MaxSaves : Fetching(n)' => syncs'[n].url = mem'.url
    BY <1>0, <2>1, <2>2 DEF Fetching
  <2>4. QED
    BY <2>1, <2>3 DEF FromGateway
<1>2. CASE Launch
  <2>1. fresh' = FALSE /\ mem'.url = prefs.url
    BY <1>2 DEF Launch, Resting, StoresTyped, Contents
  <2>2. /\ syncs = [n \in 0 .. MaxSaves |-> Idle]
        /\ syncs' = [syncs EXCEPT ![0] = [pc |-> "fetch", url |-> prefs.url]]
    BY <1>2 DEF Launch, Resting
  <2>3. \A n \in 0 .. MaxSaves : Fetching(n)' => syncs'[n].url = prefs.url
    BY <1>0, <2>2 DEF Fetching, Idle
  <2>4. QED
    BY <2>1, <2>3 DEF FromGateway
<1>3. CASE Dies
  BY <1>0, <1>3 DEF Dies, FromGateway, Fetching, Idle
<1> SUFFICES ASSUME ~UrlSaved, ~Launch, ~Dies, ~crossed', Settled'
             PROVE  FromGateway'
  BY <1>1, <1>2, <1>3 DEF FromGateway
<1>4. Settled
  BY StillUnsettled
<1>5. ASSUME mem'.url = mem.url, mem'.list = mem.list, mem'.meta = mem.meta,
             alive' => alive, fresh' = fresh, crossed' = crossed,
             \A n \in 0 .. MaxSaves : Fetching(n)' => Fetching(n) /\ syncs'[n].url = syncs[n].url
      PROVE  FromGateway'
  BY <1>4, <1>5 DEF FromGateway
<1>6. ASSUME mem'.url = mem.url, mem'.list = mem.list, mem'.meta = mem.meta,
             alive' => alive, UNCHANGED syncVars
      PROVE  FromGateway'
  BY <1>5, <1>6 DEF syncVars, Fetching
<1>7. CASE PlatformWrites \/ FileWritten \/ UNCHANGED vars
  BY <1>6, <1>7 DEF PlatformWrites, FileWritten, vars, stores
<1>8. CASE StartCheck \/ CheckErrs \/ Share \/ AskDeep \/ DeepFails \/ LeaveScreen
  BY <1>6, <1>8 DEF StartCheck, CheckErrs, Share, AskDeep, DeepFails, LeaveScreen, stores
<1>9. CASE CheckSaved \/ DeepSaved
  BY <1>6, <1>9 DEF CheckSaved, DeepSaved
<1>10. CASE CheckJudged \/ LocalJudged \/ DeepJudged \/ ClearHistory
  BY <1>0, <1>6, <1>10
     DEF CheckJudged, LocalJudged, DeepJudged, ClearHistory, Record, Store, Contents
<1>11. CASE Family
  <2>1. SendsFamily /\ UNCHANGED <<alive, syncVars>>
    BY <1>11, FamilyChanges, FamilyActs
  <2>2. QED
    BY <1>0, <1>6, <2>1 DEF SendsFamily, Sends, Store, Contents
<1>12. ASSUME NEW u \in Gateways, SetBaseUrl(u)
       PROVE  FALSE
  <2>w. PICK w : w = For("url", saves + 1)
    OBVIOUS
  <2>1. w.what = "url" /\ w.id = saves + 1
    BY <2>w DEF For
  <2>2. w \notin Awaited
    BY <2>1, AwaitedTyped DEF Awaits, RestTyped
  <2>3. Awaited' = Awaited \cup ({w} \ {Nothing})
    BY <1>12, <2>w, <2>2, AwaitedAfterSend DEF SetBaseUrl, Store
  <2>4. w \in Awaited'
    BY <2>1, <2>3 DEF Nothing
  <2>5. QED
    BY <2>1, <2>4 DEF Settled
<1>13. CASE ListSaved
  BY <1>0, <1>5, <1>13 DEF ListSaved, Fetching
<1>14. CASE MetaSaved
  BY <1>0, <1>5, <1>14 DEF MetaSaved, Fetching, Idle
<1>15. ASSUME NEW n \in 0 .. MaxSaves, SyncFails(n)
       PROVE  FromGateway'
  BY <1>0, <1>5, <1>15 DEF SyncFails, stores, Fetching, Idle
<1>16. ASSUME NEW n \in 0 .. MaxSaves, SnapshotArrives(n)
       PROVE  FromGateway'
  <2>1. /\ mem' = [mem EXCEPT !.list = syncs[n].url, !.meta = syncs[n].url]
        /\ syncs' = [syncs EXCEPT ![n].pc = "list"] /\ crossed' = crossed /\ Fetching(n)
    BY <1>16 DEF SnapshotArrives
  <2>2. \A m \in 0 .. MaxSaves : Fetching(m) => syncs[m].url = mem.url
    BY <1>4, <2>1 DEF FromGateway
  <2>3. mem'.url = mem.url /\ mem'.list = mem.url /\ mem'.meta = mem.url
    BY <1>0, <2>1, <2>2 DEF Contents
  <2>4. \A m \in 0 .. MaxSaves : Fetching(m)' => Fetching(m) /\ syncs'[m].url = syncs[m].url
    BY <1>0, <2>1 DEF Fetching
  <2>5. QED
    BY <2>2, <2>3, <2>4 DEF FromGateway
<1>17. QED
  BY <1>7, <1>8, <1>9, <1>10, <1>11, <1>12, <1>13, <1>14, <1>15, <1>16 DEF Next, Sync, Check

------------------------------------------------------------------------------
(* Theorems *)

LEMMA Invariant == Spec => []IInv
<1>1. ASSUME IInv, [Next]_vars
      PROVE  IInv'
  <2>1. Shape
    BY <1>1, Shapes
  <2>2. StoresTyped' /\ RestTyped' /\ Owed' /\ Resting'
    BY <1>1, <2>1, StoresStep, RestStep, RestingStep
  <2>3. HistoryIsLast' /\ Histories' /\ Waiting' /\ Attended' /\ Seeded'
    BY <1>1, <2>1, HistoryStep, HistoriesStep, WaitingStep, AttendedStep, SeededStep
  <2>4. Follows' /\ ResultsKept' /\ Consented' /\ FromGateway'
    BY <1>1, <2>1, FollowsStep, ResultsKeptStep, ConsentedStep, FromGatewayStep
  <2>5. QED
    BY <2>2, <2>3, <2>4 DEF IInv
<1>2. QED
  BY <1>1, Initially, PTL DEF Spec

\* Whatever overlaps and whenever the app ends: the preferences follow the memory, the
\* history is the last results, what is shown is stored, nothing is protected without
\* consent, and every answer that is waited for is under way.
THEOREM MobileTheorem == Spec => []MobileInv
<1>1. IInv => ShownIsStored
  BY DEF IInv, ResultsKept, AllKept, KeptIn, ShownIsStored, Kept
<1>2. IInv => MobileInv
  BY <1>1, Typed, AttendedIsAnswered DEF IInv, MobileInv
<1>3. QED
  BY <1>2, Invariant, PTL

\* Once nothing is under way, receivers and app have one list; if no syncs of two
\* addresses overlapped and one succeeded, it is the list of the gateway that is set.
THEOREM GatewayTheorem == Spec => []ListFollowsGateway
<1>1. ASSUME IInv, alive, Quiet
      PROVE  /\ prefs.list = mem.list
             /\ fresh /\ ~crossed => mem.list = mem.url /\ prefs.meta = mem.url
  <2>1. \A f, v : WillHold(prefs, calls, f, v) => prefs[f] = v
    BY <1>1 DEF Quiet, WillHold
  <2>2. "list" \in Fields \ {"meta"}
    BY DEF Fields
  <2>3. prefs.list = mem.list
    BY <1>1, <2>1, <2>2 DEF IInv, Follows
  <2>4. Settled
    BY <1>1 DEF Quiet, Settled, Awaited, Answers
  <2>5. ASSUME fresh, ~crossed
        PROVE  mem.list = mem.url /\ prefs.meta = mem.url
    <3>1. mem.list = mem.url /\ mem.meta = mem.url /\ mem.url \in Gateways
      BY <1>1, <2>4, <2>5, ContentsOf DEF IInv, FromGateway
    <3>2. ~\E n \in DOMAIN syncs : syncs[n].pc = "list"
      BY <1>1 DEF Quiet
    <3>3. prefs.meta = mem.meta \/ mem.meta = MetaOf(mem.list, None)
      BY <1>1, <2>1, <3>2 DEF IInv, Follows
    <3>4. mem.meta # MetaOf(mem.list, None)
      BY <3>1, MobileAssumption DEF MetaOf
    <3>5. QED
      BY <3>1, <3>3, <3>4
  <2>6. QED
    BY <2>3, <2>5
<1>2. IInv => ListFollowsGateway
  BY <1>1 DEF ListFollowsGateway
<1>3. QED
  BY <1>2, Invariant, PTL
==============================================================================
