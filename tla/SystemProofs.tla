---------------------------- MODULE SystemProofs ----------------------------
(***************************************************************************)
(* Proofs about System: every safety property it states, for any clients,  *)
(* keys, files and bounds.  What packing, parsing and mapping make of the  *)
(* names is assumed (NamesFaithful, KeysApart, NamesKept): those are facts *)
(* about the strings of a configuration, which TLC evaluates.  What is     *)
(* proved is that no order of calls, frames, events, timers, breaks,       *)
(* failures and late deletes can turn right names into a wrong system.     *)
(***************************************************************************)
EXTENDS System, SequenceTheorems, TLAPS

----------------------------------------------------------------------------
\* The inductive invariant, in parts.

\* Each variable has an entry for every client.
Shapes ==
  /\ DOMAIN list = Clients /\ DOMAIN link = Clients /\ DOMAIN requests = Clients
  /\ DOMAIN podPathMap = Clients /\ DOMAIN crName = Clients /\ DOMAIN parked = Clients
  /\ DOMAIN inbox = Clients /\ DOMAIN got = Clients /\ DOMAIN asked = Clients

Bounds ==
  /\ calls \in 0..MaxCalls /\ breaks \in 0..MaxBreaks /\ faults \in 0..MaxFaults
  /\ watched \subseteq Dirs \cup Files

\* What is on its way to the proxy was asked for.
Frames(c) ==
  {r \in [type : {"CLEAR", "WATCH", "UNWATCH"}, keys : SUBSET Keys[c]] :
     r.type = "WATCH" => \A k \in r.keys : Path[c][k] \subseteq asked[c]}
RequestsOK ==
  \A c \in Clients :
    /\ list[c] \subseteq Keys[c] /\ \A k \in list[c] : Path[c][k] \subseteq asked[c]
    /\ requests[c] \in Seq(Frames(c))

\* Every entry of a mapping came from a message of its client, about
\* directories that were asked for; the resource is the client's.
Targets(c, d) == {Wire[c][ks].map[d] : ks \in {ks \in SUBSET Keys[c] : d \in Nodes(c, ks)}}
MapOK ==
  \A c \in Clients :
    /\ \A d \in DOMAIN podPathMap[c] : podPathMap[c][d] \in Targets(c, d) /\ (d \in Dirs => d \in asked[c])
    /\ crName[c] # <<>> => crName[c] = Name[c]

\* What a lost connection has left to do is about its own client's keys and
\* resource.
OldOK ==
  \A h \in old :
    /\ DOMAIN h = {"id", "client", "frames", "map", "name", "up"}
    /\ h.client \in Clients /\ h.name \in {<<>>, Name[h.client]}
    /\ h.frames \in Seq([type : {"CLEAR", "WATCH", "UNWATCH"}, keys : SUBSET Keys[h.client]])

\* Redis keeps the order of the reports.
TopicOK ==
  /\ reports \in Seq(Reports) /\ Len(reports) <= MaxReports
  /\ topic \in Seq(1..Len(reports))
  /\ \A m, n \in 1..Len(topic) : m < n => topic[m] < topic[n]

\* Before what is still in the topic.
Older(i) == \A n \in 1..Len(topic) : i < topic[n]
ParkedOK ==
  \A c \in Clients :
    /\ \A i \in parked[c] : i \in 1..Len(reports) /\ reports[i].op = "WRITE" /\ Older(i)
    /\ \A i, j \in parked[c] : i # j => reports[i].file # reports[j].file

\* What the client has been sent and not lost: read, then on its way.
Trail(c) == got[c] \o inbox[c]
SentAs(c, i) == {[id |-> i, name |-> Sent[reports[i].file][p]] : p \in Targets(c, reports[i].dir)}
Explained(c) == {i \in 1..Len(reports) : reports[i].dir \in asked[c]}
Sendable(c) == UNION {SentAs(c, i) : i \in Explained(c)}
\* No event twice, and all but WRITE in order.
Orderly(s) ==
  \A m, n \in 1..Len(s) : m < n =>
    /\ s[m].id # s[n].id
    /\ reports[s[m].id].op # "WRITE" /\ reports[s[n].id].op # "WRITE" => s[m].id < s[n].id
TrailsOK ==
  \A c \in Clients :
    /\ got[c] \in Seq(Sendable(c)) /\ inbox[c] \in Seq(Sendable(c))
    /\ Orderly(Trail(c))
    /\ \A n \in 1..Len(Trail(c)) : Older(Trail(c)[n].id) /\ Trail(c)[n].id \notin parked[c]

SystemInv == Shapes /\ Bounds /\ RequestsOK /\ MapOK /\ OldOK /\ TopicOK /\ ParkedOK /\ TrailsOK

\* For ResourceMatchesList.  The n-th request is the last one about k.
LastAbout(c, k, n) ==
  /\ n \in 1..Len(requests[c]) /\ k \in requests[c][n].keys
  /\ \A m \in 1..Len(requests[c]) : m > n => k \notin requests[c][m].keys
Unmentioned(c, k) == \A n \in 1..Len(requests[c]) : k \notin requests[c][n].keys

\* The last request about a key agrees with the list; once there is none, the
\* mapping of a live connection does, unless the last one found no pod.
Agrees(c, k) ==
  /\ \A n \in 1..Len(requests[c]) :
       LastAbout(c, k, n) => (requests[c][n].type = "WATCH" <=> k \in list[c])
  /\ link[c] /\ Unmentioned(c, k) /\ k \notin unread[c] =>
       IF k \in list[c] THEN Nodes(c, {k}) \subseteq DOMAIN podPathMap[c]
       ELSE Nodes(c, {k}) \cap DOMAIN podPathMap[c] = {}
\* A CLEAR comes before everything.
ClearFirst(c) ==
  /\ \A n \in 1..Len(requests[c]) : requests[c][n].type = "CLEAR" =>
       n = 1 /\ requests[c][n].keys = {} /\ DOMAIN podPathMap[c] = {}
  /\ fresh[c] => ~link[c] /\ \A n \in 1..Len(requests[c]) : requests[c][n].type # "CLEAR"
Follows(c) ==
  /\ ~link[c] => DOMAIN podPathMap[c] = {}
  /\ \A p \in DOMAIN podPathMap[c] : \E k \in Keys[c] : p \in Nodes(c, {k})
  /\ ClearFirst(c)
  /\ \A k \in Keys[c] : Agrees(c, k)
\* The resource is what the mapping says, unless it is known to be outdated.
Recorded ==
  \A c \in Clients : DOMAIN podPathMap[c] # {} =>
    /\ crName[c] = Name[c]
    /\ Name[c] \notin outdated => Name[c] \in DOMAIN crs /\ crs[Name[c]] = DOMAIN podPathMap[c]
ResourceInv ==
  DOMAIN fresh = Clients /\ DOMAIN unread = Clients /\ (\A c \in Clients : Follows(c)) /\ Recorded

----------------------------------------------------------------------------
\* Sequences.

\* A sequence over a set is one over a larger set.
LEMMA SeqWiden ==
  ASSUME NEW S, NEW T, S \subseteq T, NEW s \in Seq(S)
  PROVE  s \in Seq(T)
<1>1. Len(s) \in Nat /\ \A n \in 1..Len(s) : s[n] \in S
  OBVIOUS
<1>2. s = [n \in 1..Len(s) |-> s[n]]
  OBVIOUS
<1> QED BY <1>1, <1>2

\* What sequences are made of: a queue without its head, or without a prefix.
LEMMA SeqParts ==
  ASSUME NEW S, NEW s \in Seq(S)
  PROVE  /\ <<>> \in Seq(S)
         /\ s # <<>> => Head(s) \in S /\ Tail(s) \in Seq(S)
         /\ \A n \in 0..Len(s) : SubSeq(s, n + 1, Len(s)) \in Seq(S)
<1>1. \A n \in 0..Len(s) : SubSeq(s, n + 1, Len(s)) \in Seq(S)
  BY SubSeqProperties
<1> QED BY <1>1, HeadTailProperties

\* Reading the head of an inbox leaves the trail as it is.
LEMMA TrailOfReceive ==
  ASSUME NEW S, NEW a \in Seq(S), NEW b \in Seq(S), b # <<>>
  PROVE  Append(a, Head(b)) \o Tail(b) = a \o b
<1>1. Head(b) \in S /\ Tail(b) \in Seq(S) /\ Append(a, Head(b)) \in Seq(S)
  BY HeadTailProperties, AppendProperties
<1>2. DOMAIN (Append(a, Head(b)) \o Tail(b)) = 1..Len(a) + Len(b) /\ DOMAIN (a \o b) = 1..Len(a) + Len(b)
  BY <1>1
<1>3. \A n \in 1..Len(a) + Len(b) : (Append(a, Head(b)) \o Tail(b))[n] = (a \o b)[n]
  BY <1>1
<1>4. Append(a, Head(b)) \o Tail(b) \in Seq(S) /\ a \o b \in Seq(S)
  BY <1>1, ConcatProperties
<1> QED BY <1>2, <1>3, <1>4, SeqEqual

\* A queue with an item before it, or after it.
LEMMA Enclosed ==
  ASSUME NEW S, NEW q \in Seq(S), NEW x \in S
  PROVE  /\ <<x>> \o q \in Seq(S) /\ Len(<<x>> \o q) = Len(q) + 1 /\ (<<x>> \o q)[1] = x
         /\ \A n \in 1..Len(q) : (<<x>> \o q)[n + 1] = q[n]
         /\ q \o <<x>> \in Seq(S) /\ Len(q \o <<x>>) = Len(q) + 1 /\ (q \o <<x>>)[Len(q) + 1] = x
         /\ \A n \in 1..Len(q) : (q \o <<x>>)[n] = q[n]
         /\ <<>> \o q = q /\ q \o <<>> = q
  OBVIOUS

\* An index of a sequence with one more item is the last, or an index before.
LEMMA EndOrBefore ==
  ASSUME NEW l \in Nat, NEW n \in 1..l + 1
  PROVE  n = l + 1 \/ n \in 1..l
  OBVIOUS

\* The trail goes on with the head of the inbox.
LEMMA TrailSplit ==
  ASSUME NEW S, NEW a \in Seq(S), NEW b \in Seq(S), b # <<>>
  PROVE  /\ Len(a) \in Nat /\ Len(a) + 1 \in 1..Len(a \o b) /\ (a \o b)[Len(a) + 1] = Head(b)
         /\ \A n \in 1..Len(a) : n \in 1..Len(a \o b) /\ (a \o b)[n] = a[n]
  OBVIOUS

\* A frame added to the inbox is added to the trail.
Extends(t, s, x) == Len(t) = Len(s) + 1 /\ t[Len(s) + 1] = x /\ \A n \in 1..Len(s) : t[n] = s[n]
LEMMA TrailOfSend ==
  ASSUME NEW S, NEW a \in Seq(S), NEW b \in Seq(S), NEW x \in S
  PROVE  Extends(a \o (b \o <<x>>), a \o b, x)
  BY DEF Extends

----------------------------------------------------------------------------
\* The parts of the invariant, step by step.

\* Nothing is under way at first.
LEMMA InitInv == Init => SystemInv
<1> SUFFICES ASSUME Init PROVE SystemInv
  OBVIOUS
<1> USE DEF Init, Empty
<1>1. Shapes
  BY DEF Shapes
<1>2. Bounds
  BY BoundAssumption DEF Bounds
<1>3. RequestsOK
  BY SeqParts DEF RequestsOK
<1>4. MapOK
  BY DEF MapOK
<1>5. OldOK /\ TopicOK
  BY BoundAssumption DEF OldOK, TopicOK
<1>6. ParkedOK
  BY DEF ParkedOK
<1>7. TrailsOK
  <2> SUFFICES ASSUME NEW c \in Clients
               PROVE  got[c] = <<>> /\ inbox[c] = <<>> /\ <<>> \in Seq(Sendable(c)) /\ Trail(c) = <<>>
    BY DEF TrailsOK, Orderly
  <2>1. got[c] = <<>> /\ inbox[c] = <<>>
    OBVIOUS
  <2>2. <<>> \in Seq(Sendable(c))
    OBVIOUS
  <2> QED BY <2>1, <2>2 DEF Trail
<1> QED BY <1>1, <1>2, <1>3, <1>4, <1>5, <1>6, <1>7 DEF SystemInv

\* Each part depends on a few variables only.
LEMMA FrameRequests == RequestsOK /\ UNCHANGED <<list, asked, requests>> => RequestsOK'
  BY DEF RequestsOK, Frames
LEMMA FrameMap == MapOK /\ UNCHANGED <<podPathMap, crName, asked>> => MapOK'
  BY DEF MapOK
LEMMA FrameOld == OldOK /\ UNCHANGED old => OldOK'
  BY DEF OldOK
LEMMA FrameTopic == TopicOK /\ UNCHANGED <<reports, topic>> => TopicOK'
  BY DEF TopicOK
LEMMA FrameParked == ParkedOK /\ UNCHANGED <<reports, topic, parked>> => ParkedOK'
  BY DEF ParkedOK, Older
LEMMA FrameTrails == TrailsOK /\ UNCHANGED <<got, inbox, reports, topic, parked, asked>> => TrailsOK'
<1> SUFFICES ASSUME TrailsOK, UNCHANGED <<got, inbox, reports, topic, parked, asked>> PROVE TrailsOK'
  OBVIOUS
<1> SUFFICES ASSUME NEW c \in Clients
             PROVE  /\ got'[c] \in Seq(Sendable(c)') /\ inbox'[c] \in Seq(Sendable(c)')
                    /\ Orderly(Trail(c))'
                    /\ \A n \in 1..Len(Trail(c)') : Older(Trail(c)[n].id)' /\ Trail(c)'[n].id \notin parked'[c]
  BY DEF TrailsOK
<1>1. Sendable(c)' = Sendable(c)
  BY DEF Sendable, SentAs, Explained
<1>2. Trail(c)' = Trail(c)
  BY DEF Trail
<1>3. got'[c] \in Seq(Sendable(c)') /\ inbox'[c] \in Seq(Sendable(c)')
  BY <1>1 DEF TrailsOK
<1>4. Orderly(Trail(c))'
  BY <1>2 DEF TrailsOK, Orderly
<1>5. \A n \in 1..Len(Trail(c)') : Older(Trail(c)[n].id)' /\ Trail(c)'[n].id \notin parked'[c]
  BY <1>2 DEF TrailsOK, Older
<1> QED BY <1>3, <1>4, <1>5

\* What may be sent may be sent later.
LEMMA SendableGrows ==
  ASSUME NEW c \in Clients, asked[c] \subseteq asked'[c], Len(reports) \in Nat, Len(reports') \in Nat,
         Len(reports) <= Len(reports'), \A i \in 1..Len(reports) : reports'[i] = reports[i]
  PROVE  Sendable(c) \subseteq Sendable(c)'
<1>1. \A i \in 1..Len(reports) : SentAs(c, i)' = SentAs(c, i)
  BY DEF SentAs
<1>2. Explained(c) \subseteq Explained(c)' /\ Explained(c) \subseteq 1..Len(reports)
  BY DEF Explained
<1> QED BY <1>1, <1>2 DEF Sendable

\* What is in Sendable.
LEMMA SendableFacts ==
  ASSUME NEW c, NEW m
  PROVE  m \in Sendable(c) <=>
           \E i \in 1..Len(reports) : \E p \in Targets(c, reports[i].dir) :
             reports[i].dir \in asked[c] /\ m = [id |-> i, name |-> Sent[reports[i].file][p]]
<1>1. m \in Sendable(c) <=> \E i \in Explained(c) : m \in SentAs(c, i)
  BY DEF Sendable
<1>2. \A i : m \in SentAs(c, i) <=>
        \E p \in Targets(c, reports[i].dir) : m = [id |-> i, name |-> Sent[reports[i].file][p]]
  BY DEF SentAs
<1>3. \A i : i \in Explained(c) <=> i \in 1..Len(reports) /\ reports[i].dir \in asked[c]
  BY DEF Explained
<1> QED BY <1>1, <1>2, <1>3

\* A call only adds to what is asked for, so what was explained stays so.
LEMMA CallInv ==
  ASSUME SystemInv, NEW c \in Clients, NEW k \in Keys[c], NEW type \in {"WATCH", "UNWATCH"}, Call(c, type, k)
  PROVE  SystemInv'
<1> USE DEF Call, SystemInv, Shapes
<1>1. Shapes'
  BY DEF helperVars
<1>2. Bounds'
  BY BoundAssumption DEF Bounds, nodeVars, oldVars
<1>3. \A d \in Clients : asked[d] \subseteq asked'[d]
  OBVIOUS
<1>4. type = "WATCH" => Path[c][k] \subseteq asked'[c]
  OBVIOUS
<1>5. RequestsOK'
  <2> SUFFICES ASSUME NEW d \in Clients
               PROVE  /\ list'[d] \subseteq Keys[d] /\ \A j \in list'[d] : Path[d][j] \subseteq asked'[d]
                      /\ requests'[d] \in Seq(Frames(d)')
    BY DEF RequestsOK
  <2>1. list'[d] \subseteq Keys[d] /\ \A j \in list'[d] : Path[d][j] \subseteq asked'[d]
    BY <1>3, <1>4 DEF RequestsOK
  <2>2. Frames(d) \subseteq Frames(d)'
    BY <1>3 DEF Frames
  <2>3. requests[d] \in Seq(Frames(d)')
    BY <2>2, SeqWiden DEF RequestsOK
  <2>4. Frame(type, {k}) \in Frames(c)'
    BY <1>4 DEF Frame, Frames
  <2> QED BY <2>1, <2>3, <2>4
<1>6. MapOK'
  BY <1>3 DEF MapOK, helperVars
<1>7. OldOK' /\ TopicOK' /\ ParkedOK'
  BY FrameOld, FrameTopic, FrameParked DEF helperVars, oldVars, nodeVars
<1>8. TrailsOK'
  <2>1. UNCHANGED <<got, inbox, reports, topic, parked>>
    BY DEF helperVars, nodeVars
  <2>2. \A d \in Clients : Sendable(d) \subseteq Sendable(d)'
    BY <2>1, <1>3, SendableGrows DEF TopicOK
  <2>3. \A d \in Clients : got'[d] \in Seq(Sendable(d)') /\ inbox'[d] \in Seq(Sendable(d)')
    BY <2>1, <2>2, SeqWiden DEF TrailsOK
  <2> QED BY <2>1, <2>3 DEF TrailsOK, Trail, Orderly, Older
<1> QED BY <1>1, <1>2, <1>5, <1>6, <1>7, <1>8

\* A connection queues CLEAR and the list, which has been asked for.
LEMMA ConnectInv ==
  ASSUME SystemInv, NEW c \in Clients, Connect(c)
  PROVE  SystemInv'
<1> USE DEF Connect, Begin, SystemInv, Shapes
<1>1. Shapes'
  BY DEF helperVars
<1>2. Bounds'
  BY DEF Bounds, nodeVars, oldVars
<1>3. RequestsOK'
  <2> DEFINE clear == IF fresh[c] THEN <<Frame("CLEAR", {})>> ELSE <<>>
             replay == IF list[c] = {} THEN <<>> ELSE <<Frame("WATCH", list[c])>>
  <2>1. Frame("CLEAR", {}) \in Frames(c) /\ Frame("WATCH", list[c]) \in Frames(c)
    BY DEF Frame, Frames, RequestsOK
  <2>2. clear \in Seq(Frames(c)) /\ replay \in Seq(Frames(c)) /\ requests[c] \in Seq(Frames(c))
    BY <2>1 DEF RequestsOK
  <2>3. requests' = [requests EXCEPT ![c] = clear \o requests[c] \o replay]
    OBVIOUS
  <2> HIDE DEF clear, replay
  <2>4. clear \o requests[c] \o replay \in Seq(Frames(c))
    BY <2>2, ConcatProperties
  <2>5. \A d \in Clients : Frames(d)' = Frames(d)
    BY DEF Frames
  <2>6. \A d \in Clients : requests'[d] \in Seq(Frames(d)')
    BY <2>3, <2>4, <2>5 DEF RequestsOK
  <2> QED BY <2>6 DEF RequestsOK
<1>4. MapOK' /\ OldOK' /\ TopicOK' /\ ParkedOK' /\ TrailsOK'
  BY FrameMap, FrameOld, FrameTopic, FrameParked, FrameTrails DEF helperVars, oldVars, nodeVars
<1> QED BY <1>1, <1>2, <1>3, <1>4

\* What is left of a connection differs from it in the mapping at most.
LEMMA LeftOK ==
  ASSUME NEW h, DOMAIN h = {"id", "client", "frames", "map", "name", "up"}, NEW g \in Left(h)
  PROVE  /\ DOMAIN g = DOMAIN h
         /\ g.client = h.client /\ g.name = h.name /\ g.frames = h.frames
  BY DEF Left

\* A break leaves the first requests to the old connection and loses the next.
LEMMA BreakEffect ==
  ASSUME NEW c \in Clients, Break(c)
  PROVE  \E m \in 0..Len(requests[c]) : \E n \in 0..m :
           /\ requests' = [requests EXCEPT ![c] = SubSeq(@, m + 1, Len(@))]
           /\ old' = old \cup Left([id |-> breaks, client |-> c, frames |-> SubSeq(requests[c], 1, n),
                                    map |-> podPathMap[c], name |-> crName[c], up |-> TRUE])
  BY DEF Break

LEMMA BreakOld ==
  ASSUME SystemInv, NEW c \in Clients, Break(c)
  PROVE  OldOK'
<1> DEFINE F == [type : {"CLEAR", "WATCH", "UNWATCH"}, keys : SUBSET Keys[c]]
<1>1. PICK m \in 0..Len(requests[c]) : \E n \in 0..m :
        old' = old \cup Left([id |-> breaks, client |-> c, frames |-> SubSeq(requests[c], 1, n),
                              map |-> podPathMap[c], name |-> crName[c], up |-> TRUE])
  BY BreakEffect
<1>2. PICK n \in 0..m :
        old' = old \cup Left([id |-> breaks, client |-> c, frames |-> SubSeq(requests[c], 1, n),
                              map |-> podPathMap[c], name |-> crName[c], up |-> TRUE])
  BY <1>1
<1> DEFINE h == [id |-> breaks, client |-> c, frames |-> SubSeq(requests[c], 1, n),
                 map |-> podPathMap[c], name |-> crName[c], up |-> TRUE]
<1>3. requests[c] \in Seq(Frames(c)) /\ Len(requests[c]) \in Nat
  BY DEF SystemInv, RequestsOK
<1>4. Frames(c) \subseteq F
  BY DEF Frames
<1>5. n \in 0..Len(requests[c])
  BY <1>3
<1> HIDE DEF F
<1>6. requests[c] \in Seq(F)
  BY <1>3, <1>4, SeqWiden
<1>7. SubSeq(requests[c], 1, n) \in Seq(F)
  BY <1>5, <1>6, SubSeqProperties
<1>8. crName[c] \in {<<>>, Name[c]}
  BY DEF SystemInv, MapOK
<1>9. /\ DOMAIN h = {"id", "client", "frames", "map", "name", "up"}
      /\ h.client = c /\ h.name \in {<<>>, Name[c]} /\ h.frames \in Seq(F)
  BY <1>7, <1>8
<1>10. old' = old \cup Left(h)
  BY <1>2
<1> HIDE DEF h
<1>11. ASSUME NEW g \in Left(h)
       PROVE  /\ DOMAIN g = {"id", "client", "frames", "map", "name", "up"}
              /\ g.client = c /\ g.name \in {<<>>, Name[c]} /\ g.frames \in Seq(F)
  BY <1>9, LeftOK
<1> USE DEF F
<1> QED BY <1>10, <1>11 DEF SystemInv, OldOK

\* A break cuts the trail off after what has been read, which stays orderly.
LEMMA BreakInv ==
  ASSUME SystemInv, NEW c \in Clients, Break(c)
  PROVE  SystemInv'
<1> USE DEF Break, SystemInv, Shapes
<1>1. Shapes'
  BY DEF clientVars
<1>2. Bounds'
  BY BoundAssumption DEF Bounds, nodeVars, clientVars
<1>3. RequestsOK'
  <2>1. \A d \in Clients : Frames(d)' = Frames(d)
    BY DEF Frames, clientVars
  <2>2. \A m \in 0..Len(requests[c]) : SubSeq(requests[c], m + 1, Len(requests[c])) \in Seq(Frames(c))
    BY SeqParts DEF RequestsOK
  <2>3. PICK m \in 0..Len(requests[c]) : requests' = [requests EXCEPT ![c] = SubSeq(@, m + 1, Len(@))]
    OBVIOUS
  <2>4. \A d \in Clients : requests'[d] \in Seq(Frames(d)')
    BY <2>1, <2>2, <2>3 DEF RequestsOK
  <2> QED BY <2>4 DEF RequestsOK, clientVars
<1>4. MapOK'
  BY DEF MapOK, Empty, clientVars
<1>5. TopicOK'
  BY FrameTopic DEF nodeVars
<1>6. ParkedOK'
  BY DEF ParkedOK, Older, nodeVars
<1>7. TrailsOK'
  <2> SUFFICES ASSUME NEW d \in Clients
               PROVE  /\ got'[d] \in Seq(Sendable(d)') /\ inbox'[d] \in Seq(Sendable(d)')
                      /\ Orderly(Trail(d))'
                      /\ \A n \in 1..Len(Trail(d)') : Older(Trail(d)[n].id)' /\ Trail(d)'[n].id \notin parked'[d]
    BY DEF TrailsOK
  <2>1. Sendable(d)' = Sendable(d)
    BY DEF Sendable, SentAs, Explained, clientVars, nodeVars
  <2>2. inbox'[d] \in {inbox[d], <<>>} /\ got'[d] = got[d] /\ parked'[d] \subseteq parked[d]
    OBVIOUS
  <2>3. got'[d] \in Seq(Sendable(d)') /\ inbox'[d] \in Seq(Sendable(d)')
    BY <2>1, <2>2, SeqParts DEF TrailsOK
  <2>4. Len(Trail(d)') <= Len(Trail(d)) /\ Len(Trail(d)') \in Nat /\ Len(Trail(d)) \in Nat
    <3>1. got[d] \in Seq(Sendable(d)) /\ inbox[d] \in Seq(Sendable(d))
      BY DEF TrailsOK
    <3> QED BY <2>2, <3>1 DEF Trail
  <2>5. \A n \in 1..Len(Trail(d)') : Trail(d)'[n] = Trail(d)[n]
    <3>1. got[d] \in Seq(Sendable(d)) /\ inbox[d] \in Seq(Sendable(d))
      BY DEF TrailsOK
    <3> QED BY <2>2, <3>1 DEF Trail
  <2>6. UNCHANGED <<reports, topic>>
    BY DEF nodeVars
  <2>7. Orderly(Trail(d)) /\ \A n \in 1..Len(Trail(d)) : Older(Trail(d)[n].id) /\ Trail(d)[n].id \notin parked[d]
    BY DEF TrailsOK
  <2>8. 1..Len(Trail(d)') \subseteq 1..Len(Trail(d))
    BY <2>4
  <2> HIDE DEF Break, SystemInv
  <2>9. Orderly(Trail(d))'
    BY <2>5, <2>6, <2>7, <2>8 DEF Orderly
  <2>10. \A n \in 1..Len(Trail(d)') : Older(Trail(d)[n].id)' /\ Trail(d)'[n].id \notin parked'[d]
    BY <2>2, <2>5, <2>6, <2>7, <2>8 DEF Older
  <2> QED BY <2>3, <2>9, <2>10
<1>8. OldOK'
  BY BreakOld
<1> QED BY <1>1, <1>2, <1>3, <1>4, <1>5, <1>6, <1>7, <1>8

\* A read moves a frame within the trail.
LEMMA ReceiveInv ==
  ASSUME SystemInv, NEW c \in Clients, Receive(c)
  PROVE  SystemInv'
<1> USE DEF Receive, SystemInv, Shapes
<1>1. Shapes'
  BY DEF clientVars, helperVars
<1>2. Bounds'
  BY DEF Bounds, oldVars, nodeVars, clientVars
<1>3. RequestsOK' /\ MapOK' /\ OldOK' /\ TopicOK' /\ ParkedOK'
  BY FrameRequests, FrameMap, FrameOld, FrameTopic, FrameParked
  DEF clientVars, helperVars, oldVars, nodeVars
<1>4. TrailsOK'
  <2> SUFFICES ASSUME NEW d \in Clients
               PROVE  /\ got'[d] \in Seq(Sendable(d)') /\ inbox'[d] \in Seq(Sendable(d)')
                      /\ Orderly(Trail(d))'
                      /\ \A n \in 1..Len(Trail(d)') : Older(Trail(d)[n].id)' /\ Trail(d)'[n].id \notin parked'[d]
    BY DEF TrailsOK
  <2>1. Sendable(d)' = Sendable(d)
    BY DEF Sendable, SentAs, Explained, clientVars, nodeVars
  <2>2. got[d] \in Seq(Sendable(d)) /\ inbox[d] \in Seq(Sendable(d))
    BY DEF TrailsOK
  <2>3. IF d = c THEN got'[d] = Append(got[d], Head(inbox[d])) /\ inbox'[d] = Tail(inbox[d]) /\ inbox[d] # <<>>
        ELSE got'[d] = got[d] /\ inbox'[d] = inbox[d]
    OBVIOUS
  <2>4. got'[d] \in Seq(Sendable(d)) /\ inbox'[d] \in Seq(Sendable(d))
    BY <2>2, <2>3, SeqParts, AppendProperties
  <2>5. inbox[d] # <<>> => Append(got[d], Head(inbox[d])) \o Tail(inbox[d]) = got[d] \o inbox[d]
    BY <2>2, TrailOfReceive
  <2>6. Trail(d)' = Trail(d)
    BY <2>3, <2>5 DEF Trail
  <2>7. UNCHANGED <<reports, topic, parked>>
    BY DEF nodeVars, helperVars
  <2>8. Orderly(Trail(d))'
    BY <2>6, <2>7 DEF TrailsOK, Orderly
  <2>9. \A n \in 1..Len(Trail(d)') : Older(Trail(d)[n].id)' /\ Trail(d)'[n].id \notin parked'[d]
    BY <2>6, <2>7 DEF TrailsOK, Older
  <2> QED BY <2>1, <2>4, <2>8, <2>9
<1> QED BY <1>1, <1>2, <1>3, <1>4

\* A directory of the node that a message's keys are mapped to is one that they
\* stand for.
LEMMA NodesAsked ==
  ASSUME NamesFaithful, NEW c \in Clients, NEW ks \in SUBSET Keys[c], NEW d \in Nodes(c, ks), d \in Dirs
  PROVE  \E k \in ks : d \in Path[c][k]
<1>1. Nodes(c, ks) = UNION {Nodes(c, {k}) : k \in ks}
  BY Zenon DEF NamesFaithful
<1>2. PICK k \in ks : d \in Nodes(c, {k})
  BY <1>1
<1>3. {Clean(p) : p \in Nodes(c, {k})} = Path[c][k]
  BY <1>2, Zenon DEF NamesFaithful
<1>4. Clean(d) \in Path[c][k]
  BY <1>2, <1>3
<1>5. Clean(d) = d
  BY Zenon DEF NamesFaithful
<1> QED BY <1>4, <1>5

\* A message changes the mapping by entries of its own client, which have been
\* asked for, if it changes anything.
LEMMA ProcessInv ==
  ASSUME NamesFaithful, SystemInv, NEW c \in Clients,
         ProcessWatcherMessage(c) \/ ReadFails(c) \/ WriteFails(c)
  PROVE  SystemInv'
<1> DEFINE r == Head(requests[c])
           map == IF r.type = "WATCH" THEN Merge(Wire[c][r.keys].map, podPathMap[c])
                  ELSE Restrict(podPathMap[c], DOMAIN podPathMap[c] \ DOMAIN Wire[c][r.keys].map)
<1> USE DEF SystemInv
<1>1. /\ requests' = [requests EXCEPT ![c] = Tail(@)] /\ requests[c] # <<>>
      /\ podPathMap' = podPathMap \/ podPathMap' = [podPathMap EXCEPT ![c] = map]
      /\ crName' = crName \/ crName' = [crName EXCEPT ![c] = Wire[c][r.keys].name]
      /\ UNCHANGED <<list, asked, calls, link, parked, inbox, watched, reports, topic, got, breaks, old>>
  BY DEF ProcessWatcherMessage, ReadFails, WriteFails, After, helperVars, clientVars, nodeVars, oldVars
<1>2. faults' = faults \/ (faults < MaxFaults /\ faults' = faults + 1)
  BY DEF ProcessWatcherMessage, ReadFails, WriteFails
<1>3. r \in Frames(c) /\ Tail(requests[c]) \in Seq(Frames(c))
  BY <1>1, SeqParts DEF RequestsOK
<1>4. r.keys \in SUBSET Keys[c] /\ (r.type = "WATCH" => \A k \in r.keys : Path[c][k] \subseteq asked[c])
  BY <1>3 DEF Frames
<1> HIDE DEF r
<1>5. \A d \in DOMAIN map : map[d] \in Targets(c, d) /\ (d \in Dirs => d \in asked[c])
  <2> SUFFICES ASSUME NEW d \in DOMAIN map PROVE map[d] \in Targets(c, d) /\ (d \in Dirs => d \in asked[c])
    OBVIOUS
  <2>1. CASE r.type = "WATCH" /\ d \in Nodes(c, r.keys)
    <3>1. map[d] = Wire[c][r.keys].map[d]
      BY <2>1 DEF Merge, Nodes
    <3>2. map[d] \in Targets(c, d)
      BY <2>1, <3>1, <1>4 DEF Targets
    <3>3. d \in Dirs => d \in asked[c]
      BY <2>1, <1>4, NodesAsked
    <3> QED BY <3>2, <3>3
  <2>2. CASE ~(r.type = "WATCH" /\ d \in Nodes(c, r.keys))
    <3>1. d \in DOMAIN podPathMap[c] /\ map[d] = podPathMap[c][d]
      BY <2>2 DEF Merge, Nodes, Restrict
    <3> QED BY <3>1 DEF MapOK
  <2> QED BY <2>1, <2>2
<1> HIDE DEF map
<1>6. Shapes'
  BY <1>1 DEF Shapes
<1>7. Bounds'
  BY <1>1, <1>2, BoundAssumption DEF Bounds
<1>8. RequestsOK'
  <2>1. \A d \in Clients : Frames(d)' = Frames(d)
    BY <1>1 DEF Frames
  <2>2. \A d \in Clients : requests'[d] \in Seq(Frames(d)')
    BY <1>1, <1>3, <2>1 DEF RequestsOK, Shapes
  <2> QED BY <1>1, <2>2 DEF RequestsOK
<1>9. MapOK'
  <2>1. Wire[c][r.keys].name = Name[c]
    BY <1>4 DEF NamesFaithful
  <2> QED BY <1>1, <1>5, <2>1 DEF MapOK, Shapes
<1>10. OldOK' /\ TopicOK' /\ ParkedOK' /\ TrailsOK'
  BY <1>1, FrameOld, FrameTopic, FrameParked, FrameTrails
<1> QED BY <1>6, <1>7, <1>8, <1>9, <1>10

\* A lost connection changes no more than resources, and itself.
LEMMA OldInv ==
  ASSUME NamesFaithful, SystemInv, NEW h \in old, OldMessage(h) \/ OldRemove(h) \/ OldFails(h)
  PROVE  SystemInv'
<1>1. UNCHANGED <<list, asked, calls, link, requests, podPathMap, crName, parked, inbox, watched, reports,
                  topic, got, breaks>>
  BY DEF OldMessage, OldRemove, OldFails, clientVars, helperVars, nodeVars
<1> DEFINE F == [type : {"CLEAR", "WATCH", "UNWATCH"}, keys : SUBSET Keys[h.client]]
<1>2. /\ DOMAIN h = {"id", "client", "frames", "map", "name", "up"}
      /\ h.client \in Clients /\ h.name \in {<<>>, Name[h.client]} /\ h.frames \in Seq(F)
  BY DEF SystemInv, OldOK
<1>3. \E g : /\ old' = (old \ {h}) \cup Left(g)
            /\ DOMAIN g = DOMAIN h /\ g.client = h.client
            /\ g.name \in {<<>>, Name[h.client]} /\ g.frames \in Seq(F)
  <2>1. ASSUME h.frames # <<>>, NEW g \in {Handled(h), [h EXCEPT !.frames = Tail(@)]}
        PROVE  /\ DOMAIN g = DOMAIN h /\ g.client = h.client
               /\ g.name \in {<<>>, Name[h.client]} /\ g.frames \in Seq(F)
    <3> DEFINE r == Head(h.frames)
               name == Wire[h.client][r.keys].name
    <3>1. r \in F /\ Tail(h.frames) \in Seq(F)
      BY <1>2, <2>1, SeqParts
    <3>2. name = Name[h.client]
      BY <1>2, <3>1, Zenon DEF NamesFaithful
    <3>3. DOMAIN g = DOMAIN h /\ g.client = h.client /\ g.name \in {h.name, name} /\ g.frames = Tail(h.frames)
      BY <1>2 DEF Handled
    <3> QED BY <1>2, <3>1, <3>2, <3>3
  <2>2. CASE OldMessage(h)
    BY <2>1, <2>2 DEF OldMessage
  <2>3. CASE h.up /\ old' = (old \ {h}) \cup Left([h EXCEPT !.up = FALSE])
    BY <1>2, <2>3
  <2>4. CASE OldRemove(h)
    BY <2>3, <2>4 DEF OldRemove
  <2>5. CASE OldFails(h)
    BY <2>1, <2>3, <2>5 DEF OldFails
  <2> QED BY <2>2, <2>4, <2>5
<1>4. PICK g : /\ old' = (old \ {h}) \cup Left(g)
               /\ DOMAIN g = DOMAIN h /\ g.client = h.client
               /\ g.name \in {<<>>, Name[h.client]} /\ g.frames \in Seq(F)
  BY <1>3
<1>5. ASSUME NEW x \in Left(g)
      PROVE  /\ DOMAIN x = {"id", "client", "frames", "map", "name", "up"}
             /\ x.client = h.client /\ x.name \in {<<>>, Name[h.client]} /\ x.frames \in Seq(F)
  BY <1>2, <1>4, LeftOK
<1>6. OldOK'
  BY <1>2, <1>4, <1>5 DEF SystemInv, OldOK
<1>7. faults' = faults \/ (faults < MaxFaults /\ faults' = faults + 1)
  BY DEF OldMessage, OldRemove, OldFails
<1>8. Shapes' /\ Bounds'
  BY <1>1, <1>7, BoundAssumption DEF SystemInv, Shapes, Bounds
<1> QED
  BY <1>1, <1>6, <1>8, FrameRequests, FrameMap, FrameTopic, FrameParked, FrameTrails DEF SystemInv

\* A sync only watches directories and files that there are.
LEMMA SyncInv ==
  ASSUME SystemInv, SyncWatches \/ SyncMisses
  PROVE  SystemInv'
<1>1. PICK ps \in SUBSET Existing : Sync(ps)
  BY DEF SyncWatches, SyncMisses
<1>2. UNCHANGED <<list, asked, calls, link, requests, podPathMap, crName, parked, inbox, reports,
                  topic, got, breaks, old>>
  BY <1>1 DEF Sync, clientVars, helperVars, oldVars
<1>3. watched' \subseteq watched \cup Dirs \cup Files
  BY <1>1 DEF Sync, Existing
<1>4. faults' = faults \/ (faults < MaxFaults /\ faults' = faults + 1)
  BY DEF SyncWatches, SyncMisses
<1>5. Shapes' /\ Bounds'
  BY <1>2, <1>3, <1>4, BoundAssumption DEF SystemInv, Shapes, Bounds
<1> QED
  BY <1>2, <1>5, FrameRequests, FrameMap, FrameOld, FrameTopic, FrameParked, FrameTrails DEF SystemInv

\* A report is newer than everything that is under way.
LEMMA PublishInv ==
  ASSUME SystemInv, NEW f \in Files, NEW op \in {"WRITE", "OTHER"}, Publish(f, op)
  PROVE  SystemInv'
<1> DEFINE e == [file |-> f, dir |-> KeyOf(f), op |-> op]
<1> USE DEF SystemInv
<1>1. UNCHANGED <<list, asked, calls, link, requests, podPathMap, crName, parked, inbox, watched, got, breaks,
                  old, faults>>
  BY DEF Publish, clientVars, helperVars, oldVars
<1>2. /\ Len(reports) < MaxReports /\ reports' = Append(reports, e)
      /\ topic' = Append(topic, Len(reports) + 1)
  BY DEF Publish
<1>3. e \in Reports
  BY DEF Reports
<1> HIDE DEF e
<1>4. reports \in Seq(Reports) /\ Len(reports) \in Nat /\ topic \in Seq(1..Len(reports)) /\ Len(topic) \in Nat
  BY DEF TopicOK
<1>5. /\ reports' \in Seq(Reports) /\ Len(reports') = Len(reports) + 1
      /\ \A i \in 1..Len(reports) : reports'[i] = reports[i]
  BY <1>2, <1>3, <1>4
<1>6. topic \in Seq(1..Len(reports'))
  BY <1>4, <1>5, SeqWiden
<1>7. /\ topic' \in Seq(1..Len(reports')) /\ Len(topic') = Len(topic) + 1
      /\ topic'[Len(topic) + 1] = Len(reports) + 1
      /\ \A n \in 1..Len(topic) : topic'[n] = topic[n] /\ topic[n] \in 1..Len(reports)
  BY <1>2, <1>4, <1>5, <1>6
<1>8. TopicOK'
  BY <1>2, <1>4, <1>5, <1>7, BoundAssumption DEF TopicOK
<1>9. \A i \in 1..Len(reports) : Older(i) => Older(i)'
  <2> SUFFICES ASSUME NEW i \in 1..Len(reports), Older(i), NEW n \in 1..Len(topic')
               PROVE  i < topic'[n]
    BY DEF Older
  <2>1. CASE n = Len(topic) + 1
    BY <1>4, <1>7, <2>1
  <2>2. CASE n \in 1..Len(topic)
    BY <1>4, <1>7, <2>2 DEF Older
  <2> QED BY <1>4, <1>7, <2>1, <2>2
<1>10. ParkedOK'
  <2>1. \A c \in Clients : \A i \in parked'[c] : i \in 1..Len(reports) /\ reports'[i] = reports[i] /\ Older(i)'
    BY <1>1, <1>5, <1>9 DEF ParkedOK
  <2>2. \A i \in 1..Len(reports) : i \in 1..Len(reports')
    BY <1>4, <1>5
  <2> QED BY <1>1, <2>1, <2>2 DEF ParkedOK
<1>11. TrailsOK'
  <2> SUFFICES ASSUME NEW d \in Clients
               PROVE  /\ got'[d] \in Seq(Sendable(d)') /\ inbox'[d] \in Seq(Sendable(d)')
                      /\ Orderly(Trail(d))'
                      /\ \A n \in 1..Len(Trail(d)') : Older(Trail(d)[n].id)' /\ Trail(d)'[n].id \notin parked'[d]
    BY DEF TrailsOK
  <2>1. Sendable(d) \subseteq Sendable(d)'
    BY <1>1, <1>4, <1>5, SendableGrows
  <2>2. got[d] \in Seq(Sendable(d)) /\ inbox[d] \in Seq(Sendable(d)) /\ Trail(d) \in Seq(Sendable(d))
    BY ConcatProperties DEF TrailsOK, Trail
  <2>3. got'[d] \in Seq(Sendable(d)') /\ inbox'[d] \in Seq(Sendable(d)')
    BY <1>1, <2>1, <2>2, SeqWiden
  <2>4. \A n \in 1..Len(Trail(d)) : Trail(d)[n].id \in 1..Len(reports)
    BY <2>2, SendableFacts
  <2>5. Trail(d)' = Trail(d)
    BY <1>1 DEF Trail
  <2>6. Orderly(Trail(d))'
    <3>1. Orderly(Trail(d))
      BY DEF TrailsOK
    <3> QED BY <1>5, <2>4, <2>5, <3>1 DEF Orderly
  <2>7. \A n \in 1..Len(Trail(d)') : Older(Trail(d)[n].id)' /\ Trail(d)'[n].id \notin parked'[d]
    BY <1>1, <1>9, <2>4, <2>5 DEF TrailsOK
  <2> QED BY <2>3, <2>6, <2>7
<1>12. RequestsOK' /\ MapOK' /\ OldOK'
  BY <1>1, FrameRequests, FrameMap, FrameOld
<1> QED BY <1>1, <1>8, <1>10, <1>11, <1>12 DEF Shapes, Bounds

\* sendEvent, of an event that is new to the client and not out of order.
LEMMA SendInv ==
  ASSUME TrailsOK, MapOK, TopicOK, NEW c \in Clients, NEW i \in 1..Len(reports),
         UNCHANGED <<reports, asked, got>>, inbox'[c] = inbox[c] \o SendEvent(c, i),
         \A n \in 1..Len(Trail(c)) : Trail(c)[n].id # i /\ (reports[i].op # "WRITE" => Trail(c)[n].id < i)
  PROVE  /\ got'[c] \in Seq(Sendable(c)') /\ inbox'[c] \in Seq(Sendable(c)')
         /\ Orderly(Trail(c))'
         /\ \A n \in 1..Len(Trail(c)') :
              Trail(c)'[n].id = i \/ (n \in 1..Len(Trail(c)) /\ Trail(c)'[n] = Trail(c)[n])
<1> DEFINE p == podPathMap[c][reports[i].dir]
           m == [id |-> i, name |-> Sent[reports[i].file][p]]
<1>1. Sendable(c)' = Sendable(c)
  BY DEF Sendable, SentAs, Explained
<1>2. got[c] \in Seq(Sendable(c)) /\ inbox[c] \in Seq(Sendable(c)) /\ Orderly(Trail(c))
  BY DEF TrailsOK
<1>3. Len(Trail(c)) \in Nat
  <2>1. got[c] \o inbox[c] \in Seq(Sendable(c))
    BY <1>2, ConcatProperties
  <2>2. Len(got[c] \o inbox[c]) \in Nat
    BY <2>1, LenProperties, Zenon
  <2> QED BY <2>2, Zenon DEF Trail
<1>4. CASE reports[i].dir \notin DOMAIN podPathMap[c]
  <2>1. inbox'[c] = inbox[c]
    BY <1>4, <1>2 DEF SendEvent
  <2>2. Trail(c)' = Trail(c)
    BY <2>1 DEF Trail
  <2>3. Orderly(Trail(c))'
    BY <1>2, <2>2 DEF Orderly
  <2> QED BY <1>1, <1>2, <2>1, <2>2, <2>3
<1>5. CASE reports[i].dir \in DOMAIN podPathMap[c]
  <2>1. SendEvent(c, i) = <<m>>
    BY <1>5 DEF SendEvent
  <2>2. reports[i] \in Reports
    BY DEF TopicOK
  <2>3. reports[i].dir \in Dirs
    BY <2>2 DEF Reports, Dirs
  <2>4. p \in Targets(c, reports[i].dir) /\ reports[i].dir \in asked[c]
    BY <1>5, <2>3 DEF MapOK
  <2>5. m \in Sendable(c)
    BY <2>4, SendableFacts
  <2>6. m.id = i
    OBVIOUS
  <2> HIDE DEF m, p
  <2>7. inbox'[c] \in Seq(Sendable(c))
    BY <1>2, <2>1, <2>5
  <2>8. Extends(Trail(c)', Trail(c), m)
    <3>1. got'[c] = got[c] /\ inbox'[c] = inbox[c] \o <<m>>
      BY <2>1
    <3>2. Extends(got[c] \o (inbox[c] \o <<m>>), got[c] \o inbox[c], m)
      BY <1>2, <2>5, TrailOfSend
    <3> QED BY <3>1, <3>2, Zenon DEF Trail
  <2> USE DEF Extends
  <2>9. Orderly(Trail(c))'
    <3> SUFFICES ASSUME NEW a \in 1..Len(Trail(c)) + 1, NEW b \in 1..Len(Trail(c)) + 1, a < b
                 PROVE  /\ Trail(c)'[a].id # Trail(c)'[b].id
                        /\ reports[Trail(c)'[a].id].op # "WRITE" /\ reports[Trail(c)'[b].id].op # "WRITE"
                             => Trail(c)'[a].id < Trail(c)'[b].id
      BY <2>8 DEF Orderly
    <3>1. a \in 1..Len(Trail(c)) /\ Trail(c)'[a] = Trail(c)[a]
      BY <1>3, <2>8
    <3>2. CASE b = Len(Trail(c)) + 1
      BY <2>6, <2>8, <3>1, <3>2
    <3>3. CASE b \in 1..Len(Trail(c))
      BY <1>2, <2>8, <3>1, <3>3 DEF Orderly
    <3>4. b = Len(Trail(c)) + 1 \/ b \in 1..Len(Trail(c))
      BY <1>3, EndOrBefore, Zenon
    <3> QED BY <3>2, <3>3, <3>4
  <2>10. \A n \in 1..Len(Trail(c)') :
           Trail(c)'[n].id = i \/ (n \in 1..Len(Trail(c)) /\ Trail(c)'[n] = Trail(c)[n])
    BY <1>3, <2>6, <2>8
  <2> QED BY <1>1, <1>2, <2>7, <2>9, <2>10
<1> QED BY <1>4, <1>5

\* A timer moves a parked WRITE to the end of the trail.
LEMMA FlushInv ==
  ASSUME SystemInv, NEW c \in Clients, NEW i \in Ids, Flush(c, i)
  PROVE  SystemInv'
<1> USE DEF SystemInv
<1>1. UNCHANGED <<list, asked, calls, link, requests, podPathMap, crName, watched, reports, topic, got, breaks,
                  old, faults>>
  BY DEF Flush, Fire, clientVars, oldVars, nodeVars
<1>2. /\ i \in parked[c] /\ parked' = [parked EXCEPT ![c] = @ \ {i}]
      /\ inbox' = [inbox EXCEPT ![c] = @ \o SendEvent(c, i)]
  BY DEF Flush, Fire
<1>3. i \in 1..Len(reports) /\ reports[i].op = "WRITE" /\ Older(i)
  BY <1>2 DEF ParkedOK
<1>4. \A d \in Clients : parked'[d] \subseteq parked[d]
  BY <1>2 DEF Shapes
<1>5. ParkedOK'
  BY <1>1, <1>4 DEF ParkedOK, Older
<1>6. TrailsOK'
  <2> SUFFICES ASSUME NEW d \in Clients
               PROVE  /\ got'[d] \in Seq(Sendable(d)') /\ inbox'[d] \in Seq(Sendable(d)')
                      /\ Orderly(Trail(d))'
                      /\ \A n \in 1..Len(Trail(d)') : Older(Trail(d)[n].id)' /\ Trail(d)'[n].id \notin parked'[d]
    BY DEF TrailsOK
  <2>1. \A j : Older(j)' <=> Older(j)
    BY <1>1 DEF Older
  <2>2. \A n \in 1..Len(Trail(d)) : Older(Trail(d)[n].id) /\ Trail(d)[n].id \notin parked[d]
    BY DEF TrailsOK
  <2>3. CASE d = c
    <3>1. inbox'[c] = inbox[c] \o SendEvent(c, i) /\ parked'[c] = parked[c] \ {i}
      BY <1>2 DEF Shapes
    <3>2. \A n \in 1..Len(Trail(c)) : Trail(c)[n].id # i
      BY <1>2, <2>2, <2>3
    <3>3. /\ got'[c] \in Seq(Sendable(c)') /\ inbox'[c] \in Seq(Sendable(c)')
          /\ Orderly(Trail(c))'
          /\ \A n \in 1..Len(Trail(c)') :
               Trail(c)'[n].id = i \/ (n \in 1..Len(Trail(c)) /\ Trail(c)'[n] = Trail(c)[n])
      BY <1>1, <1>3, <3>1, <3>2, SendInv
    <3>4. \A n \in 1..Len(Trail(c)') : Older(Trail(c)'[n].id) /\ Trail(c)'[n].id \notin parked'[c]
      BY <1>3, <2>2, <2>3, <3>1, <3>3
    <3> QED BY <2>1, <2>3, <3>3, <3>4 DEF Older
  <2>4. CASE d # c
    <3>1. inbox'[d] = inbox[d] /\ got'[d] = got[d]
      BY <1>1, <1>2, <2>4 DEF Shapes
    <3>2. Trail(d)' = Trail(d) /\ Sendable(d)' = Sendable(d)
      BY <1>1, <3>1 DEF Trail, Sendable, SentAs, Explained
    <3>3. Orderly(Trail(d))'
      BY <1>1, <3>2 DEF TrailsOK, Orderly
    <3>4. \A n \in 1..Len(Trail(d)') : Older(Trail(d)'[n].id) /\ Trail(d)'[n].id \notin parked'[d]
      BY <1>4, <2>2, <3>2
    <3> QED BY <1>1, <3>1, <3>2, <3>3, <3>4 DEF TrailsOK, Older
  <2> QED BY <2>3, <2>4
<1>7. RequestsOK' /\ MapOK' /\ OldOK' /\ TopicOK'
  BY <1>1, FrameRequests, FrameMap, FrameOld, FrameTopic
<1>8. Shapes' /\ Bounds'
  BY <1>1, <1>2 DEF Shapes, Bounds
<1> QED BY <1>5, <1>6, <1>7, <1>8

\* The head of the topic is newer than everything sent or parked.
LEMMA DeliverInv ==
  ASSUME SystemInv, Deliver
  PROVE  SystemInv'
<1> USE DEF SystemInv
<1>0. PICK i : i = Head(topic)
  OBVIOUS
<1>1. UNCHANGED <<list, asked, calls, link, requests, podPathMap, crName, watched, reports, got, breaks, old,
                  faults>>
  BY DEF Deliver, clientVars, oldVars, nodeVars
<1>2. topic # <<>> /\ topic' = Tail(topic)
  BY DEF Deliver
<1>3. \/ /\ reports[i].op = "WRITE" /\ inbox' = inbox
         /\ parked' = [c \in Clients |-> IF link[c] THEN Park(c, i) ELSE parked[c]]
      \/ /\ reports[i].op # "WRITE" /\ parked' = parked
         /\ inbox' = [c \in Clients |-> IF link[c] THEN inbox[c] \o SendEvent(c, i) ELSE inbox[c]]
  <2>1. CASE reports[i].op = "WRITE"
    BY <1>0, <2>1 DEF Deliver
  <2>2. CASE reports[i].op # "WRITE"
    BY <1>0, <2>2 DEF Deliver
  <2> QED BY <2>1, <2>2
<1>4. topic \in Seq(1..Len(reports)) /\ Len(topic) \in Nat \ {0} /\ Len(reports) \in Nat
  BY <1>2 DEF TopicOK
<1>5. /\ i = topic[1] /\ i \in 1..Len(reports) /\ topic' \in Seq(1..Len(reports))
      /\ Len(topic') = Len(topic) - 1 /\ \A n \in 1..Len(topic') : topic'[n] = topic[n + 1]
  BY <1>0, <1>2, <1>4
<1>6. TopicOK'
  <2>1. \A n \in 1..Len(topic') : n + 1 \in 1..Len(topic)
    BY <1>4, <1>5
  <2>2. \A m, n \in 1..Len(topic') : m < n => topic'[m] < topic'[n]
    <3> SUFFICES ASSUME NEW m \in 1..Len(topic'), NEW n \in 1..Len(topic'), m < n PROVE topic'[m] < topic'[n]
      OBVIOUS
    <3>1. m + 1 < n + 1 /\ topic'[m] = topic[m + 1] /\ topic'[n] = topic[n + 1]
      BY <1>5
    <3> QED BY <2>1, <3>1 DEF TopicOK
  <2> QED BY <1>1, <1>5, <2>2 DEF TopicOK
<1>7. Older(i)' /\ \A j : Older(j) => Older(j)' /\ j < i
  <2>1. \A n \in 1..Len(topic') : n + 1 \in 1..Len(topic) /\ 1 \in 1..Len(topic) /\ 1 < n + 1
    BY <1>4, <1>5
  <2>2. Older(i)'
    BY <1>5, <2>1 DEF Older, TopicOK
  <2>3. \A j : Older(j) => j < i
    BY <1>4, <1>5 DEF Older
  <2>4. \A j : Older(j) => Older(j)'
    BY <1>5, <2>1 DEF Older
  <2> QED BY <2>2, <2>3, <2>4
<1>8. ParkedOK'
  <2> SUFFICES ASSUME NEW c \in Clients
               PROVE  /\ \A j \in parked'[c] : j \in 1..Len(reports') /\ reports'[j].op = "WRITE" /\ Older(j)'
                      /\ \A j, k \in parked'[c] : j # k => reports'[j].file # reports'[k].file
    BY DEF ParkedOK
  <2>1. parked'[c] = parked[c] \/ (parked'[c] = Park(c, i) /\ reports[i].op = "WRITE")
    BY <1>3
  <2>2. CASE parked'[c] = parked[c]
    BY <1>1, <1>7, <2>2 DEF ParkedOK
  <2>3. CASE parked'[c] = Park(c, i) /\ reports[i].op = "WRITE"
    BY <1>1, <1>5, <1>7, <2>3 DEF ParkedOK, Park
  <2> QED BY <2>1, <2>2, <2>3
<1>9. TrailsOK'
  <2> SUFFICES ASSUME NEW c \in Clients
               PROVE  /\ got'[c] \in Seq(Sendable(c)') /\ inbox'[c] \in Seq(Sendable(c)')
                      /\ Orderly(Trail(c))'
                      /\ \A n \in 1..Len(Trail(c)') : Older(Trail(c)[n].id)' /\ Trail(c)'[n].id \notin parked'[c]
    BY DEF TrailsOK
  <2>1. \A n \in 1..Len(Trail(c)) : Older(Trail(c)[n].id) /\ Trail(c)[n].id \notin parked[c]
    BY DEF TrailsOK
  <2>2. \A n \in 1..Len(Trail(c)) : Trail(c)[n].id < i
    BY <1>7, <2>1
  <2>3. CASE inbox'[c] = inbox[c]
    <3>1. Trail(c)' = Trail(c) /\ Sendable(c)' = Sendable(c)
      BY <1>1, <2>3 DEF Trail, Sendable, SentAs, Explained
    <3>2. Orderly(Trail(c))'
      BY <1>1, <3>1 DEF TrailsOK, Orderly
    <3>3. parked'[c] \subseteq parked[c] \cup {i}
      BY <1>3 DEF Park
    <3>4. \A n \in 1..Len(Trail(c)) : Trail(c)[n].id # i
      <4>1. i \in Nat
        BY <1>4, <1>5
      <4> QED BY <2>2, <4>1
    <3>5. \A n \in 1..Len(Trail(c)') : Trail(c)'[n].id \notin parked'[c]
      BY <2>1, <3>1, <3>3, <3>4
    <3>6. \A n \in 1..Len(Trail(c)') : Older(Trail(c)[n].id)'
      <4> SUFFICES ASSUME NEW n \in 1..Len(Trail(c)') PROVE Older(Trail(c)[n].id)'
        OBVIOUS
      <4>1. Older(Trail(c)[n].id)
        BY <2>1, <3>1
      <4>2. \A m \in 1..Len(topic') : Trail(c)[n].id < topic'[m]
        BY <1>7, <4>1 DEF Older
      <4> QED BY <3>1, <4>2 DEF Older
    <3> QED BY <1>1, <2>3, <3>1, <3>2, <3>5, <3>6 DEF TrailsOK
  <2>4. CASE inbox'[c] = inbox[c] \o SendEvent(c, i) /\ parked'[c] = parked[c]
    <3>1. i \in Nat
      BY <1>4, <1>5
    <3>2. \A n \in 1..Len(Trail(c)) : Trail(c)[n].id # i
      BY <2>2, <3>1
    <3>3. /\ got'[c] \in Seq(Sendable(c)') /\ inbox'[c] \in Seq(Sendable(c)')
          /\ Orderly(Trail(c))'
          /\ \A n \in 1..Len(Trail(c)') :
               Trail(c)'[n].id = i \/ (n \in 1..Len(Trail(c)) /\ Trail(c)'[n] = Trail(c)[n])
      BY <1>1, <1>5, <2>2, <2>4, <3>2, SendInv
    <3>4. i \notin parked[c]
      BY <1>7, <3>1 DEF ParkedOK
    <3>5. \A n \in 1..Len(Trail(c)') : Trail(c)'[n].id \notin parked'[c]
      BY <2>1, <2>4, <3>3, <3>4
    <3>6. \A n \in 1..Len(Trail(c)') : Older(Trail(c)[n].id)'
      <4> SUFFICES ASSUME NEW n \in 1..Len(Trail(c)') PROVE Older(Trail(c)[n].id)'
        OBVIOUS
      <4>1. Trail(c)'[n].id = i \/ Older(Trail(c)'[n].id)
        BY <2>1, <3>3
      <4>2. \A m \in 1..Len(topic') : Trail(c)'[n].id < topic'[m]
        BY <1>7, <4>1 DEF Older
      <4> QED BY <4>2 DEF Older
    <3> QED BY <3>3, <3>5, <3>6
  <2> QED BY <1>3, <2>3, <2>4
<1>10. RequestsOK' /\ MapOK' /\ OldOK'
  BY <1>1, FrameRequests, FrameMap, FrameOld
<1>11. Shapes' /\ Bounds'
  BY <1>1, <1>3 DEF Shapes, Bounds
<1> QED BY <1>6, <1>8, <1>9, <1>10, <1>11

\* Every step keeps the invariant.
LEMMA StepInv == ASSUME NamesFaithful PROVE SystemInv /\ [Next]_vars => SystemInv'
<1> SUFFICES ASSUME SystemInv, [Next]_vars PROVE SystemInv'
  OBVIOUS
<1>1. CASE Next
  BY <1>1, CallInv, ConnectInv, BreakInv, ReceiveInv, ProcessInv, OldInv, SyncInv, PublishInv,
     DeliverInv, FlushInv DEF Next, Step
<1>2. CASE UNCHANGED vars
  <2>1. UNCHANGED <<list, asked, calls, link, requests, podPathMap, crName, parked, inbox, watched, reports,
                    topic, got, breaks, old, faults>>
    BY <1>2 DEF vars, clientVars, helperVars, oldVars, nodeVars
  <2> QED
    BY <2>1, FrameRequests, FrameMap, FrameOld, FrameTopic, FrameParked, FrameTrails
    DEF SystemInv, Shapes, Bounds
<1> QED BY <1>1, <1>2

\* The invariant holds.
LEMMA Invariant == ASSUME NamesFaithful PROVE Spec => []SystemInv
<1>1. SystemInv /\ [Next]_vars => SystemInv'
  BY StepInv
<1> QED BY <1>1, InitInv, PTL DEF Spec

----------------------------------------------------------------------------
\* The results.

\* TypeOK: the variables keep their types, at most one WRITE of a file is
\* parked, and a helper names no resource but its client's, for any clients,
\* keys, files and bounds (app.go:261-273, helper.go:116-139).
THEOREM Typing == ASSUME NamesFaithful PROVE Spec => []TypeOK
<1>1. SystemInv => TypeOK
  <2> SUFFICES ASSUME SystemInv PROVE TypeOK
    OBVIOUS
  <2> USE DEF SystemInv
  <2>1. reports \in Seq(Reports) /\ Len(reports) \in Nat /\ DOMAIN reports = 1..Len(reports)
    BY DEF TopicOK
  <2>2. topic \in Seq(Ids) /\ Len(reports) <= MaxReports
    <3>1. 1..Len(reports) \subseteq Ids
      BY <2>1, BoundAssumption DEF Ids, TopicOK
    <3> QED BY <3>1, SeqWiden DEF TopicOK
  <2>3. \A c \in Clients : \A r \in ToSet(requests[c]) : r.type \in {"CLEAR", "WATCH", "UNWATCH"}
    <3> SUFFICES ASSUME NEW c \in Clients, NEW r \in ToSet(requests[c]) PROVE r.type \in {"CLEAR", "WATCH", "UNWATCH"}
      OBVIOUS
    <3>1. r \in Frames(c)
      BY DEF RequestsOK, ToSet
    <3> QED BY <3>1 DEF Frames
  <2>4. \A c \in Clients : parked[c] \subseteq DOMAIN reports
                           /\ \A i, j \in parked[c] : i # j => reports[i].file # reports[j].file
    BY <2>1 DEF ParkedOK
  <2>5. \A c \in Clients : list[c] \subseteq Keys[c] /\ (crName[c] # <<>> => crName[c] = Name[c])
    BY DEF RequestsOK, MapOK
  <2>6. \A h \in old : h.client \in Clients /\ h.name \in {<<>>, Name[h.client]}
    BY DEF OldOK
  <2> QED BY <2>2, <2>3, <2>4, <2>5, <2>6 DEF TypeOK, Bounds
<1>2. Spec => []SystemInv
  BY Invariant
<1> QED BY <1>1, <1>2, PTL

\* RightFile: where translating one event with one entry of a mapping gives
\* the name of the file, every name a client ever reads is that of the file
\* that changed, through redis, debouncing, remapping and reconnection
\* (app.go:178-196, helper.go:211, v2/app.go:66).
THEOREM NamesRight == ASSUME NamesFaithful, NamesKept PROVE Spec => []RightFile
<1>1. SystemInv => RightFile
  <2> SUFFICES ASSUME SystemInv, NEW c \in Clients, NEW g \in ToSet(got[c]), Fits(c, reports[g.id].file)
               PROVE  Resolve(c, g.name) = {reports[g.id].file}
    BY DEF RightFile
  <2>1. g \in Sendable(c)
    BY DEF SystemInv, TrailsOK, ToSet
  <2>2. PICK i \in 1..Len(reports) : \E p \in Targets(c, reports[i].dir) :
          g = [id |-> i, name |-> Sent[reports[i].file][p]]
    BY <2>1, SendableFacts
  <2>3. PICK p \in Targets(c, reports[i].dir) : g = [id |-> i, name |-> Sent[reports[i].file][p]]
    BY <2>2
  <2>4. reports[i] \in Reports
    BY DEF SystemInv, TopicOK
  <2>5. reports[i].file \in Files /\ reports[i].dir = KeyOf(reports[i].file)
    BY <2>4 DEF Reports
  <2>6. PICK ks \in SUBSET Keys[c] : reports[i].dir \in Nodes(c, ks) /\ p = Wire[c][ks].map[reports[i].dir]
    BY DEF Targets
  <2>7. g.id = i /\ g.name = Sent[reports[i].file][p]
    BY <2>3
  <2>8. \A f \in Files : KeyOf(f) \in Nodes(c, ks) /\ Fits(c, f)
                           => Resolve(c, Sent[f][Wire[c][ks].map[KeyOf(f)]]) = {f}
    BY Zenon DEF NamesKept
  <2>9. Fits(c, reports[i].file) /\ KeyOf(reports[i].file) \in Nodes(c, ks)
    BY <2>5, <2>6, <2>7
  <2>10. Resolve(c, Sent[reports[i].file][Wire[c][ks].map[KeyOf(reports[i].file)]]) = {reports[i].file}
    BY <2>5, <2>8, <2>9
  <2> QED BY <2>5, <2>6, <2>7, <2>10
<1>2. Spec => []SystemInv
  BY Invariant
<1> QED BY <1>1, <1>2, PTL

\* FeedRefinement: the system implements EventFeed.  A call maps to Ask, an
\* event of the node to Report, a read of the client to Take; the rest leaves
\* the feed as it is (server.go:101-117, helper.go:61-165, redis.go:82-108).
THEOREM ImplementsFeed == ASSUME NamesFaithful PROVE Spec => FeedRefinement
<1>1. Init => Feed!Init
  <2> SUFFICES ASSUME Init PROVE Feed!Init
    OBVIOUS
  <2>1. reports = <<>> /\ Wanted = [c \in Clients |-> {}]
    BY DEF Init, Wanted
  <2>2. \A c \in Clients : [n \in DOMAIN got[c] |-> got[c][n].id] = <<>>
    BY DEF Init
  <2>3. Taken = [c \in Clients |-> <<>>]
    BY <2>2 DEF Taken
  <2> QED BY <2>1, <2>3 DEF Feed!Init
<1>2. SystemInv /\ [Next]_vars => [Feed!Next]_Feed!vars
  <2> SUFFICES ASSUME SystemInv, [Next]_vars PROVE [Feed!Next]_Feed!vars
    OBVIOUS
  <2>1. ASSUME NEW c \in Clients, NEW k \in Keys[c], NEW type \in {"WATCH", "UNWATCH"}, Call(c, type, k)
        PROVE  Feed!Ask(c)
    <3> DEFINE more == IF type = "WATCH" THEN Path[c][k] \cap Dirs ELSE {}
    <3>1. UNCHANGED <<reports, got>> /\ asked' = IF type = "WATCH" THEN [asked EXCEPT ![c] = @ \cup Path[c][k]] ELSE asked
      BY <2>1 DEF Call, nodeVars
    <3>2. more \in SUBSET {e.dir : e \in Reports}
      <4>1. \A f \in Files : [file |-> f, dir |-> KeyOf(f), op |-> "OTHER"] \in Reports
        BY DEF Reports
      <4>2. \A f \in Files : [file |-> f, dir |-> KeyOf(f), op |-> "OTHER"].dir = KeyOf(f)
        OBVIOUS
      <4>3. \A f \in Files : KeyOf(f) \in {e.dir : e \in Reports}
        BY <4>1, <4>2
      <4> QED BY <4>3 DEF Dirs
    <3>3. Wanted' = [Wanted EXCEPT ![c] = @ \cup more]
      BY <3>1 DEF SystemInv, Shapes, Wanted
    <3>4. UNCHANGED Taken
      BY <3>1 DEF Taken
    <3> HIDE DEF more
    <3> QED BY <3>1, <3>2, <3>3, <3>4 DEF Feed!Ask
  <2>2. ASSUME NEW f \in Files, NEW op \in {"WRITE", "OTHER"}, Publish(f, op)
        PROVE  \E e \in Reports : Feed!Report(e)
    <3> DEFINE e == [file |-> f, dir |-> KeyOf(f), op |-> op]
    <3>1. reports' = Append(reports, e) /\ UNCHANGED <<asked, got>>
      BY <2>2 DEF Publish, clientVars
    <3>2. UNCHANGED <<Wanted, Taken>>
      BY <3>1 DEF Wanted, Taken
    <3>3. e \in Reports
      BY DEF Reports
    <3> QED BY <3>1, <3>2, <3>3 DEF Feed!Report
  <2>3. ASSUME NEW c \in Clients, Receive(c)
        PROVE  \E i \in DOMAIN reports : Feed!Take(c, i)
    <3> DEFINE m == Head(inbox[c])
    <3>1. /\ inbox[c] # <<>> /\ got' = [got EXCEPT ![c] = Append(@, m)]
          /\ UNCHANGED <<asked, reports>>
      BY <2>3 DEF Receive, clientVars, nodeVars
    <3>2. got[c] \in Seq(Sendable(c)) /\ inbox[c] \in Seq(Sendable(c)) /\ m \in Sendable(c)
      BY <3>1, SeqParts DEF SystemInv, TrailsOK
    <3>3. m.id \in 1..Len(reports) /\ reports[m.id].dir \in asked[c]
      BY <3>2, SendableFacts
    <3>4. reports[m.id].dir \in Dirs /\ DOMAIN reports = 1..Len(reports)
      <4>1. \A i \in 1..Len(reports) : reports[i] \in Reports
        BY DEF SystemInv, TopicOK
      <4>2. \A e \in Reports : e.dir \in Dirs
        BY DEF Reports, Dirs
      <4>3. DOMAIN reports = 1..Len(reports)
        BY DEF SystemInv, TopicOK
      <4> QED BY <3>3, <4>1, <4>2, <4>3
    <3>5. /\ Len(got[c]) \in Nat /\ Len(got[c]) + 1 \in 1..Len(Trail(c)) /\ Trail(c)[Len(got[c]) + 1] = m
          /\ \A n \in 1..Len(got[c]) : n \in 1..Len(Trail(c)) /\ Trail(c)[n] = got[c][n]
      BY <3>1, <3>2, TrailSplit DEF Trail
    <3>6. \A n \in 1..Len(got[c]) :
            got[c][n].id # m.id /\ (reports[got[c][n].id].op # "WRITE" /\ reports[m.id].op # "WRITE"
                                     => got[c][n].id < m.id)
      <4>1. Orderly(Trail(c))
        BY DEF SystemInv, TrailsOK
      <4> HIDE DEF m
      <4>2. \A n \in 1..Len(got[c]) : n < Len(got[c]) + 1
        BY <3>5
      <4> QED BY <3>5, <4>1, <4>2 DEF Orderly
    <3>7. DOMAIN Taken[c] = 1..Len(got[c]) /\ \A n \in 1..Len(got[c]) : Taken[c][n] = got[c][n].id
      BY <3>2 DEF Taken
    <3>8. m.id \notin ToSet(Taken[c])
      BY <3>6, <3>7 DEF ToSet
    <3>9. reports[m.id].op = "WRITE" \/ \A j \in ToSet(Taken[c]) : reports[j].op = "WRITE" \/ j < m.id
      BY <3>6, <3>7 DEF ToSet
    <3>10. Taken' = [Taken EXCEPT ![c] = Append(@, m.id)]
      <4>1. \A d \in Clients \ {c} : Taken'[d] = Taken[d]
        BY <3>1 DEF Taken, SystemInv, Shapes
      <4>2. Taken'[c] = Append(Taken[c], m.id)
        <5>1. got'[c] = Append(got[c], m)
          BY <3>1 DEF SystemInv, Shapes
        <5> HIDE DEF m
        <5>2. Taken'[c] = [n \in 1..Len(got[c]) + 1 |-> Append(got[c], m)[n].id]
          BY <3>2, <5>1 DEF Taken
        <5>3. Taken[c] = [n \in 1..Len(got[c]) |-> got[c][n].id]
          BY <3>2 DEF Taken
        <5>4. \A n \in 1..Len(got[c]) + 1 :
                Append(got[c], m)[n].id = IF n = Len(got[c]) + 1 THEN m.id ELSE got[c][n].id
          BY <3>2
        <5> QED BY <3>2, <5>2, <5>3, <5>4
      <4> QED BY <4>1, <4>2 DEF Taken
    <3>11. Wanted' = Wanted /\ reports[m.id].dir \in Wanted[c]
      BY <3>1, <3>3, <3>4 DEF Wanted
    <3> HIDE DEF m
    <3>12. Feed!InOrder(c, m.id)
      BY <3>9 DEF Feed!InOrder, Feed!ToSet, ToSet
    <3>13. Feed!Take(c, m.id)
      BY <3>1, <3>8, <3>10, <3>11, <3>12 DEF Feed!Take, Feed!ToSet, ToSet
    <3> QED BY <3>3, <3>4, <3>13
  <2>4. ASSUME UNCHANGED <<asked, reports, got>> PROVE UNCHANGED Feed!vars
    BY <2>4 DEF Feed!vars, Wanted, Taken
  <2>5. \A c \in Clients :
          Connect(c) \/ ProcessWatcherMessage(c) \/ ReadFails(c) \/ WriteFails(c) \/ Break(c)
            \/ (\E i \in Ids : Flush(c, i)) => UNCHANGED <<asked, reports, got>>
    BY DEF Connect, Begin, ProcessWatcherMessage, ReadFails, WriteFails, Break, Flush, Fire, clientVars,
       nodeVars
  <2>6. SyncWatches \/ SyncMisses \/ Deliver \/ (\E h \in old : OldMessage(h) \/ OldRemove(h) \/ OldFails(h))
          \/ UNCHANGED vars => UNCHANGED <<asked, reports, got>>
    BY DEF SyncWatches, SyncMisses, Sync, Deliver, OldMessage, OldRemove, OldFails, clientVars, nodeVars, vars
  <2>7. CASE \E c \in Clients : Receive(c) \/ \E k \in Keys[c], type \in {"WATCH", "UNWATCH"} : Call(c, type, k)
    BY <2>1, <2>3, <2>7 DEF Feed!Next
  <2>8. CASE \E f \in Files, op \in {"WRITE", "OTHER"} : Publish(f, op)
    BY <2>2, <2>8 DEF Feed!Next
  <2> QED BY <2>4, <2>5, <2>6, <2>7, <2>8 DEF Next, Step
<1>3. Spec => []SystemInv
  BY Invariant
<1> QED BY <1>1, <1>2, <1>3, PTL DEF Spec, FeedRefinement, Feed!Spec

----------------------------------------------------------------------------
\* The resource and the list.

\* Nobody else's requests matter to a client.
LEMMA FollowsFrame ==
  ASSUME NEW d \in Clients, Follows(d), link'[d] = link[d], podPathMap'[d] = podPathMap[d],
         requests'[d] = requests[d], fresh'[d] = fresh[d], list'[d] = list[d], unread'[d] = unread[d]
  PROVE  Follows(d)'
<1>1. ClearFirst(d)'
  BY DEF Follows, ClearFirst
<1>2. \A k \in Keys[d] : Agrees(d, k)'
  BY DEF Follows, Agrees, LastAbout, Unmentioned
<1> QED BY <1>1, <1>2 DEF Follows

\* A call queues a request that agrees with the list.
LEMMA CallFollows ==
  ASSUME SystemInv, ResourceInv, NEW c \in Clients, NEW k \in Keys[c], NEW type \in {"WATCH", "UNWATCH"},
         Call(c, type, k)
  PROVE  Follows(c)'
<1> DEFINE q == requests[c]
           r == Frame(type, {k})
<1>1. UNCHANGED <<link, podPathMap, fresh, unread>>
  BY DEF Call, helperVars, apiVars
<1>2. /\ requests'[c] = Append(q, r)
      /\ list'[c] = IF type = "WATCH" THEN list[c] \cup {k} ELSE list[c] \ {k}
  BY DEF Call, SystemInv, Shapes
<1>3. q \in Seq(Frames(c)) /\ r.type = type /\ r.keys = {k}
  BY DEF SystemInv, RequestsOK, Frame
<1>4. /\ Len(q) \in Nat /\ Len(requests'[c]) = Len(q) + 1 /\ requests'[c][Len(q) + 1] = r
      /\ \A n \in 1..Len(q) : requests'[c][n] = q[n]
  BY <1>2, <1>3
<1> HIDE DEF r
<1>5. Follows(c)
  BY DEF ResourceInv
<1>6. \A n \in 1..Len(requests'[c]) : n = Len(q) + 1 \/ (n \in 1..Len(q) /\ requests'[c][n] = q[n])
  BY <1>4
<1>7. ClearFirst(c)'
  <2>1. ClearFirst(c)
    BY <1>5 DEF Follows
  <2>2. \A n \in 1..Len(requests'[c]) : requests'[c][n].type = "CLEAR" => n \in 1..Len(q) /\ requests'[c][n] = q[n]
    BY <1>3, <1>4, <1>6
  <2> QED BY <1>1, <2>1, <2>2 DEF ClearFirst
<1>8. ASSUME NEW j \in Keys[c] PROVE Agrees(c, j)'
  <2>1. CASE j = k
    <3>1. ~Unmentioned(c, j)'
      BY <1>3, <1>4, <2>1 DEF Unmentioned
    <3>2. \A n \in 1..Len(requests'[c]) : LastAbout(c, j, n)' => n = Len(q) + 1
      BY <1>3, <1>4, <2>1 DEF LastAbout
    <3>3. r.type = "WATCH" <=> j \in list'[c]
      BY <1>2, <1>3, <2>1
    <3> QED BY <1>4, <3>1, <3>2, <3>3 DEF Agrees
  <2>2. CASE j # k
    <3>1. \A n \in 1..Len(requests'[c]) : LastAbout(c, j, n)' => n \in 1..Len(q) /\ LastAbout(c, j, n)
      <4> SUFFICES ASSUME NEW n \in 1..Len(requests'[c]), LastAbout(c, j, n)'
                   PROVE  n \in 1..Len(q) /\ LastAbout(c, j, n)
        OBVIOUS
      <4>1. n \in 1..Len(q) /\ j \in q[n].keys
        BY <1>3, <1>4, <1>6, <2>2 DEF LastAbout
      <4>2. \A m \in 1..Len(q) : m \in 1..Len(requests'[c]) /\ requests'[c][m] = q[m]
        BY <1>4
      <4> QED BY <4>1, <4>2 DEF LastAbout
    <3>2. Unmentioned(c, j)' => Unmentioned(c, j)
      BY <1>4 DEF Unmentioned
    <3>3. j \in list'[c] <=> j \in list[c]
      BY <1>2, <2>2
    <3>4. Agrees(c, j)
      BY <1>5 DEF Follows
    <3> QED BY <1>1, <1>4, <3>1, <3>2, <3>3, <3>4 DEF Agrees
  <2> QED BY <2>1, <2>2
<1> QED BY <1>1, <1>5, <1>7, <1>8 DEF Follows

\* A break loses the first requests and the mapping.
LEMMA BreakFollows ==
  ASSUME SystemInv, ResourceInv, NEW c \in Clients, Break(c)
  PROVE  Follows(c)'
<1>1. /\ link[c] /\ ~link'[c] /\ DOMAIN podPathMap'[c] = {} /\ fresh'[c] = fresh[c] /\ list'[c] = list[c]
  BY DEF Break, SystemInv, Shapes, Empty, clientVars
<1>2. PICK z \in 0..Len(requests[c]) : requests'[c] = SubSeq(requests[c], z + 1, Len(requests[c]))
  BY BreakEffect DEF SystemInv, Shapes
<1>3. requests[c] \in Seq(Frames(c)) /\ Len(requests[c]) \in Nat
  BY DEF SystemInv, RequestsOK
<1>4. /\ Len(requests'[c]) = Len(requests[c]) - z
      /\ \A n \in 1..Len(requests'[c]) : requests'[c][n] = requests[c][n + z] /\ n + z \in 1..Len(requests[c])
  BY <1>2, <1>3
<1>5. Follows(c)
  BY DEF ResourceInv
<1>6. ClearFirst(c)'
  BY <1>1, <1>3, <1>4, <1>5 DEF Follows, ClearFirst
<1>7. ASSUME NEW j \in Keys[c] PROVE Agrees(c, j)'
  <2>1. ASSUME NEW n \in 1..Len(requests'[c]), LastAbout(c, j, n)' PROVE LastAbout(c, j, n + z)
    <3> SUFFICES ASSUME NEW m \in 1..Len(requests[c]), m > n + z PROVE j \notin requests[c][m].keys
      BY <1>4, <2>1 DEF LastAbout
    <3>1. m - z \in 1..Len(requests'[c]) /\ m - z > n /\ (m - z) + z = m
      BY <1>3, <1>4
    <3> QED BY <1>4, <2>1, <3>1 DEF LastAbout
  <2>2. Agrees(c, j)
    BY <1>5 DEF Follows
  <2> QED BY <1>1, <1>4, <2>1, <2>2 DEF Agrees
<1> QED BY <1>1, <1>6, <1>7 DEF Follows

\* A connection begins with an empty mapping, sends a CLEAR before everything
\* if it is the first, and the list after everything.
LEMMA ConnectFollows ==
  ASSUME SystemInv, ResourceInv, NEW c \in Clients, Connect(c)
  PROVE  Follows(c)'
<1> DEFINE q == requests[c]
           clear == IF fresh[c] THEN <<Frame("CLEAR", {})>> ELSE <<>>
           replay == IF list[c] = {} THEN <<>> ELSE <<Frame("WATCH", list[c])>>
           z == IF fresh[c] THEN 1 ELSE 0
           s == clear \o q \o replay
<1>1. /\ ~link[c] /\ podPathMap'[c] = podPathMap[c] /\ ~fresh'[c] /\ list'[c] = list[c]
      /\ requests'[c] = s
  BY DEF Connect, Begin, SystemInv, Shapes, ResourceInv, helperVars
<1>2. Follows(c) /\ DOMAIN podPathMap[c] = {} /\ ClearFirst(c)
  BY <1>1 DEF ResourceInv, Follows
<1>3. q \in Seq(Frames(c)) /\ Len(q) \in Nat /\ z \in {0, 1}
  BY DEF SystemInv, RequestsOK
<1>4. /\ list[c] = {} => Len(s) = z + Len(q)
      /\ list[c] # {} => Len(s) = z + Len(q) + 1
      /\ z = 1 => s[1] = Frame("CLEAR", {})
      /\ \A n \in 1..Len(q) : s[n + z] = q[n]
      /\ list[c] # {} => s[z + Len(q) + 1] = Frame("WATCH", list[c])
  <2>1. Frame("CLEAR", {}) \in Frames(c) /\ Frame("WATCH", list[c]) \in Frames(c)
    BY DEF Frame, Frames, SystemInv, RequestsOK
  <2>2. /\ clear \o q \in Seq(Frames(c)) /\ Len(clear \o q) = z + Len(q)
        /\ z = 1 => (clear \o q)[1] = Frame("CLEAR", {})
        /\ \A n \in 1..Len(q) : (clear \o q)[n + z] = q[n]
    <3>1. CASE fresh[c]
      BY <1>3, <2>1, <3>1, Enclosed
    <3>2. CASE ~fresh[c]
      BY <1>3, <3>2, Enclosed
    <3> QED BY <3>1, <3>2
  <2> HIDE DEF clear, z, q
  <2>3. CASE list[c] = {}
    <3>1. s = clear \o q
      BY <2>1, <2>2, <2>3, Enclosed
    <3> QED BY <1>3, <2>2, <2>3, <3>1
  <2>4. CASE list[c] # {}
    <3>1. s = (clear \o q) \o <<Frame("WATCH", list[c])>>
      BY <2>4
    <3>2. /\ Len(s) = z + Len(q) + 1 /\ s[z + Len(q) + 1] = Frame("WATCH", list[c])
          /\ \A n \in 1..z + Len(q) : s[n] = (clear \o q)[n]
      BY <2>1, <2>2, <3>1, Enclosed
    <3>3. (z = 1 => 1 \in 1..z + Len(q)) /\ \A n \in 1..Len(q) : n + z \in 1..z + Len(q)
      BY <1>3
    <3> QED BY <2>2, <2>4, <3>2, <3>3
  <2> QED BY <2>3, <2>4
<1>5. /\ Frame("CLEAR", {}).type = "CLEAR" /\ Frame("CLEAR", {}).keys = {}
      /\ Frame("WATCH", list[c]).type = "WATCH" /\ Frame("WATCH", list[c]).keys = list[c]
  BY DEF Frame
<1>6. z = 1 <=> fresh[c]
  OBVIOUS
<1> HIDE DEF s, z
<1>7. \A n \in 1..Len(s) : \/ z = 1 /\ n = 1
                           \/ n - z \in 1..Len(q) /\ s[n] = q[n - z]
                           \/ list[c] # {} /\ n = z + Len(q) + 1 /\ n = Len(s)
  <2> SUFFICES ASSUME NEW n \in 1..Len(s)
               PROVE  \/ z = 1 /\ n = 1
                      \/ n - z \in 1..Len(q) /\ s[n] = q[n - z]
                      \/ list[c] # {} /\ n = z + Len(q) + 1 /\ n = Len(s)
    OBVIOUS
  <2>1. n - z \in 1..Len(q) => (n - z) + z = n
    BY <1>3
  <2>2. n - z \in 1..Len(q) => s[n] = q[n - z]
    BY <1>4, <2>1
  <2>3. (z = 1 /\ n = 1) \/ n - z \in 1..Len(q) \/ (list[c] # {} /\ n = z + Len(q) + 1 /\ n = Len(s))
    <3>1. CASE list[c] = {}
      BY <1>3, <1>4, <3>1
    <3>2. CASE list[c] # {}
      BY <1>3, <1>4, <3>2
    <3> QED BY <3>1, <3>2
  <2> QED BY <2>2, <2>3
<1>8. ClearFirst(c)'
  <2> SUFFICES ASSUME NEW n \in 1..Len(s), s[n].type = "CLEAR" PROVE n = 1 /\ s[n].keys = {}
    BY <1>1, <1>2 DEF ClearFirst
  <2>1. CASE z = 1 /\ n = 1
    BY <1>4, <1>5, <2>1
  <2>2. CASE n - z \in 1..Len(q) /\ s[n] = q[n - z]
    <3>1. ~fresh[c] /\ n - z = 1 /\ q[n - z].keys = {}
      BY <1>2, <2>2 DEF ClearFirst
    <3>2. z = 0
      BY <1>3, <1>6, <3>1
    <3> QED BY <2>2, <3>1, <3>2
  <2>3. CASE list[c] # {} /\ n = z + Len(q) + 1 /\ n = Len(s)
    BY <1>4, <1>5, <2>3
  <2> QED BY <1>7, <2>1, <2>2, <2>3
<1>9. ASSUME NEW j \in Keys[c] PROVE Agrees(c, j)'
  <2>1. Agrees(c, j)
    BY <1>2 DEF Follows
  <2>2. CASE j \in list[c]
    <3>1. Len(s) \in 1..Len(s) /\ s[Len(s)] = Frame("WATCH", list[c])
      <4>1. Len(s) = z + Len(q) + 1 /\ s[z + Len(q) + 1] = Frame("WATCH", list[c])
        BY <1>4, <2>2
      <4> QED BY <1>3, <4>1
    <3>2. ~Unmentioned(c, j)'
      BY <1>1, <1>5, <2>2, <3>1 DEF Unmentioned
    <3>3. \A n \in 1..Len(s) : LastAbout(c, j, n)' => n = Len(s)
      BY <1>1, <1>5, <2>2, <3>1 DEF LastAbout
    <3>4. s[Len(s)].type = "WATCH"
      BY <1>5, <3>1
    <3> QED BY <1>1, <2>2, <3>2, <3>3, <3>4 DEF Agrees
  <2>3. CASE j \notin list[c]
    <3>1. ASSUME NEW n \in 1..Len(s), LastAbout(c, j, n)' PROVE s[n].type # "WATCH"
      <4>1. j \in s[n].keys /\ \A m \in 1..Len(s) : m > n => j \notin s[m].keys
        BY <1>1, <3>1 DEF LastAbout
      <4>2. n - z \in 1..Len(q) /\ s[n] = q[n - z]
        BY <1>4, <1>5, <1>7, <2>3, <4>1
      <4>3. ASSUME NEW m \in 1..Len(q), m > n - z PROVE j \notin q[m].keys
        <5>1. m + z \in 1..Len(s) /\ m + z > n /\ s[m + z] = q[m]
          <6>1. Len(s) \in {z + Len(q), z + Len(q) + 1} /\ s[m + z] = q[m]
            BY <1>4
          <6>2. n \in Nat
            OBVIOUS
          <6> QED BY <1>3, <4>3, <6>1, <6>2
        <5> QED BY <4>1, <5>1
      <4>4. LastAbout(c, j, n - z)
        BY <4>1, <4>2, <4>3 DEF LastAbout
      <4> QED BY <2>1, <2>3, <4>2, <4>4 DEF Agrees
    <3> QED BY <1>1, <1>2, <2>3, <3>1 DEF Agrees
  <2> QED BY <2>2, <2>3
<1>10. link'[c]
  BY DEF Connect, Begin, SystemInv, Shapes
<1> QED BY <1>1, <1>2, <1>8, <1>9, <1>10 DEF Follows

\* What a key maps to is apart from what other keys of a message map to.
LEMMA NodesByKey ==
  ASSUME NamesFaithful, KeysApart, NEW c \in Clients, NEW ks \in SUBSET Keys[c]
  PROVE  /\ \A k \in ks : Nodes(c, {k}) \subseteq Nodes(c, ks)
         /\ \A k \in Keys[c] \ ks : Nodes(c, {k}) \cap Nodes(c, ks) = {}
         /\ \A p \in Nodes(c, ks) : \E j \in ks : p \in Nodes(c, {j})
<1>1. Nodes(c, ks) = UNION {Nodes(c, {j}) : j \in ks}
  BY Zenon DEF NamesFaithful
<1>2. \A p : p \in Nodes(c, ks) <=> \E j \in ks : p \in Nodes(c, {j})
  BY <1>1
<1>3. \A i, j \in Keys[c] : i # j => Nodes(c, {i}) \cap Nodes(c, {j}) = {}
  BY Zenon DEF KeysApart
<1> QED BY <1>2, <1>3

\* What handling the next request does to the mapping: what it says, or nothing
\* if no pod is found.
Mapped(c, r) ==
  /\ r.type = "WATCH" => DOMAIN podPathMap'[c] = Nodes(c, r.keys) \cup DOMAIN podPathMap[c]
  /\ r.type # "WATCH" => DOMAIN podPathMap'[c] = DOMAIN podPathMap[c] \ Nodes(c, r.keys)
  /\ unread'[c] = unread[c] \ r.keys
NotMapped(c, r) == podPathMap'[c] = podPathMap[c] /\ unread'[c] = unread[c] \cup r.keys
LEMMA ProcessEffect ==
  ASSUME SystemInv, ResourceInv, NEW c \in Clients,
         ProcessWatcherMessage(c) \/ ReadFails(c) \/ WriteFails(c)
  PROVE  LET r == Head(requests[c]) IN
         /\ link[c] /\ requests[c] # <<>> /\ r \in Frames(c) /\ r.keys \in SUBSET Keys[c]
         /\ requests' = [requests EXCEPT ![c] = Tail(@)]
         /\ UNCHANGED <<link, list, fresh>> /\ DOMAIN unread' = Clients
         /\ \A d \in Clients \ {c} : podPathMap'[d] = podPathMap[d] /\ unread'[d] = unread[d]
         /\ Mapped(c, r) \/ NotMapped(c, r)
         /\ ~ReadFails(c) => Mapped(c, r)
<1> DEFINE r == Head(requests[c])
           map == IF r.type = "WATCH" THEN Merge(Wire[c][r.keys].map, podPathMap[c])
                  ELSE Restrict(podPathMap[c], DOMAIN podPathMap[c] \ DOMAIN Wire[c][r.keys].map)
<1>1. /\ link[c] /\ requests[c] # <<>>
      /\ requests' = [requests EXCEPT ![c] = Tail(@)]
      /\ UNCHANGED <<clientVars, link>>
  BY DEF ProcessWatcherMessage, ReadFails, WriteFails
<1>2. \/ /\ podPathMap' = [podPathMap EXCEPT ![c] = map]
         /\ unread' = [unread EXCEPT ![c] = @ \ r.keys]
      \/ /\ ReadFails(c) /\ podPathMap' = podPathMap
         /\ unread' = [unread EXCEPT ![c] = @ \cup r.keys]
  BY DEF ProcessWatcherMessage, ReadFails, WriteFails, After, helperVars
<1>3. r \in Frames(c)
  BY <1>1, SeqParts DEF SystemInv, RequestsOK
<1>4. r.keys \in SUBSET Keys[c]
  BY <1>3 DEF Frames
<1> HIDE DEF r
<1>5. /\ r.type = "WATCH" => DOMAIN map = Nodes(c, r.keys) \cup DOMAIN podPathMap[c]
      /\ r.type # "WATCH" => DOMAIN map = DOMAIN podPathMap[c] \ Nodes(c, r.keys)
  BY DEF Merge, Restrict, Nodes
<1> HIDE DEF map
<1>6. /\ \A d \in Clients \ {c} : podPathMap'[d] = podPathMap[d] /\ unread'[d] = unread[d]
      /\ DOMAIN unread' = Clients
      /\ \/ podPathMap'[c] = map /\ unread'[c] = unread[c] \ r.keys
         \/ ReadFails(c) /\ NotMapped(c, r)
  BY <1>2 DEF SystemInv, Shapes, ResourceInv, NotMapped
<1>7. Mapped(c, r) \/ (ReadFails(c) /\ NotMapped(c, r))
  BY <1>5, <1>6 DEF Mapped
<1>8. UNCHANGED <<link, list, fresh>>
  BY <1>1 DEF clientVars
<1> QED BY <1>1, <1>3, <1>4, <1>6, <1>7, <1>8 DEF r

\* The request that is processed leaves the mapping as the list wants it for the
\* keys it was the last about, and as it was for the others.
LEMMA ProcessFollows ==
  ASSUME NamesFaithful, KeysApart, SystemInv, ResourceInv, NEW c \in Clients,
         ProcessWatcherMessage(c) \/ ReadFails(c) \/ WriteFails(c)
  PROVE  Follows(c)'
<1> DEFINE q == requests[c]
           r == Head(requests[c])
           D == DOMAIN podPathMap[c]
<1>1. /\ link[c] /\ q # <<>> /\ r.keys \in SUBSET Keys[c]
      /\ link'[c] = link[c] /\ list'[c] = list[c] /\ fresh'[c] = fresh[c]
      /\ Mapped(c, r) \/ NotMapped(c, r)
  BY ProcessEffect
<1>2. requests'[c] = Tail(q) /\ q \in Seq(Frames(c))
  BY ProcessEffect DEF SystemInv, Shapes, RequestsOK
<1>3. /\ Len(q) \in Nat \ {0} /\ q[1] = r /\ 1 \in 1..Len(q) /\ Len(requests'[c]) = Len(q) - 1
      /\ \A n \in 1..Len(q) - 1 : requests'[c][n] = q[n + 1] /\ n + 1 \in 1..Len(q)
  BY <1>1, <1>2
<1>4. Follows(c)
  BY DEF ResourceInv
<1> HIDE DEF r
<1>5. \A p \in DOMAIN podPathMap'[c] : \E k \in Keys[c] : p \in Nodes(c, {k})
  <2>1. \A p \in Nodes(c, r.keys) : \E k \in Keys[c] : p \in Nodes(c, {k})
    BY <1>1, NodesByKey
  <2>2. \A p \in D : \E k \in Keys[c] : p \in Nodes(c, {k})
    BY <1>4 DEF Follows
  <2> QED BY <1>1, <2>1, <2>2 DEF Mapped, NotMapped
<1>6. ClearFirst(c)'
  <2>1. ClearFirst(c)
    BY <1>4 DEF Follows
  <2>2. \A n \in 1..Len(requests'[c]) : requests'[c][n].type # "CLEAR"
    <3> SUFFICES ASSUME NEW n \in 1..Len(q) - 1, q[n + 1].type = "CLEAR" PROVE FALSE
      BY <1>3
    <3>1. n + 1 = 1
      BY <1>3, <2>1 DEF ClearFirst
    <3> QED BY <1>3, <3>1
  <2> QED BY <1>1, <2>1, <2>2 DEF ClearFirst
<1>7. ASSUME NEW k \in Keys[c] PROVE Agrees(c, k)'
  <2>1. Agrees(c, k)
    BY <1>4 DEF Follows
  <2>2. ASSUME NEW n \in 1..Len(q) - 1, LastAbout(c, k, n)'
        PROVE  requests'[c][n].type = "WATCH" <=> k \in list'[c]
    <3>1. k \in q[n + 1].keys /\ \A m \in 1..Len(q) - 1 : m > n => k \notin requests'[c][m].keys
      BY <1>3, <2>2 DEF LastAbout
    <3>2. ASSUME NEW m \in 1..Len(q), m > n + 1 PROVE k \notin q[m].keys
      <4>1. m - 1 \in 1..Len(q) - 1 /\ m - 1 > n /\ (m - 1) + 1 = m
        BY <1>3, <3>2
      <4> QED BY <1>3, <3>1, <4>1
    <3>3. LastAbout(c, k, n + 1)
      BY <1>3, <3>1, <3>2 DEF LastAbout
    <3> QED BY <1>1, <1>3, <2>1, <3>3 DEF Agrees
  <2>3. ASSUME Unmentioned(c, k)', k \notin unread'[c]
        PROVE  IF k \in list[c] THEN Nodes(c, {k}) \subseteq DOMAIN podPathMap'[c]
               ELSE Nodes(c, {k}) \cap DOMAIN podPathMap'[c] = {}
    <3>1. ASSUME NEW m \in 1..Len(q), m > 1 PROVE k \notin q[m].keys
      <4>1. m - 1 \in 1..Len(q) - 1 /\ (m - 1) + 1 = m
        BY <1>3, <3>1
      <4> QED BY <1>3, <2>3, <4>1 DEF Unmentioned
    <3>2. CASE k \in r.keys
      <4>0. Mapped(c, r)
        BY <1>1, <2>3, <3>2 DEF NotMapped
      <4>1. LastAbout(c, k, 1)
        BY <1>3, <3>1, <3>2 DEF LastAbout
      <4>2. r.type = "WATCH" <=> k \in list[c]
        BY <1>3, <2>1, <4>1 DEF Agrees
      <4>3. Nodes(c, {k}) \subseteq Nodes(c, r.keys)
        BY <1>1, <3>2, NodesByKey
      <4> QED BY <4>0, <4>2, <4>3 DEF Mapped
    <3>3. CASE k \notin r.keys
      <4>1. Unmentioned(c, k)
        <5>1. \A m \in 1..Len(q) : m = 1 \/ m > 1
          BY <1>3
        <5> QED BY <1>3, <3>1, <3>3, <5>1 DEF Unmentioned
      <4>2. k \notin unread[c]
        BY <1>1, <2>3, <3>3 DEF Mapped, NotMapped
      <4>3. IF k \in list[c] THEN Nodes(c, {k}) \subseteq D ELSE Nodes(c, {k}) \cap D = {}
        BY <1>1, <2>1, <4>1, <4>2 DEF Agrees
      <4>4. Nodes(c, {k}) \cap Nodes(c, r.keys) = {}
        BY <1>1, <3>3, NodesByKey
      <4> QED BY <1>1, <4>3, <4>4 DEF Mapped, NotMapped
    <3> QED BY <3>2, <3>3
  <2> QED BY <1>1, <1>3, <2>2, <2>3 DEF Agrees
<1> QED BY <1>1, <1>5, <1>6, <1>7 DEF Follows

\* The resource is written with the mapping, which is recorded if it fails, and
\* deleted with a CLEAR only when nothing is mapped.
LEMMA ProcessRecords ==
  ASSUME NamesFaithful, KeysApart, SystemInv, ResourceInv, NEW c \in Clients,
         ProcessWatcherMessage(c) \/ WriteFails(c)
  PROVE  Recorded'
<1> DEFINE r == Head(requests[c])
           D == DOMAIN podPathMap'[c]
<1>1. /\ r.keys \in SUBSET Keys[c] /\ requests[c] # <<>>
      /\ \A d \in Clients \ {c} : podPathMap'[d] = podPathMap[d]
      /\ r.type # "WATCH" => D \subseteq DOMAIN podPathMap[c]
  BY ProcessEffect DEF Mapped, NotMapped
<1>2. Wire[c][r.keys].name = Name[c]
  BY <1>1, Zenon DEF NamesFaithful
<1>3. \/ /\ r.type = "CLEAR" /\ crs' = Restrict(crs, DOMAIN crs \ {Name[c]})
         /\ UNCHANGED <<crName, outdated>>
      \/ D = {} /\ UNCHANGED <<crName, crs, outdated>>
      \/ /\ crName' = [crName EXCEPT ![c] = Name[c]]
         /\ crs' = Merge([n \in {Name[c]} |-> D], crs)
         /\ outdated' = outdated \ {Name[c]}
      \/ /\ crName' = [crName EXCEPT ![c] = Name[c]]
         /\ crs' = crs /\ outdated' = outdated \cup {Name[c]}
  <2> DEFINE map == After(c, r, podPathMap[c])
  <2>1. podPathMap' = [podPathMap EXCEPT ![c] = map]
    BY DEF ProcessWatcherMessage, WriteFails
  <2>2. D = DOMAIN map
    BY <2>1 DEF SystemInv, Shapes
  <2>3. CASE ProcessWatcherMessage(c)
    <3>1. /\ Store(r, Name[c], map)
          /\ crName' = IF Writes(r, map) THEN [crName EXCEPT ![c] = Name[c]] ELSE crName
          /\ outdated' = IF Writes(r, map) THEN outdated \ {Name[c]} ELSE outdated
      BY <1>2, <2>3 DEF ProcessWatcherMessage
    <3> HIDE DEF map, r, D
    <3> QED BY <2>2, <3>1 DEF Store, Writes, Write, Delete
  <2>4. CASE WriteFails(c)
    BY <1>2, <2>4 DEF WriteFails
  <2> QED BY <2>3, <2>4
<1>4. r.type = "CLEAR" => D = {}
  <2>1. requests[c] \in Seq(Frames(c)) /\ ClearFirst(c)
    BY DEF SystemInv, RequestsOK, ResourceInv, Follows
  <2>2. 1 \in 1..Len(requests[c]) /\ requests[c][1] = r
    BY <1>1, <2>1
  <2>3. r.type = "CLEAR" => DOMAIN podPathMap[c] = {}
    BY <2>1, <2>2 DEF ClearFirst
  <2> QED BY <1>1, <2>3
<1> HIDE DEF r
<1>5. \A d \in Clients \ {c} : Name[d] # Name[c]
  BY Zenon DEF KeysApart
<1> SUFFICES ASSUME NEW d \in Clients, DOMAIN podPathMap'[d] # {}
             PROVE  /\ crName'[d] = Name[d]
                    /\ Name[d] \notin outdated' => Name[d] \in DOMAIN crs' /\ crs'[Name[d]] = DOMAIN podPathMap'[d]
  BY DEF Recorded
<1>6. CASE d = c
  <2>1. /\ crName' = [crName EXCEPT ![c] = Name[c]]
        /\ Name[c] \notin outdated' => crs' = Merge([n \in {Name[c]} |-> D], crs)
    BY <1>3, <1>4, <1>6
  <2> HIDE DEF D
  <2>2. Name[c] \notin outdated' => Name[c] \in DOMAIN crs' /\ crs'[Name[c]] = D
    BY <2>1 DEF Merge
  <2> QED BY <1>6, <2>1, <2>2 DEF SystemInv, Shapes, D
<1>7. CASE d # c
  <2>1. Name[d] # Name[c] /\ podPathMap'[d] = podPathMap[d]
    BY <1>1, <1>5, <1>7
  <2>2. /\ crName[d] = Name[d]
        /\ Name[d] \notin outdated => Name[d] \in DOMAIN crs /\ crs[Name[d]] = DOMAIN podPathMap[d]
    BY <2>1 DEF ResourceInv, Recorded
  <2> HIDE DEF D
  <2>3. crName'[d] = crName[d] /\ (Name[d] \in outdated' <=> Name[d] \in outdated)
    BY <1>3, <1>7, <2>1 DEF SystemInv, Shapes
  <2>4. Name[d] \in DOMAIN crs => Name[d] \in DOMAIN crs' /\ crs'[Name[d]] = crs[Name[d]]
    BY <1>3, <2>1 DEF Restrict, Merge
  <2> QED BY <2>1, <2>2, <2>3, <2>4
<1> QED BY <1>6, <1>7

\* A lost connection changes its own client's resource only, which is recorded
\* if a later connection has named it too.
LEMMA OldRecords ==
  ASSUME NamesFaithful, SystemInv, ResourceInv, NEW h \in old, OldMessage(h) \/ OldRemove(h) \/ OldFails(h)
  PROVE  Recorded'
<1> DEFINE name == Name[h.client]
<1>1. UNCHANGED <<podPathMap, crName>>
  BY DEF OldMessage, OldRemove, OldFails, helperVars
<1>2. \/ UNCHANGED <<crs, outdated>>
      \/ /\ Overtakes(name)
         /\ \A n \in DOMAIN crs \ {name} : n \in DOMAIN crs' /\ crs'[n] = crs[n]
  <2>1. CASE OldMessage(h)
    <3> DEFINE r == Head(h.frames)
               map == Handled(h).map
               F == [type : {"CLEAR", "WATCH", "UNWATCH"}, keys : SUBSET Keys[h.client]]
    <3>1. h.frames # <<>> /\ h.frames \in Seq(F) /\ h.client \in Clients
      BY <2>1 DEF OldMessage, SystemInv, OldOK
    <3>2. r \in F
      BY <3>1, SeqParts
    <3>3. Wire[h.client][r.keys].name = name
      BY <3>1, <3>2, Zenon DEF NamesFaithful
    <3>4. /\ Store(r, name, map)
          /\ IF r.type = "CLEAR" \/ Writes(r, map) THEN Overtakes(name) ELSE UNCHANGED outdated
      BY <2>1, <3>3 DEF OldMessage
    <3> HIDE DEF r, map
    <3> QED BY <3>4 DEF Store, Write, Delete, Merge, Restrict
  <2>2. CASE OldRemove(h)
    <3>1. h.name \in {<<>>, name}
      BY DEF SystemInv, OldOK
    <3> QED BY <2>2, <3>1 DEF OldRemove, Delete, Restrict
  <2>3. CASE OldFails(h)
    BY <2>3 DEF OldFails, apiVars
  <2> QED BY <2>1, <2>2, <2>3
<1> HIDE DEF name
<1> SUFFICES ASSUME NEW d \in Clients, DOMAIN podPathMap[d] # {}
             PROVE  /\ crName[d] = Name[d]
                    /\ Name[d] \notin outdated' => Name[d] \in DOMAIN crs' /\ crs'[Name[d]] = DOMAIN podPathMap[d]
  BY <1>1 DEF Recorded
<1>3. /\ crName[d] = Name[d]
      /\ Name[d] \notin outdated => Name[d] \in DOMAIN crs /\ crs[Name[d]] = DOMAIN podPathMap[d]
  BY DEF ResourceInv, Recorded
<1>4. CASE UNCHANGED <<crs, outdated>>
  BY <1>3, <1>4
<1>5. CASE Overtakes(name) /\ \A n \in DOMAIN crs \ {name} : n \in DOMAIN crs' /\ crs'[n] = crs[n]
  <2>1. Name[d] \notin outdated' => Name[d] \notin outdated /\ Name[d] # name
    BY <1>3, <1>5 DEF Overtakes
  <2> QED BY <1>3, <1>5, <2>1
<1> QED BY <1>2, <1>4, <1>5

\* Every step keeps what is said of lists and resources.
LEMMA StepResource ==
  ASSUME NamesFaithful, KeysApart
  PROVE  SystemInv /\ ResourceInv /\ [Next]_vars => ResourceInv'
<1> SUFFICES ASSUME SystemInv, ResourceInv, [Next]_vars PROVE ResourceInv'
  OBVIOUS
<1> DEFINE Rest == <<link, podPathMap, requests, fresh, list, unread>>
           Others(c) == \A d \in Clients \ {c} :
                          /\ link'[d] = link[d] /\ podPathMap'[d] = podPathMap[d] /\ requests'[d] = requests[d]
                          /\ fresh'[d] = fresh[d] /\ list'[d] = list[d] /\ unread'[d] = unread[d]
           Domains == DOMAIN fresh' = Clients /\ DOMAIN unread' = Clients
           Api == <<podPathMap, crName, crs, outdated>>
<1>1. ASSUME UNCHANGED Rest PROVE Domains /\ \A d \in Clients : Follows(d)'
  BY <1>1, FollowsFrame DEF ResourceInv
<1>2. ASSUME UNCHANGED Api PROVE Recorded'
  BY <1>2 DEF ResourceInv, Recorded
<1>3. ASSUME NEW c \in Clients, Follows(c)', Others(c) PROVE \A d \in Clients : Follows(d)'
  <2>1. \A d \in Clients \ {c} : Follows(d)'
    BY <1>3, FollowsFrame DEF ResourceInv
  <2> QED BY <1>3, <2>1
<1>4. ASSUME NEW c \in Clients, NEW k \in Keys[c], NEW type \in {"WATCH", "UNWATCH"}, Call(c, type, k)
      PROVE  ResourceInv'
  <2>1. UNCHANGED Api /\ Domains
    BY <1>4 DEF Call, helperVars, apiVars, ResourceInv
  <2>2. Others(c)
    BY <1>4 DEF Call, helperVars, apiVars, SystemInv, Shapes
  <2> QED BY <1>2, <1>3, <1>4, <2>1, <2>2, CallFollows DEF ResourceInv
<1>5. ASSUME NEW c \in Clients, Connect(c) PROVE ResourceInv'
  <2>1. UNCHANGED Api /\ Domains
    BY <1>5 DEF Connect, Begin, helperVars, apiVars, ResourceInv
  <2>2. Others(c)
    BY <1>5 DEF Connect, Begin, helperVars, apiVars, SystemInv, Shapes, ResourceInv
  <2> QED BY <1>2, <1>3, <1>5, <2>1, <2>2, ConnectFollows DEF ResourceInv
<1>6. ASSUME NEW c \in Clients, Break(c) PROVE ResourceInv'
  <2>1. UNCHANGED <<fresh, list, crs, outdated>> /\ DOMAIN podPathMap'[c] = {}
    BY <1>6 DEF Break, clientVars, SystemInv, Shapes, Empty
  <2>2. requests' = [requests EXCEPT ![c] = requests'[c]]
    BY <1>6 DEF Break, SystemInv, Shapes
  <2>3. Others(c) /\ \A d \in Clients \ {c} : crName'[d] = crName[d]
    BY <1>6, <2>1, <2>2 DEF Break, SystemInv, Shapes, ResourceInv
  <2>4. Recorded'
    BY <2>1, <2>3 DEF ResourceInv, Recorded
  <2>5. Domains
    BY <1>6, <2>1 DEF Break, ResourceInv
  <2> QED BY <1>3, <1>6, <2>3, <2>4, <2>5, BreakFollows DEF ResourceInv
<1>7. ASSUME NEW c \in Clients, ProcessWatcherMessage(c) \/ ReadFails(c) \/ WriteFails(c) PROVE ResourceInv'
  <2>1. Follows(c)'
    BY <1>7, ProcessFollows
  <2>2. Domains
    BY <1>7, ProcessEffect DEF ResourceInv
  <2>3. Others(c)
    <3>1. /\ requests' = [requests EXCEPT ![c] = Tail(@)] /\ UNCHANGED <<link, list, fresh>>
          /\ \A d \in Clients \ {c} : podPathMap'[d] = podPathMap[d] /\ unread'[d] = unread[d]
      BY <1>7, ProcessEffect
    <3> QED BY <3>1 DEF SystemInv, Shapes
  <2>4. ReadFails(c) => UNCHANGED Api
    BY DEF ReadFails, helperVars
  <2>5. Recorded'
    BY <1>2, <1>7, <2>4, ProcessRecords
  <2> QED BY <1>3, <2>1, <2>2, <2>3, <2>5 DEF ResourceInv
<1>8. ASSUME NEW h \in old, OldMessage(h) \/ OldRemove(h) \/ OldFails(h) PROVE ResourceInv'
  <2>1. UNCHANGED Rest
    BY <1>8 DEF OldMessage, OldRemove, OldFails, clientVars, helperVars, apiVars
  <2> QED BY <1>1, <1>8, <2>1, OldRecords DEF ResourceInv
<1>9. (\E c \in Clients : Receive(c) \/ \E i \in Ids : Flush(c, i)) \/ SyncWatches \/ SyncMisses \/ Deliver
      \/ (\E f \in Files, op \in {"WRITE", "OTHER"} : Publish(f, op)) \/ UNCHANGED vars
        => UNCHANGED Rest /\ UNCHANGED Api
  BY DEF Receive, Flush, Fire, SyncWatches, SyncMisses, Sync, Deliver, Publish, clientVars, helperVars,
     apiVars, vars
<1>10. UNCHANGED Rest /\ UNCHANGED Api => ResourceInv'
  BY <1>1, <1>2 DEF ResourceInv
<1> HIDE DEF Rest, Api
<1> QED BY <1>4, <1>5, <1>6, <1>7, <1>8, <1>9, <1>10 DEF Next, Step

\* ResourceMatchesList: where no two keys of a client are one directory and no
\* two clients have one resource, a client whose requests are all handled has
\* the resource that its list asks for, whatever was called, lost, replayed and
\* deleted before, unless its last messages found no pod, the last write failed
\* or an earlier connection has overtaken it (app.go:178-268, rust-jfs watcher.rs:174-217).
THEOREM ResourceRight ==
  ASSUME NamesFaithful, KeysApart
  PROVE  Spec => []ResourceMatchesList
<1>1. Init => ResourceInv
  <2> SUFFICES ASSUME Init PROVE ResourceInv
    OBVIOUS
  <2>1. ASSUME NEW c \in Clients PROVE Follows(c)
    <3>1. requests[c] = <<>> /\ ~link[c] /\ DOMAIN podPathMap[c] = {}
      BY DEF Init, Empty
    <3> QED BY <3>1 DEF Follows, ClearFirst, Agrees
  <2>2. Recorded
    BY DEF Init, Empty, Recorded
  <2> QED BY <2>1, <2>2 DEF Init, ResourceInv
<1>2. SystemInv /\ ResourceInv => ResourceMatchesList
  <2> DEFINE Want(c) == UNION {Path[c][k] : k \in list[c]}
  <2> SUFFICES ASSUME SystemInv, ResourceInv, NEW c \in Clients, link[c], requests[c] = <<>>,
                      Want(c) # {}, unread[c] = {}, Name[c] \notin outdated
               PROVE  Name[c] \in DOMAIN crs /\ {Clean(p) : p \in crs[Name[c]]} = Want(c)
    BY DEF ResourceMatchesList
  <2>1. list[c] \subseteq Keys[c]
    BY DEF SystemInv, RequestsOK
  <2>2. \A k \in Keys[c] : IF k \in list[c] THEN Nodes(c, {k}) \subseteq DOMAIN podPathMap[c]
                           ELSE Nodes(c, {k}) \cap DOMAIN podPathMap[c] = {}
    <3>1. \A k \in Keys[c] : Unmentioned(c, k)
      BY DEF Unmentioned
    <3> QED BY <3>1 DEF ResourceInv, Follows, Agrees
  <2>3. \A p : p \in DOMAIN podPathMap[c] <=> \E k \in list[c] : p \in Nodes(c, {k})
    BY <2>1, <2>2 DEF ResourceInv, Follows
  <2>4. \A k \in Keys[c] : {Clean(p) : p \in Nodes(c, {k})} = Path[c][k]
    BY Zenon DEF NamesFaithful
  <2>5. \A x : x \in Want(c) <=> \E k \in list[c] : \E p \in Nodes(c, {k}) : x = Clean(p)
    <3> SUFFICES ASSUME NEW x
                 PROVE  x \in Want(c) <=> \E k \in list[c] : \E p \in Nodes(c, {k}) : x = Clean(p)
      OBVIOUS
    <3>1. ASSUME NEW k \in list[c] PROVE x \in Path[c][k] <=> \E p \in Nodes(c, {k}) : x = Clean(p)
      BY <2>1, <2>4
    <3>2. x \in Want(c) <=> \E k \in list[c] : x \in Path[c][k]
      OBVIOUS
    <3> QED BY <3>1, <3>2
  <2>6. DOMAIN podPathMap[c] # {}
    BY <2>3, <2>5
  <2>7. Name[c] \in DOMAIN crs /\ crs[Name[c]] = DOMAIN podPathMap[c]
    BY <2>6 DEF ResourceInv, Recorded
  <2>8. \A x : x \in {Clean(p) : p \in DOMAIN podPathMap[c]} <=> x \in Want(c)
    BY <2>3, <2>5
  <2> QED BY <2>7, <2>8
<1>3. SystemInv /\ ResourceInv /\ [Next]_vars => SystemInv' /\ ResourceInv'
  BY StepInv, StepResource
<1> QED BY <1>1, <1>2, <1>3, InitInv, PTL DEF Spec
=============================================================================
