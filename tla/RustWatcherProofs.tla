------------------------- MODULE RustWatcherProofs -------------------------
(***************************************************************************)
(* Proofs about module RustWatcher, for any paths, callers, channel        *)
(* capacity and number of workers: its type invariant and                  *)
(* ServerMatchesList.                                                      *)
(***************************************************************************)
EXTENDS RustWatcher, TLAPS

USE SendCapAssumption, BoundAssumption DEF managerVars, taskVars, callVars

----------------------------------------------------------------------------
\* The writer runs only while the manager waits for it, what it has to write
\* is what it received, and a connection starts with nothing registered.
Phases ==
  /\ manager = "connect" => retryCount <= MaxRetries
  /\ manager # "join" => writer \in {"none", "exit"}
  /\ manager \in {"list", "resend"} => reg = {}

TypeInv == TypeOK /\ Phases

\* CLEAR, WATCH and UNWATCH are messages; "none in hand" is not.
LEMMA MsgFacts ==
  /\ NoMsg \notin Msgs /\ Clear \in Msgs
  /\ \A ps \in SUBSET Paths : [type |-> "WATCH", paths |-> ps] \in Msgs
  /\ \A ps \in SUBSET Paths : [type |-> "UNWATCH", paths |-> ps] \in Msgs
BY DEF NoMsg, Msgs, Clear

\* A send finds room in the channel and leaves it within its capacity.
LEMMA QueueType ==
  ASSUME NEW c \in Seq(Msgs), Len(c) < SendCap, NEW m \in Msgs
  PROVE  Append(c, m) \in Seq(Msgs) /\ Len(Append(c, m)) <= SendCap
OBVIOUS

\* What is received is a message, and the rest is a channel.
LEMMA DequeueType ==
  ASSUME NEW c \in Seq(Msgs), c # <<>>
  PROVE  /\ Head(c) \in Msgs /\ Tail(c) \in Seq(Msgs)
         /\ Len(c) \in Nat \ {0} /\ Len(Tail(c)) = Len(c) - 1
OBVIOUS

\* Types and phases hold at the start.
LEMMA TypeInit == Init => TypeInv
<1> SUFFICES ASSUME Init
             PROVE  TypeInv
  OBVIOUS
<1>1. channel \in Seq(Msgs) /\ Len(channel) <= SendCap
  BY MsgFacts DEF Init
<1>2. call \in [Callers -> Msgs \cup {NoMsg}]
  BY DEF Init
<1>3. /\ retryCount \in 0..MaxRetries + 1 /\ retryCount <= MaxRetries
      /\ conns \in 0..MaxConns /\ calls \in 0..MaxCalls
  BY DEF Init
<1>4. out \in Msgs \cup {NoMsg} /\ (out # NoMsg <=> writer = "write")
  BY DEF Init
<1> QED
  BY <1>1, <1>2, <1>3, <1>4 DEF Init, TypeInv, TypeOK, Phases

\* Every step of the manager, the two tasks and the callers keeps the types and
\* the phases of a connection.
LEMMA TypeStep == TypeInv /\ [Next]_vars => TypeInv'
<1> SUFFICES ASSUME TypeInv, [Next]_vars
             PROVE  TypeInv'
  OBVIOUS
<1> USE DEF TypeInv, TypeOK, Phases
<1>1. CASE Connect \/ ConnectFails
  BY <1>1 DEF Connect, ConnectFails
<1>2. CASE ManagerStep
  <2>1. CASE ListWatches
    BY <2>1 DEF ListWatches, Resending, Spawn
  <2>2. CASE Resend
    <3>1. channel' \in Seq(Msgs) /\ Len(channel') <= SendCap
      BY <2>2, MsgFacts, QueueType DEF Resend
    <3> QED
      BY <2>2, <3>1 DEF Resend, Spawn
  <2>3. CASE Join
    BY <2>3 DEF Join
  <2> QED
    BY <1>2, <2>1, <2>2, <2>3 DEF ManagerStep
<1>3. CASE ReaderStep \/ ReadFrame
  BY <1>3 DEF ReaderStep, ReadFrame, ReaderStart, ReaderCheck, ReadError, ReaderGoes
<1>4. CASE WriterStep
  <2>1. CASE WriterStart \/ WriterCheck \/ RecvTimeout
    BY <2>1 DEF WriterStart, WriterCheck, RecvTimeout, Timeout, WriterGoes
  <2>2. CASE Recv
    <3>1. /\ channel' \in Seq(Msgs) /\ Len(channel') <= SendCap
          /\ out' \in Msgs /\ writer' = "write" /\ writer = "recv"
      BY <2>2, DequeueType DEF Recv, WriterGoes
    <3> QED
      BY <2>2, <3>1, MsgFacts DEF Recv, WriterGoes
  <2>3. CASE Write
    <3>1. reg' \in SUBSET Paths
      <4>1. out \in Msgs
        BY <2>3 DEF Write, WriterGoes
      <4> QED
        BY <2>3, <4>1 DEF Write, Register, Msgs
    <3> QED
      BY <2>3, <3>1 DEF Write, WriterGoes
  <2>4. CASE WriteLost
    BY <2>4 DEF WriteLost, WriterGoes
  <2> QED
    BY <1>4, <2>1, <2>2, <2>3, <2>4 DEF WriterStep
<1>5. ASSUME NEW u \in Callers, SendWatchMessage(u)
      PROVE  TypeInv'
  <2>1. channel' \in Seq(Msgs) /\ Len(channel') <= SendCap
    BY <1>5, QueueType DEF SendWatchMessage, SendWithin
  <2> QED
    BY <1>5, <2>1 DEF SendWatchMessage, SendWithin, CallRest
<1>6. ASSUME NEW u \in Callers, NEW p \in Paths, AddWith(u, p) \/ Remove(u, p)
      PROVE  TypeInv'
  <2>1. call' \in [Callers -> Msgs \cup {NoMsg}]
    BY <1>6, MsgFacts DEF AddWith, Remove, Begin
  <2>2. watches' \in SUBSET Paths /\ raced' \in SUBSET Paths /\ calls' \in 0..MaxCalls
    BY <1>6 DEF AddWith, Remove, Begin
  <2> QED
    BY <1>6, <2>1, <2>2 DEF AddWith, Remove, Begin, CallRest
<1>7. CASE Drop \/ LinkBreaks
  BY <1>7 DEF Drop, LinkBreaks, CallRest
<1>8. CASE UNCHANGED vars
  BY <1>8 DEF vars
<1> QED
  BY <1>1, <1>2, <1>3, <1>4, <1>5, <1>6, <1>7, <1>8 DEF Next

\* The types hold at every moment (watcher.rs, utils.rs): the channel never
\* holds more than its capacity, retry_count stops at MAX_RETRIES + 1.
THEOREM Typing == Spec => []TypeOK
BY TypeInit, TypeStep, PTL DEF Spec, TypeInv

----------------------------------------------------------------------------
\* A message decides what becomes of path p.
Touches(m, p) == m.type = "CLEAR" \/ p \in m.paths

\* Message m says of path p what list ws says.
Agrees(m, p, ws) == m.type = "WATCH" <=> p \in ws

\* No message in channel c is about path p.
Quiet(c, p) == \A j \in 1..Len(c) : ~Touches(c[j], p)

\* The last message in channel c about path p says what list ws says.
LastAgrees(c, p, ws) ==
  \A i \in 1..Len(c) :
    Touches(c[i], p) /\ (\A j \in 1..Len(c) : i < j => ~Touches(c[j], p)) => Agrees(c[i], p, ws)

\* No call about path p is under way, nor was one caller's overtaken by another's.
Calm(p) == p \notin raced /\ \A u \in Callers : p \notin call[u].paths

\* The last message about a path, wherever it is, agrees with the list; and so
\* does the server once there is none.
PathInv(p) ==
  /\ LastAgrees(channel, p, watches)
  /\ Quiet(channel, p) /\ Touches(out, p) => Agrees(out, p, watches)
  /\ Quiet(channel, p) /\ ~Touches(out, p) /\ manager = "join" /\ link = "up" =>
       (p \in reg <=> p \in watches)

\* A call under way sends one path, and agrees with the list.
CallInv ==
  \A u \in Callers : call[u] # NoMsg =>
    /\ call[u].type \in {"WATCH", "UNWATCH"}
    /\ \E p \in Paths : call[u].paths = {p}
    /\ \A p \in call[u].paths \ raced : Agrees(call[u], p, watches)

MatchInv == CallInv /\ \A p \in Paths : Calm(p) => PathInv(p)

\* What a message appended to the channel changes.
LEMMA AppendFacts ==
  ASSUME NEW c \in Seq(Msgs), NEW m \in Msgs, NEW p, NEW ws
  PROVE  /\ Quiet(Append(c, m), p) <=> Quiet(c, p) /\ ~Touches(m, p)
         /\ Touches(m, p) /\ Agrees(m, p, ws) => LastAgrees(Append(c, m), p, ws)
         /\ ~Touches(m, p) /\ LastAgrees(c, p, ws) => LastAgrees(Append(c, m), p, ws)
<1> DEFINE d == Append(c, m)
<1>1. /\ Len(c) \in Nat /\ Len(d) = Len(c) + 1 /\ d[Len(c) + 1] = m
      /\ \A i \in 1..Len(c) : d[i] = c[i]
  OBVIOUS
<1> HIDE DEF d
<1>2. Quiet(d, p) <=> Quiet(c, p) /\ ~Touches(m, p)
  <2>1. ASSUME Quiet(d, p)
        PROVE  Quiet(c, p) /\ ~Touches(m, p)
    BY <1>1, <2>1 DEF Quiet
  <2>2. ASSUME Quiet(c, p), ~Touches(m, p)
        PROVE  Quiet(d, p)
    BY <1>1, <2>2 DEF Quiet
  <2> QED
    BY <2>1, <2>2
<1>3. ASSUME Touches(m, p), Agrees(m, p, ws)
      PROVE  LastAgrees(d, p, ws)
  BY <1>1, <1>3 DEF LastAgrees
<1>4. ASSUME ~Touches(m, p), LastAgrees(c, p, ws)
      PROVE  LastAgrees(d, p, ws)
  <2> SUFFICES ASSUME NEW i \in 1..Len(d), Touches(d[i], p),
                      \A j \in 1..Len(d) : i < j => ~Touches(d[j], p)
               PROVE  Agrees(d[i], p, ws)
    BY DEF LastAgrees
  <2>1. i \in 1..Len(c) /\ d[i] = c[i]
    BY <1>1, <1>4
  <2>2. \A j \in 1..Len(c) : i < j => ~Touches(c[j], p)
    BY <1>1
  <2> QED
    BY <1>4, <2>1, <2>2 DEF LastAgrees
<1> QED
  BY <1>2, <1>3, <1>4 DEF d

\* What is taken from the channel keeps its place before the rest.
LEMMA TailFacts ==
  ASSUME NEW c \in Seq(Msgs), c # <<>>, NEW p, NEW ws, LastAgrees(c, p, ws)
  PROVE  /\ LastAgrees(Tail(c), p, ws)
         /\ Quiet(Tail(c), p) /\ Touches(Head(c), p) => Agrees(Head(c), p, ws)
         /\ Quiet(Tail(c), p) /\ ~Touches(Head(c), p) => Quiet(c, p)
<1> DEFINE d == Tail(c)
           h == Head(c)
<1>1. /\ Len(c) \in Nat \ {0} /\ Len(d) = Len(c) - 1 /\ h = c[1]
      /\ \A i \in 1..Len(d) : d[i] = c[i + 1]
  OBVIOUS
<1>2. \A i \in 1..Len(c) : i # 1 => i - 1 \in 1..Len(d) /\ c[i] = d[i - 1]
  BY <1>1
<1> HIDE DEF d, h
<1>3. LastAgrees(d, p, ws)
  <2> SUFFICES ASSUME NEW i \in 1..Len(d), Touches(d[i], p),
                      \A j \in 1..Len(d) : i < j => ~Touches(d[j], p)
               PROVE  Agrees(d[i], p, ws)
    BY DEF LastAgrees
  <2>1. i + 1 \in 1..Len(c) /\ d[i] = c[i + 1]
    BY <1>1
  <2>2. \A j \in 1..Len(c) : i + 1 < j => ~Touches(c[j], p)
    BY <1>1, <1>2
  <2> QED
    BY <2>1, <2>2 DEF LastAgrees
<1>4. ASSUME Quiet(d, p), Touches(h, p)
      PROVE  Agrees(h, p, ws)
  <2>1. \A j \in 1..Len(c) : 1 < j => ~Touches(c[j], p)
    BY <1>1, <1>2, <1>4 DEF Quiet
  <2> QED
    BY <1>1, <1>4, <2>1 DEF LastAgrees
<1>5. ASSUME Quiet(d, p), ~Touches(h, p)
      PROVE  Quiet(c, p)
  BY <1>1, <1>2, <1>5 DEF Quiet
<1> QED
  BY <1>3, <1>4, <1>5 DEF d, h

----------------------------------------------------------------------------
\* Nothing is listed, sent or registered at the start.
LEMMA MatchInit == Init => MatchInv
<1> SUFFICES ASSUME Init
             PROVE  MatchInv
  OBVIOUS
<1>1. CallInv
  BY DEF Init, CallInv
<1>2. ASSUME NEW p \in Paths
      PROVE  PathInv(p)
  <2>1. Len(channel) = 1 /\ channel[1] = Clear
    BY DEF Init
  <2>2. ~Quiet(channel, p)
    BY <2>1 DEF Quiet, Touches, Clear
  <2>3. LastAgrees(channel, p, watches)
    BY <2>1 DEF Init, LastAgrees, Agrees, Clear
  <2> QED
    BY <2>2, <2>3 DEF PathInv
<1> QED
  BY <1>1, <1>2 DEF MatchInv

\* The manager: a new connection has nothing registered, and the replay puts
\* every listed path behind what was left in the channel.
LEMMA ManagerMatch ==
  ASSUME TypeInv, MatchInv, Connect \/ ConnectFails \/ ManagerStep
  PROVE  MatchInv'
<1>1. UNCHANGED <<watches, call, raced, out>>
  BY DEF Connect, ConnectFails, ManagerStep, ListWatches, Resending, Spawn, Resend, Join,
         TypeInv, TypeOK, Phases
<1>2. CallInv'
  BY <1>1 DEF MatchInv, CallInv
<1>3. ASSUME NEW p \in Paths, Calm(p)'
      PROVE  PathInv(p)'
  <2>1. PathInv(p)
    BY <1>1, <1>3 DEF MatchInv, Calm
  <2>2. CASE UNCHANGED channel /\ (manager' # "join" \/ UNCHANGED <<manager, link, reg>>)
    BY <1>1, <2>1, <2>2 DEF PathInv
  <2>3. CASE ListWatches /\ watches = {}
    BY <1>1, <2>1, <2>3 DEF ListWatches, Resending, Spawn, PathInv, TypeInv, Phases
  <2>4. CASE Resend
    <3> DEFINE m == [type |-> "WATCH", paths |-> watches]
    <3>1. /\ channel \in Seq(Msgs) /\ m \in Msgs /\ channel' = Append(channel, m)
          /\ UNCHANGED reg /\ reg = {}
      BY <2>4, MsgFacts DEF Resend, TypeInv, TypeOK, Phases
    <3>2. Touches(m, p) <=> p \in watches
      BY DEF Touches
    <3>3. Touches(m, p) => Agrees(m, p, watches)
      BY DEF Touches, Agrees
    <3> HIDE DEF m
    <3>4. LastAgrees(channel', p, watches)
      BY <2>1, <3>1, <3>3, AppendFacts DEF PathInv
    <3>5. Quiet(channel', p) => Quiet(channel, p) /\ p \notin watches
      BY <3>1, <3>2, AppendFacts
    <3> QED
      BY <1>1, <2>1, <3>1, <3>4, <3>5 DEF PathInv
  <2> QED
    BY <2>2, <2>3, <2>4 DEF Connect, ConnectFails, ManagerStep, ListWatches, Resending, Spawn, Join
<1> QED
  BY <1>2, <1>3 DEF MatchInv

\* The writer: a message moves from the channel to the writer and from there
\* to the server, or it is lost with the connection.
LEMMA WriterMatch ==
  ASSUME TypeInv, MatchInv, WriterStep
  PROVE  MatchInv'
<1>1. UNCHANGED <<watches, call, raced, manager, link>>
  BY DEF WriterStep, WriterStart, WriterCheck, Recv, RecvTimeout, Timeout, Write, WriteLost, WriterGoes
<1>2. CallInv'
  BY <1>1 DEF MatchInv, CallInv
<1>3. ASSUME NEW p \in Paths, Calm(p)'
      PROVE  PathInv(p)'
  <2>1. PathInv(p)
    BY <1>1, <1>3 DEF MatchInv, Calm
  <2>a. ~Touches(NoMsg, p)
    BY DEF NoMsg, Touches
  <2>2. CASE WriterStart \/ WriterCheck \/ RecvTimeout
    <3>1. UNCHANGED <<channel, out, reg>>
      BY <2>2 DEF WriterStart, WriterCheck, RecvTimeout, Timeout, WriterGoes, TypeInv, TypeOK
    <3> QED
      BY <1>1, <2>1, <3>1 DEF PathInv
  <2>3. CASE Recv
    <3>1. /\ channel \in Seq(Msgs) /\ channel # <<>> /\ channel' = Tail(channel)
          /\ out = NoMsg /\ out' = Head(channel) /\ UNCHANGED reg
      BY <2>3 DEF Recv, WriterGoes, TypeInv, TypeOK
    <3>2. LastAgrees(channel, p, watches)
      BY <2>1 DEF PathInv
    <3>3. /\ LastAgrees(channel', p, watches)
          /\ Quiet(channel', p) /\ Touches(out', p) => Agrees(out', p, watches)
          /\ Quiet(channel', p) /\ ~Touches(out', p) => Quiet(channel, p)
      BY <3>1, <3>2, TailFacts
    <3> QED
      BY <1>1, <2>1, <2>a, <3>1, <3>3 DEF PathInv
  <2>4. CASE Write
    <3>1. out \in Msgs /\ out' = NoMsg /\ reg' = Register(out) /\ UNCHANGED channel
      BY <2>4 DEF Write, WriterGoes, TypeInv, TypeOK
    <3>2. Touches(out, p) => (p \in reg' <=> out.type = "WATCH")
      BY <3>1 DEF Touches, Register, Msgs
    <3>3. ~Touches(out, p) => (p \in reg' <=> p \in reg)
      BY <3>1 DEF Touches, Register, Msgs
    <3> QED
      BY <1>1, <2>1, <2>a, <3>1, <3>2, <3>3 DEF PathInv, Agrees
  <2>5. CASE WriteLost
    <3>1. link = "down" /\ out' = NoMsg /\ UNCHANGED channel
      BY <2>5 DEF WriteLost, WriterGoes
    <3> QED
      BY <1>1, <2>1, <2>a, <3>1 DEF PathInv
  <2> QED
    BY <2>2, <2>3, <2>4, <2>5 DEF WriterStep
<1> QED
  BY <1>2, <1>3 DEF MatchInv

\* A call changes the list first: from then on, until it has sent its message,
\* the path is not calm.
LEMMA BeginMatch ==
  ASSUME TypeInv, MatchInv, NEW u \in Callers, NEW q \in Paths, AddWith(u, q) \/ Remove(u, q)
  PROVE  MatchInv'
<1> DEFINE type == IF q \in watches' THEN "WATCH" ELSE "UNWATCH"
           m == [type |-> type, paths |-> {q}]
<1>1. /\ call \in [Callers -> Msgs \cup {NoMsg}] /\ call' = [call EXCEPT ![u] = m]
      /\ UNCHANGED <<channel, out, manager, link, reg>>
      /\ \A p \in Paths : p # q => (p \in watches' <=> p \in watches)
  BY DEF AddWith, Remove, Begin, CallRest, TypeInv, TypeOK
<1>2. /\ raced \subseteq raced' /\ raced' \subseteq raced \cup {q}
      /\ q \notin raced' => \A v \in Callers : call[v].paths = {q} => call[v].type = type
  BY DEF AddWith, Remove, Begin
<1> HIDE DEF type
<1>3. m.type = type /\ m.paths = {q} /\ Agrees(m, q, watches')
  BY DEF Agrees, type
<1> HIDE DEF m
<1>4. CallInv'
  <2> SUFFICES ASSUME NEW v \in Callers, call'[v] # NoMsg
               PROVE  /\ call'[v].type \in {"WATCH", "UNWATCH"}
                      /\ \E p \in Paths : call'[v].paths = {p}
                      /\ \A p \in call'[v].paths \ raced' : Agrees(call'[v], p, watches')
    BY DEF CallInv
  <2>1. CASE v = u
    BY <1>1, <1>3, <2>1 DEF type
  <2>2. CASE v # u
    <3>1. call'[v] = call[v]
      BY <1>1, <2>2
    <3>2. PICK r \in Paths : call[v].paths = {r}
      BY <3>1 DEF MatchInv, CallInv
    <3>3. /\ call[v].type \in {"WATCH", "UNWATCH"}
          /\ r \notin raced => Agrees(call[v], r, watches)
      BY <3>1, <3>2 DEF MatchInv, CallInv
    <3>4. r \notin raced' => Agrees(call[v], r, watches')
      <4>1. CASE r = q
        BY <1>2, <3>2, <4>1 DEF Agrees, type
      <4>2. CASE r # q
        BY <1>1, <1>2, <3>3, <4>2 DEF Agrees
      <4> QED
        BY <4>1, <4>2
    <3> QED
      BY <3>1, <3>2, <3>3, <3>4
  <2> QED
    BY <2>1, <2>2
<1>5. ASSUME NEW p \in Paths, Calm(p)'
      PROVE  PathInv(p)'
  <2>1. p # q /\ p \notin raced
    BY <1>1, <1>2, <1>3, <1>5 DEF Calm
  <2>2. ASSUME NEW v \in Callers
        PROVE  p \notin call[v].paths
    <3>1. CASE v = u
      BY <3>1 DEF AddWith, Remove, Begin, NoMsg
    <3>2. CASE v # u
      BY <1>1, <1>5, <3>2 DEF Calm
    <3> QED
      BY <3>1, <3>2
  <2>3. PathInv(p)
    BY <2>1, <2>2 DEF MatchInv, Calm
  <2>4. p \in watches' <=> p \in watches
    BY <1>1, <2>1
  <2> QED
    BY <1>1, <2>3, <2>4 DEF PathInv, LastAgrees, Agrees
<1> QED
  BY <1>4, <1>5 DEF MatchInv

\* The message of a call becomes the last one about its path, and agrees with
\* the list as it is by then.
LEMMA SendMatch ==
  ASSUME TypeInv, MatchInv, NEW u \in Callers, SendWatchMessage(u)
  PROVE  MatchInv'
<1> DEFINE m == call[u]
<1>1. /\ call \in [Callers -> Msgs \cup {NoMsg}] /\ call' = [call EXCEPT ![u] = NoMsg]
      /\ m # NoMsg /\ m \in Msgs /\ channel \in Seq(Msgs) /\ channel' = Append(channel, m)
      /\ UNCHANGED <<watches, raced, out, manager, link, reg>>
  BY DEF SendWatchMessage, SendWithin, CallRest, TypeInv, TypeOK
<1>2. /\ m.type \in {"WATCH", "UNWATCH"}
      /\ \A p \in m.paths \ raced : Agrees(m, p, watches)
  BY <1>1 DEF MatchInv, CallInv
<1> HIDE DEF m
<1>3. CallInv'
  BY <1>1 DEF MatchInv, CallInv
<1>4. ASSUME NEW p \in Paths, Calm(p)'
      PROVE  PathInv(p)'
  <2>1. p \notin raced /\ \A v \in Callers : v # u => p \notin call[v].paths
    BY <1>1, <1>4 DEF Calm
  <2>2. CASE p \in m.paths
    <3>1. Touches(m, p) /\ Agrees(m, p, watches)
      BY <1>2, <2>1, <2>2 DEF Touches
    <3>2. LastAgrees(channel', p, watches) /\ ~Quiet(channel', p)
      BY <1>1, <3>1, AppendFacts
    <3> QED
      BY <1>1, <3>2 DEF PathInv
  <2>3. CASE p \notin m.paths
    <3>1. ~Touches(m, p)
      BY <1>2, <2>3 DEF Touches
    <3>2. PathInv(p)
      BY <2>1, <2>3 DEF MatchInv, Calm, m
    <3>3. LastAgrees(channel', p, watches) /\ (Quiet(channel', p) => Quiet(channel, p))
      BY <1>1, <3>1, <3>2, AppendFacts DEF PathInv
    <3> QED
      BY <1>1, <3>2, <3>3 DEF PathInv
  <2> QED
    BY <2>2, <2>3
<1> QED
  BY <1>3, <1>4 DEF MatchInv

\* Every step keeps list, channel and server in agreement.
LEMMA MatchStep == TypeInv /\ MatchInv /\ [Next]_vars => MatchInv'
<1> SUFFICES ASSUME TypeInv, MatchInv, [Next]_vars
             PROVE  MatchInv'
  OBVIOUS
<1>1. ASSUME UNCHANGED <<watches, call, raced, channel, out, manager, reg>>,
             link' = link \/ link' = "down"
      PROVE  MatchInv'
  BY <1>1 DEF MatchInv, CallInv, Calm, PathInv
<1>2. CASE ReaderStep \/ ReadFrame
  BY <1>1, <1>2 DEF ReaderStep, ReadFrame, ReaderStart, ReaderCheck, ReadError, ReaderGoes
<1>3. CASE Drop \/ LinkBreaks
  BY <1>1, <1>3 DEF Drop, LinkBreaks, CallRest
<1>4. CASE UNCHANGED vars
  BY <1>1, <1>4 DEF vars
<1> QED
  BY <1>2, <1>3, <1>4, ManagerMatch, WriterMatch, BeginMatch, SendMatch DEF Next

\* Once everything has settled, the server watches exactly what the list says,
\* apart from paths two callers fought over (watcher.rs:198, 287, 306).
THEOREM ServerFollowsList == Spec => []ServerMatchesList
<1>1. TypeInv /\ MatchInv => ServerMatchesList
  <2> SUFFICES ASSUME TypeInv, MatchInv, Settled, NEW p \in Paths, p \notin raced
               PROVE  p \in reg <=> p \in watches
    BY DEF ServerMatchesList, TypeInv, TypeOK
  <2>1. Calm(p) /\ ~Touches(out, p)
    BY DEF Settled, Calm, Touches, NoMsg
  <2>2. Quiet(channel, p)
    BY DEF Settled, Quiet
  <2> QED
    BY <2>1, <2>2 DEF MatchInv, PathInv, Settled
<1> QED
  BY <1>1, TypeInit, TypeStep, MatchInit, MatchStep, PTL DEF Spec
=============================================================================
