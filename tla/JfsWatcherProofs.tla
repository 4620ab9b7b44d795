-------------------------- MODULE JfsWatcherProofs --------------------------
(***************************************************************************)
(* Proofs about module JfsWatcher, for any callers and paths, any channel  *)
(* capacities and any number of connections and calls: its type invariant  *)
(* and ListedWatchesReplayed.                                              *)
(***************************************************************************)
EXTENDS JfsWatcher, TLAPS

USE CapAssumption, BoundAssumption DEF startVars, readerVars, senderVars, callVars

----------------------------------------------------------------------------
\* Add and Remove queue well-formed messages.
LEMMA MsgFacts ==
  /\ \A ps \in SUBSET Paths : [type |-> "WATCH", paths |-> ps] \in Msgs
  /\ \A ps \in SUBSET Paths : [type |-> "UNWATCH", paths |-> ps] \in Msgs
BY DEF Msgs

\* What an element appended to a channel or a task list changes.
LEMMA AppendFacts ==
  ASSUME NEW S, NEW q \in Seq(S), NEW e \in S
  PROVE  /\ Append(q, e) \in Seq(S) /\ Append(q, e) # <<>>
         /\ Len(q) \in Nat /\ Len(Append(q, e)) = Len(q) + 1
         /\ Append(q, e)[Len(q) + 1] = e
         /\ \A i \in 1..Len(q) : Append(q, e)[i] = q[i]
OBVIOUS

\* What taking the first element off changes.
LEMMA TailFacts ==
  ASSUME NEW S, NEW q \in Seq(S), q # <<>>
  PROVE  /\ Head(q) \in S /\ Head(q) = q[1] /\ Tail(q) \in Seq(S)
         /\ Len(q) \in Nat \ {0} /\ Len(Tail(q)) = Len(q) - 1
         /\ \A i \in 1..Len(Tail(q)) : i + 1 \in 1..Len(q) /\ Tail(q)[i] = q[i + 1]
OBVIOUS

\* All but the first element stay, one place further on.
LEMMA TailBack ==
  ASSUME NEW S, NEW q \in Seq(S), q # <<>>, NEW i \in 1..Len(q), i # 1
  PROVE  i - 1 \in 1..Len(Tail(q)) /\ Tail(q)[i - 1] = q[i]
BY TailFacts

\* The steps of start, by where it is.
LEMMA StartType ==
  ASSUME TypeOK, StartStep
  PROVE  TypeOK'
<1> USE DEF TypeOK
<1>1. CASE Top \/ DialFails
  BY <1>1 DEF Top, DialFails, StartGoes
<1>2. CASE Dial
  <2>1. conns + 1 \in Conns /\ conns + 1 \in 0..MaxConns /\ conns + 1 # 0
    BY <1>2 DEF Dial, Conns
  <2>2. initTask' \in Seq({"clear", "addWatch"})
    BY <1>2, AppendFacts DEF Dial
  <2> QED
    BY <1>2, <2>1, <2>2 DEF Dial
<1>3. CASE SendClear
  <2>1. initTask' \in Seq({"clear", "addWatch"})
    BY <1>3, TailFacts DEF SendClear
  <2>2. reg' \in SUBSET Paths /\ starter' \in {"batch", "signal"}
    BY <1>3 DEF SendClear, StartGoes
  <2> QED
    BY <1>3, <2>1, <2>2 DEF SendClear, StartGoes
<1>4. CASE AddWatch
  <2>1. initTask' \in Seq({"clear", "addWatch"})
    BY <1>4, TailFacts DEF AddWatch, AddWatchIf
  <2> QED
    BY <1>4, <2>1 DEF AddWatch, AddWatchIf, StartGoes
<1>5. CASE Replay
  <2>1. sendQ' \in Seq(Msgs) /\ Len(sendQ') <= SendCap
    <3>1. [type |-> "WATCH", paths |-> watches] \in Msgs
      BY MsgFacts
    <3> QED
      BY <1>5, <3>1, AppendFacts DEF Replay
  <2> QED
    BY <1>5, <2>1 DEF Replay, StartGoes
<1>6. CASE Drop
  <2>1. reconnect' \in 0..ReconnectCap /\ fconn' \in 0..MaxConns
    BY <1>6 DEF Drop
  <2> QED
    BY <1>6, <2>1 DEF Drop, StartGoes
<1>7. CASE Clear
  BY <1>7 DEF Clear, Panic
<1>8. CASE ClearSignal
  BY <1>8 DEF ClearSignal, StartGoes
<1> QED
  BY <1>1, <1>2, <1>3, <1>4, <1>5, <1>6, <1>7, <1>8 DEF StartStep

\* The steps of the readers.
LEMMA ReaderType ==
  ASSUME TypeOK, NEW i \in Conns, ReaderStep(i) \/ ReadFrame(i)
  PROVE  TypeOK'
<1> USE DEF TypeOK
<1>1. CASE ReaderNil(i)
  BY <1>1 DEF ReaderNil, Panic
<1>0. 0 \in 0..MaxConns
  OBVIOUS
<1>2. ASSUME NEW from, NEW to \in {"enter", "read", "exit"}, NEW c \in 0..MaxConns,
             ReaderGoes(i, from, to, c), reconnect' \in 0..ReconnectCap
      PROVE  TypeOK'
  <2>1. /\ reader' \in [Conns -> {"none", "enter", "read", "exit"}]
        /\ rconn' \in [Conns -> 0..MaxConns]
    BY <1>2 DEF ReaderGoes
  <2> QED
    BY <1>2, <2>1 DEF ReaderGoes
<1>3. CASE ReadError(i)
  <2>1. reconnect' \in 0..ReconnectCap
    BY <1>3 DEF ReadError
  <2> QED
    BY <1>0, <1>2, <1>3, <2>1 DEF ReadError
<1>4. CASE ReaderDone(i) \/ ReaderEnter(i) \/ ReadFrame(i)
  <2>1. reconnect' \in 0..ReconnectCap
    BY <1>4 DEF ReaderDone, ReaderEnter, ReadFrame
  <2> QED
    BY <1>0, <1>2, <1>4, <2>1 DEF ReaderDone, ReaderEnter, ReadFrame
<1> QED
  BY <1>1, <1>3, <1>4 DEF ReaderStep

\* The steps of the senders.
LEMMA SenderType ==
  ASSUME TypeOK, NEW i \in Conns, SenderStep(i)
  PROVE  TypeOK'
<1> DEFINE States == {"none", "check", "select", "write", "frame", "flush", "signal", "exit"}
<1>t. /\ sender \in [Conns -> States] /\ out \in [Conns -> Msgs \cup {NoMsg}]
      /\ wconn \in [Conns -> 0..MaxConns] /\ fconn \in 0..MaxConns
      /\ sendQ \in Seq(Msgs) /\ Len(sendQ) <= SendCap /\ reg \in SUBSET Paths
      /\ reconnect \in 0..ReconnectCap
  BY DEF TypeOK
<1>g. ASSUME NEW from, NEW to \in States, NEW msg \in Msgs \cup {NoMsg}, SenderGoes(i, from, to, msg),
             sendQ' \in Seq(Msgs) /\ Len(sendQ') <= SendCap, reg' \in SUBSET Paths,
             reconnect' \in 0..ReconnectCap
      PROVE  TypeOK'
  <2>1. /\ sender' \in [Conns -> States] /\ out' \in [Conns -> Msgs \cup {NoMsg}]
        /\ wconn' \in [Conns -> 0..MaxConns]
    BY <1>g, <1>t DEF SenderGoes
  <2>2. UNCHANGED <<startVars, link, mu, crashed, readerVars, callVars>>
    BY <1>g DEF SenderGoes
  <2> QED
    BY <1>g, <2>1, <2>2 DEF TypeOK
<1>0. out[i] \in Msgs \cup {NoMsg} /\ NoMsg \in Msgs \cup {NoMsg}
  BY <1>t
<1>1. CASE SenderCheck(i) \/ SenderDone(i) \/ SyncWrite(i) \/ LoadConn(i) \/ WriteLost(i)
  <2>1. /\ \E from, to \in States : \E msg \in Msgs \cup {NoMsg} : SenderGoes(i, from, to, msg)
        /\ UNCHANGED <<sendQ, reconnect, reg>>
    BY <1>0, <1>1 DEF SenderCheck, SenderDone, SenderEnds, SyncWrite, LoadConn, WriteLost
  <2> QED
    BY <1>t, <1>g, <2>1
<1>2. CASE SenderTake(i)
  <2>1. Head(sendQ) \in Msgs /\ sendQ' \in Seq(Msgs) /\ Len(sendQ') <= SendCap
    BY <1>2, <1>t, TailFacts, CapAssumption DEF SenderTake
  <2> QED
    BY <1>2, <1>t, <1>g, <2>1 DEF SenderTake
<1>3. CASE WriteFrame(i)
  <2>1. reg' \in SUBSET Paths
    BY <1>0, <1>3, <1>t DEF WriteFrame, Register, Msgs, NoMsg
  <2> QED
    BY <1>0, <1>3, <1>t, <1>g, <2>1 DEF WriteFrame
<1>4. CASE LoadNil(i)
  BY <1>4 DEF LoadNil, Panic, TypeOK
<1>5. CASE SenderSignal(i)
  <2>1. reconnect' \in 0..ReconnectCap
    BY <1>5, <1>t DEF SenderSignal
  <2> QED
    BY <1>0, <1>5, <1>t, <1>g, <2>1 DEF SenderSignal
<1> QED
  BY <1>1, <1>2, <1>3, <1>4, <1>5 DEF SenderStep

\* The steps of the callers: Add, Remove and Close.
LEMMA CallType ==
  ASSUME TypeOK, NEW u \in Callers, NEW p \in Paths, CallStep(u) \/ Close(u) \/ Call(u, p)
  PROVE  TypeOK'
<1>t. /\ caller \in [Callers -> {"idle", "add", "record", "lock", "remove"}]
      /\ arg \in [Callers -> Paths] /\ {watches, removed} \subseteq SUBSET Paths
      /\ mu \in {"free", "start", "remove"} /\ calls \in 0..MaxCalls
  BY DEF TypeOK
<1>1. CASE AddSend(u)
  <2>1. [type |-> "WATCH", paths |-> {arg[u]}] \in Msgs
    BY <1>t, MsgFacts
  <2>2. sendQ' \in Seq(Msgs) /\ Len(sendQ') <= SendCap
    BY <1>1, <2>1, AppendFacts DEF AddSend, AddSendWithin, TypeOK
  <2> QED
    BY <1>1, <2>2 DEF AddSend, AddSendWithin, CallGoes, TypeOK
<1>2. CASE AddRecord(u) \/ RemoveLock(u)
  <2>1. /\ caller' \in [Callers -> {"idle", "add", "record", "lock", "remove"}]
        /\ watches' \in SUBSET Paths /\ mu' \in {"free", "start", "remove"}
    BY <1>t, <1>2 DEF AddRecord, RemoveLock, CallGoes
  <2>2. UNCHANGED <<startVars, reconnect, link, crashed, readerVars, senderVars, reg, sendQ,
                    closed, arg, calls, removed>>
    BY <1>2 DEF AddRecord, RemoveLock, CallGoes
  <2> QED
    BY <2>1, <2>2 DEF TypeOK
<1>3. CASE Remove(u)
  <2>1. [type |-> "UNWATCH", paths |-> {arg[u]}] \in Msgs
    BY <1>t, MsgFacts
  <2>2. sendQ' \in Seq(Msgs) /\ Len(sendQ') <= SendCap
    BY <1>3, <2>1, AppendFacts DEF Remove, RemoveThen, TypeOK
  <2> QED
    BY <1>3, <2>2 DEF Remove, RemoveThen, CallGoes, TypeOK
<1>4. CASE Close(u)
  BY <1>4 DEF Close, CallGoes, TypeOK
<1>5. CASE Call(u, p)
  <2>1. /\ caller' \in [Callers -> {"idle", "add", "record", "lock", "remove"}]
        /\ removed' \in SUBSET Paths /\ arg' \in [Callers -> Paths] /\ calls' \in 0..MaxCalls
    BY <1>t, <1>5 DEF Call, CallGoes
  <2>2. UNCHANGED <<startVars, reconnect, link, crashed, readerVars, senderVars, reg, sendQ,
                    closed, watches, mu>>
    BY <1>5 DEF Call, CallGoes
  <2> QED
    BY <2>1, <2>2 DEF TypeOK
<1> QED
  BY <1>1, <1>2, <1>3, <1>4, <1>5 DEF CallStep

\* Types hold at the start.
LEMMA TypeInit == Init => TypeOK
<1> SUFFICES ASSUME Init
             PROVE  TypeOK
  OBVIOUS
<1>1. initTask \in Seq({"clear", "addWatch"}) /\ sendQ \in Seq(Msgs) /\ Len(sendQ) <= SendCap
  BY DEF Init
<1>2. arg \in [Callers -> Paths]
  BY PathsAssumption DEF Init
<1>3. /\ reader \in [Conns -> {"none", "enter", "read", "exit"}]
      /\ {rconn, wconn} \subseteq [Conns -> 0..MaxConns] /\ out \in [Conns -> Msgs \cup {NoMsg}]
      /\ sender \in [Conns -> {"none", "check", "select", "write", "frame", "flush", "signal", "exit"}]
      /\ caller \in [Callers -> {"idle", "add", "record", "lock", "remove"}]
  BY DEF Init
<1>4. /\ reconnect \in 0..ReconnectCap /\ fconn \in 0..MaxConns
      /\ conns \in 0..MaxConns /\ calls \in 0..MaxCalls
  BY DEF Init
<1> QED
  BY <1>1, <1>2, <1>3, <1>4 DEF Init, TypeOK

\* Every step keeps the types.
LEMMA TypeStep == TypeOK /\ [Next]_vars => TypeOK'
<1> SUFFICES ASSUME TypeOK, [Next]_vars
             PROVE  TypeOK'
  OBVIOUS
<1>1. CASE LinkBreaks
  BY <1>1 DEF LinkBreaks, TypeOK
<1>2. CASE UNCHANGED vars
  BY <1>2 DEF vars, TypeOK
<1>3. ASSUME NEW u \in Callers, CallStep(u) \/ Close(u)
      PROVE  TypeOK'
  BY <1>3, PathsAssumption, CallType
<1> QED
  BY <1>1, <1>2, <1>3, StartType, ReaderType, SenderType, CallType DEF Next

\* The types hold at every moment (backend_jfs.go): sendQ and reconnect never
\* hold more than their capacities, and w.fconn is nil only without a link.
THEOREM Typing == Spec => []TypeOK
BY TypeInit, TypeStep, PTL DEF Spec

----------------------------------------------------------------------------
\* A replay task is queued.
ReplayQueued == \E i \in 1..Len(initTask) : initTask[i] = "addWatch"

\* The CLEAR comes first, once, and a replay follows it on the connection it
\* goes to; without a connection start is at the top of its loop or dialling.
Tasks ==
  /\ starter \in {"top", "dial"} => ~link
  /\ \A i \in 1..Len(initTask) : initTask[i] = "clear" => i = 1
  /\ starter \notin {"top", "dial"} /\ initTask # <<>> /\ initTask[1] = "clear" => ReplayQueued

\* Nothing asks the server to forget path p.
NobodyRemoves(p) ==
  /\ \A i \in 1..Len(sendQ) : sendQ[i].type = "UNWATCH" => p \notin sendQ[i].paths
  /\ \A i \in Conns : out[i].type = "UNWATCH" => p \notin out[i].paths
  /\ \A u \in Callers : caller[u] \in {"lock", "remove"} => arg[u] # p

\* Sender i has a message that is still to go over the connection of the moment.
InHand(i) == sender[i] \in {"write", "frame"} \/ (sender[i] = "flush" /\ wconn[i] = fconn)

\* Path p is registered, or a message or a task that will register it is on
\* its way, unless the connection is broken.
Covered(p) ==
  \/ ~link \/ p \in reg \/ ReplayQueued \/ starter = "replay"
  \/ \E i \in 1..Len(sendQ) : sendQ[i].type = "WATCH" /\ p \in sendQ[i].paths
  \/ \E i \in Conns : InHand(i) /\ out[i].type = "WATCH" /\ p \in out[i].paths

ReplayInv ==
  /\ Tasks
  /\ \A p \in Paths \ removed :
       NobodyRemoves(p) /\ (p \in listed => p \in watches /\ Covered(p))

\* Nothing is listed, queued or connected at the start.
LEMMA ReplayInit == Init => ReplayInv
<1> SUFFICES ASSUME Init
             PROVE  ReplayInv
  OBVIOUS
<1>1. Len(initTask) = 1 /\ initTask[1] = "clear" /\ starter = "top" /\ link = FALSE
  BY DEF Init
<1>2. Tasks
  BY <1>1 DEF Tasks
<1>3. \A p \in Paths : NobodyRemoves(p)
  BY DEF Init, NobodyRemoves, NoMsg
<1> QED
  BY <1>2, <1>3 DEF Init, ReplayInv

\* The start goroutine: a new connection gets a replay task behind the CLEAR,
\* and the task turns into one WATCH for every listed path.
LEMMA StartReplay ==
  ASSUME TypeOK, ReplayInv, StartStep
  PROVE  ReplayInv'
<1> DEFINE TaskNames == {"clear", "addWatch"}
<1>t. initTask \in Seq(TaskNames) /\ sendQ \in Seq(Msgs)
  BY DEF TypeOK
<1>a. UNCHANGED <<watches, removed, out, wconn, caller, arg>>
  BY DEF StartStep, Top, DialFails, Dial, SendClear, ClearSignal, AddWatch, AddWatchIf, Replay, Drop, Clear, Panic, StartGoes
<1>b. Tasks /\ \A p \in Paths \ removed :
                 NobodyRemoves(p) /\ (p \in listed => p \in watches /\ Covered(p))
  BY DEF ReplayInv
<1>1. CASE Top \/ DialFails
  <2>1. /\ UNCHANGED <<initTask, listed, sendQ, link, fconn, sender, reg>>
        /\ starter \in {"top", "dial"} /\ starter' \in {"top", "dial"}
    BY <1>1 DEF Top, DialFails, StartGoes
  <2> QED
    BY <1>a, <1>b, <2>1 DEF ReplayInv, Tasks, ReplayQueued, NobodyRemoves, Covered, InHand
<1>2. CASE Dial
  <2>1. starter' = "batch" /\ listed' = watches /\ initTask' = Append(initTask, "addWatch") /\ UNCHANGED sendQ
    BY <1>2 DEF Dial
  <2>2. /\ Len(initTask') = Len(initTask) + 1 /\ initTask'[Len(initTask) + 1] = "addWatch"
        /\ Len(initTask) \in Nat /\ \A i \in 1..Len(initTask) : initTask'[i] = initTask[i]
    BY <1>t, <2>1, AppendFacts
  <2>3. ReplayQueued'
    BY <2>2 DEF ReplayQueued
  <2>4. \A i \in 1..Len(initTask') : initTask'[i] = "clear" => i = 1
    BY <1>b, <2>2 DEF Tasks
  <2> QED
    BY <1>a, <1>b, <2>1, <2>3, <2>4 DEF ReplayInv, Tasks, NobodyRemoves, Covered, InHand
<1>3. CASE SendClear
  <2>1. /\ initTask # <<>> /\ initTask' = Tail(initTask) /\ Head(initTask) = "clear"
        /\ starter = "batch" /\ starter' \in {"batch", "signal"}
        /\ UNCHANGED <<listed, sendQ, link, fconn, sender>>
    BY <1>3 DEF SendClear, StartGoes
  <2>2. initTask[1] = "clear" /\ ReplayQueued
    BY <1>t, <1>b, <2>1, TailFacts DEF Tasks
  <2>3. PICK i \in 1..Len(initTask) : initTask[i] = "addWatch"
    BY <2>2 DEF ReplayQueued
  <2>4. i # 1
    BY <2>2, <2>3
  <2>5. i - 1 \in 1..Len(initTask') /\ initTask'[i - 1] = "addWatch"
    BY <1>t, <2>1, <2>3, <2>4, TailBack
  <2>6. ReplayQueued'
    BY <2>5 DEF ReplayQueued
  <2>7. \A j \in 1..Len(initTask') : initTask'[j] # "clear"
    <3>1. \A j \in 1..Len(initTask') : j + 1 \in 1..Len(initTask) /\ initTask'[j] = initTask[j + 1]
      BY <1>t, <2>1, TailFacts
    <3> QED
      BY <1>b, <3>1 DEF Tasks
  <2> QED
    BY <1>a, <1>b, <2>1, <2>6, <2>7 DEF ReplayInv, Tasks, NobodyRemoves, Covered, InHand
<1>4. CASE AddWatch
  <2>1. /\ initTask # <<>> /\ initTask' = Tail(initTask) /\ Head(initTask) = "addWatch"
        /\ UNCHANGED <<listed, sendQ, link, fconn, sender, reg>>
        /\ starter = "batch" /\ starter' = IF watches # {} THEN "replay" ELSE "batch"
    BY <1>4 DEF AddWatch, AddWatchIf, StartGoes
  <2>2. \A j \in 1..Len(initTask') : j + 1 \in 1..Len(initTask) /\ initTask'[j] = initTask[j + 1]
    BY <1>t, <2>1, TailFacts
  <2>3. \A j \in 1..Len(initTask') : initTask'[j] # "clear"
    BY <1>b, <2>2 DEF Tasks
  <2>4. initTask' # <<>> => 1 \in 1..Len(initTask')
    <3>1. initTask' \in Seq(TaskNames)
      BY <1>t, <2>1, TailFacts
    <3> QED
      BY <3>1
  <2>5. Tasks'
    BY <2>1, <2>3, <2>4 DEF Tasks
  <2>6. \A p \in Paths \ removed : p \in listed => starter' = "replay"
    BY <1>b, <2>1
  <2> QED
    BY <1>a, <1>b, <2>1, <2>5, <2>6 DEF ReplayInv, NobodyRemoves, Covered, InHand
<1>5. CASE Replay
  <2> DEFINE m == [type |-> "WATCH", paths |-> watches]
  <2>1. /\ UNCHANGED <<initTask, listed, link, fconn, sender, reg>> /\ starter = "replay"
        /\ starter' = "batch" /\ sendQ' = Append(sendQ, m) /\ m \in Msgs
    BY <1>5, MsgFacts DEF Replay, StartGoes, TypeOK
  <2>2. m.type = "WATCH" /\ m.paths = watches
    OBVIOUS
  <2> HIDE DEF m
  <2>3. /\ Len(sendQ) \in Nat /\ Len(sendQ') = Len(sendQ) + 1 /\ sendQ'[Len(sendQ) + 1] = m
        /\ \A i \in 1..Len(sendQ) : sendQ'[i] = sendQ[i]
    BY <1>t, <2>1, AppendFacts
  <2>4. ASSUME NEW p \in Paths \ removed
        PROVE  NobodyRemoves(p)' /\ (p \in listed' => p \in watches' /\ Covered(p)')
    <3>1. \A i \in 1..Len(sendQ') : sendQ'[i].type = "UNWATCH" => p \notin sendQ'[i].paths
      BY <1>b, <2>2, <2>3 DEF NobodyRemoves
    <3>2. p \in watches => \E i \in 1..Len(sendQ') : sendQ'[i].type = "WATCH" /\ p \in sendQ'[i].paths
      BY <2>2, <2>3
    <3> QED
      BY <1>a, <1>b, <2>1, <3>1, <3>2 DEF NobodyRemoves, Covered, InHand
  <2>5. Tasks'
    BY <1>b, <2>1 DEF Tasks, ReplayQueued
  <2> QED
    BY <1>a, <2>4, <2>5 DEF ReplayInv
<1>6. CASE Drop
  <2>1. /\ UNCHANGED <<initTask, listed, sendQ, sender>> /\ link' = FALSE /\ initTask = <<>>
    BY <1>6 DEF Drop, StartGoes
  <2> QED
    BY <1>a, <1>b, <2>1 DEF ReplayInv, Tasks, NobodyRemoves, Covered, InHand
<1>8. CASE ClearSignal
  <2>1. /\ UNCHANGED <<initTask, listed, sendQ, link, fconn, sender, reg>>
        /\ starter = "signal" /\ starter' = "batch"
    BY <1>8 DEF ClearSignal, StartGoes
  <2> QED
    BY <1>a, <1>b, <2>1 DEF ReplayInv, Tasks, ReplayQueued, NobodyRemoves, Covered, InHand
<1>7. CASE Clear
  BY <1>7, <1>b DEF Clear, Panic, ReplayInv, Tasks, ReplayQueued, NobodyRemoves, Covered, InHand
<1> QED
  BY <1>1, <1>2, <1>3, <1>4, <1>5, <1>6, <1>7, <1>8 DEF StartStep

\* The senders, of this connection and of earlier ones: what one takes from
\* the queue it writes over the connection of the moment, or that is broken.
LEMMA SenderReplay ==
  ASSUME TypeOK, ReplayInv, NEW k \in Conns, SenderStep(k)
  PROVE  ReplayInv'
<1>t. /\ sender \in [Conns -> {"none", "check", "select", "write", "frame", "flush", "signal", "exit"}]
      /\ out \in [Conns -> Msgs \cup {NoMsg}] /\ sendQ \in Seq(Msgs) /\ (fconn = 0 => ~link)
      /\ wconn \in [Conns -> 0..MaxConns]
  BY DEF TypeOK
<1>a. UNCHANGED <<watches, removed, caller, arg, listed, initTask, starter, link, fconn>>
  BY DEF SenderStep, SenderCheck, SenderTake, SenderDone, SenderEnds, SyncWrite, WriteFrame,
         LoadConn, LoadNil, WriteLost, SenderSignal, Panic, SenderGoes
<1>b. Tasks'
  BY <1>a DEF ReplayInv, Tasks, ReplayQueued
<1> SUFFICES ASSUME NEW p \in Paths \ removed
             PROVE  NobodyRemoves(p)' /\ (p \in listed => Covered(p)')
  BY <1>a, <1>b DEF ReplayInv
<1>c. NobodyRemoves(p) /\ (p \in listed => Covered(p))
  BY DEF ReplayInv
<1>d. NoMsg.type = "none"
  BY DEF NoMsg
<1>1. CASE SenderCheck(k) \/ SenderDone(k) \/ SenderSignal(k)
  <2>1. /\ sender[k] \notin {"write", "frame", "flush"} /\ UNCHANGED <<sendQ, reg>>
        /\ out' = [out EXCEPT ![k] = NoMsg]
        /\ \A i \in Conns : i # k => sender'[i] = sender[i] /\ wconn'[i] = wconn[i]
    BY <1>1, <1>t DEF SenderCheck, SenderDone, SenderEnds, SenderSignal, SenderGoes
  <2> QED
    BY <1>t, <1>a, <1>c, <1>d, <2>1 DEF NobodyRemoves, Covered, InHand, ReplayQueued
<1>2. CASE SenderTake(k)
  <2>1. /\ sender[k] = "select" /\ UNCHANGED reg /\ sendQ # <<>> /\ sendQ' = Tail(sendQ)
        /\ sender' = [sender EXCEPT ![k] = "write"] /\ out' = [out EXCEPT ![k] = Head(sendQ)]
        /\ \A i \in Conns : i # k => wconn'[i] = wconn[i]
    BY <1>2 DEF SenderTake, SenderGoes
  <2>2. /\ Head(sendQ) = sendQ[1] /\ 1 \in 1..Len(sendQ)
        /\ \A i \in 1..Len(sendQ') : i + 1 \in 1..Len(sendQ) /\ sendQ'[i] = sendQ[i + 1]
    BY <1>t, <2>1, TailFacts
  <2>3. NobodyRemoves(p)'
    <3>1. \A i \in 1..Len(sendQ') : sendQ'[i].type = "UNWATCH" => p \notin sendQ'[i].paths
      BY <1>c, <2>2 DEF NobodyRemoves
    <3>2. \A i \in Conns : out'[i].type = "UNWATCH" => p \notin out'[i].paths
      BY <1>t, <1>c, <2>1, <2>2 DEF NobodyRemoves
    <3> QED
      BY <1>a, <1>c, <3>1, <3>2 DEF NobodyRemoves
  <2>4. ASSUME NEW i \in 1..Len(sendQ), sendQ[i].type = "WATCH", p \in sendQ[i].paths
        PROVE  Covered(p)'
    <3>1. CASE i = 1
      BY <1>t, <2>1, <2>2, <2>4, <3>1 DEF Covered, InHand
    <3>2. CASE i # 1
      <4>1. i - 1 \in 1..Len(sendQ') /\ sendQ'[i - 1] = sendQ[i]
        BY <1>t, <2>1, <3>2, TailBack
      <4> QED
        BY <2>4, <4>1 DEF Covered, InHand
    <3> QED
      BY <3>1, <3>2
  <2>5. ASSUME NEW i \in Conns, InHand(i), out[i].type = "WATCH", p \in out[i].paths
        PROVE  Covered(p)'
    <3>1. i # k /\ sender'[i] = sender[i] /\ out'[i] = out[i] /\ wconn'[i] = wconn[i]
      BY <1>t, <2>1, <2>5 DEF InHand
    <3> QED
      BY <1>a, <2>5, <3>1 DEF Covered, InHand
  <2> QED
    BY <1>a, <1>c, <2>1, <2>3, <2>4, <2>5 DEF Covered, InHand, ReplayQueued
<1>3. CASE SyncWrite(k) \/ LoadConn(k)
  <2>1. /\ UNCHANGED <<sendQ, reg>> /\ out' = [out EXCEPT ![k] = out[k]]
        /\ \A i \in Conns : i # k => sender'[i] = sender[i] /\ wconn'[i] = wconn[i]
        /\ fconn # 0 => sender'[k] = "frame" \/ (sender'[k] = "flush" /\ wconn'[k] = fconn)
    BY <1>3, <1>t DEF SyncWrite, LoadConn, SenderGoes
  <2>2. UNCHANGED out
    BY <1>t, <2>1
  <2>3. fconn # 0 => \A i \in Conns : InHand(i) => InHand(i)'
    BY <1>t, <1>a, <2>1 DEF InHand
  <2> QED
    BY <1>t, <1>a, <1>c, <2>1, <2>2, <2>3 DEF NobodyRemoves, Covered, ReplayQueued
<1>4. CASE WriteFrame(k)
  <2>1. /\ UNCHANGED sendQ /\ reg' = Register(out[k]) /\ sender[k] = "flush"
        /\ sender' = [sender EXCEPT ![k] = "check"] /\ out' = [out EXCEPT ![k] = NoMsg]
        /\ \A i \in Conns : i # k => wconn'[i] = wconn[i]
    BY <1>4 DEF WriteFrame, SenderGoes
  <2>2. p \in reg => p \in reg'
    BY <1>t, <1>c, <1>d, <2>1 DEF Register, NobodyRemoves, Msgs, NoMsg
  <2>3. out[k].type = "WATCH" /\ p \in out[k].paths => p \in reg'
    BY <2>1 DEF Register
  <2>4. NobodyRemoves(p)'
    BY <1>t, <1>a, <1>c, <1>d, <2>1 DEF NobodyRemoves
  <2>5. ASSUME NEW i \in Conns, InHand(i), out[i].type = "WATCH", p \in out[i].paths
        PROVE  Covered(p)'
    <3>1. CASE i = k
      BY <2>3, <2>5, <3>1 DEF Covered, InHand
    <3>2. CASE i # k
      <4>1. sender'[i] = sender[i] /\ out'[i] = out[i] /\ wconn'[i] = wconn[i]
        BY <1>t, <2>1, <3>2
      <4> QED
        BY <1>a, <2>5, <4>1 DEF Covered, InHand
    <3> QED
      BY <3>1, <3>2
  <2> QED
    BY <1>a, <1>c, <2>1, <2>2, <2>4, <2>5 DEF Covered, InHand, ReplayQueued
<1>5. CASE WriteLost(k)
  <2>1. /\ UNCHANGED <<sendQ, reg>> /\ out' = [out EXCEPT ![k] = NoMsg]
        /\ \A i \in Conns : i # k => sender'[i] = sender[i] /\ wconn'[i] = wconn[i]
        /\ link => ~InHand(k)
    BY <1>5, <1>t DEF WriteLost, SenderGoes, InHand
  <2>2. NobodyRemoves(p)'
    BY <1>t, <1>a, <1>c, <1>d, <2>1 DEF NobodyRemoves
  <2>3. ASSUME link, NEW i \in Conns, InHand(i), out[i].type = "WATCH", p \in out[i].paths
        PROVE  Covered(p)'
    <3>1. i # k /\ sender'[i] = sender[i] /\ out'[i] = out[i] /\ wconn'[i] = wconn[i]
      BY <1>t, <2>1, <2>3
    <3> QED
      BY <1>a, <2>3, <3>1 DEF Covered, InHand
  <2> QED
    BY <1>a, <1>c, <2>1, <2>2, <2>3 DEF Covered, ReplayQueued
<1>6. CASE LoadNil(k)
  BY <1>6, <1>c DEF LoadNil, Panic, NobodyRemoves, Covered, InHand, ReplayQueued
<1> QED
  BY <1>1, <1>2, <1>3, <1>4, <1>5, <1>6 DEF SenderStep

\* The program's calls: only Remove queues an UNWATCH, and it is on record as
\* having been called.
LEMMA CallReplay ==
  ASSUME TypeOK, ReplayInv, NEW u \in Callers, NEW q \in Paths, CallStep(u) \/ Close(u) \/ Call(u, q)
  PROVE  ReplayInv'
<1>t. /\ caller \in [Callers -> {"idle", "add", "record", "lock", "remove"}]
      /\ arg \in [Callers -> Paths] /\ sendQ \in Seq(Msgs)
  BY DEF TypeOK
<1>a. UNCHANGED <<listed, initTask, starter, link, fconn, wconn, reg, sender, out>> /\ removed \subseteq removed'
  BY DEF CallStep, AddSend, AddSendWithin, AddRecord, RemoveLock, Remove, RemoveThen, Close, Call, CallGoes
<1>b. Tasks'
  BY <1>a DEF ReplayInv, Tasks, ReplayQueued
<1> SUFFICES ASSUME NEW p \in Paths \ removed'
             PROVE  NobodyRemoves(p)' /\ (p \in listed => p \in watches' /\ Covered(p)')
  BY <1>a, <1>b DEF ReplayInv
<1>c. NobodyRemoves(p) /\ (p \in listed => p \in watches /\ Covered(p))
  BY <1>a DEF ReplayInv
<1>1. ASSUME NEW m \in Msgs, sendQ' = Append(sendQ, m), m.type = "UNWATCH" => p \notin m.paths
      PROVE  /\ \A i \in 1..Len(sendQ') : sendQ'[i].type = "UNWATCH" => p \notin sendQ'[i].paths
             /\ Covered(p) => Covered(p)'
  <2>1. /\ Len(sendQ) \in Nat /\ Len(sendQ') = Len(sendQ) + 1 /\ sendQ'[Len(sendQ) + 1] = m
        /\ \A i \in 1..Len(sendQ) : sendQ'[i] = sendQ[i]
    BY <1>t, <1>1, AppendFacts
  <2>2. \A i \in 1..Len(sendQ') : sendQ'[i].type = "UNWATCH" => p \notin sendQ'[i].paths
    BY <1>1, <1>c, <2>1 DEF NobodyRemoves
  <2>3. ASSUME NEW i \in 1..Len(sendQ), sendQ[i].type = "WATCH", p \in sendQ[i].paths
        PROVE  Covered(p)'
    BY <2>1, <2>3 DEF Covered, InHand
  <2> QED
    BY <1>a, <2>2, <2>3 DEF Covered, InHand, ReplayQueued
<1>2. CASE AddSend(u)
  <2> DEFINE m == [type |-> "WATCH", paths |-> {arg[u]}]
  <2>1. /\ m \in Msgs /\ m.type = "WATCH" /\ sendQ' = Append(sendQ, m)
        /\ caller' = [caller EXCEPT ![u] = "record"] /\ UNCHANGED <<arg, watches>>
    BY <1>2, <1>t, MsgFacts DEF AddSend, AddSendWithin, CallGoes
  <2> HIDE DEF m
  <2> QED
    BY <1>t, <1>a, <1>c, <1>1, <2>1 DEF NobodyRemoves
<1>3. CASE AddRecord(u)
  BY <1>3, <1>t, <1>a, <1>c DEF AddRecord, CallGoes, NobodyRemoves, Covered, InHand, ReplayQueued
<1>4. CASE RemoveLock(u)
  BY <1>4, <1>t, <1>a, <1>c DEF RemoveLock, CallGoes, NobodyRemoves, Covered, InHand, ReplayQueued
<1>5. CASE Remove(u)
  <2> DEFINE m == [type |-> "UNWATCH", paths |-> {arg[u]}]
  <2>1. /\ m \in Msgs /\ m.paths = {arg[u]} /\ sendQ' = Append(sendQ, m) /\ caller[u] = "remove"
        /\ caller' = [caller EXCEPT ![u] = "idle"] /\ UNCHANGED arg /\ watches' = watches \ {arg[u]}
    BY <1>5, <1>t, MsgFacts DEF Remove, RemoveThen, CallGoes
  <2>2. p # arg[u]
    BY <1>c, <2>1 DEF NobodyRemoves
  <2> HIDE DEF m
  <2> QED
    BY <1>t, <1>a, <1>c, <1>1, <2>1, <2>2 DEF NobodyRemoves
<1>6. CASE Close(u)
  BY <1>6, <1>t, <1>a, <1>c DEF Close, CallGoes, NobodyRemoves, Covered, InHand, ReplayQueued
<1>7. CASE Call(u, q)
  <2>1. /\ UNCHANGED <<watches, sendQ>> /\ arg' = [arg EXCEPT ![u] = q]
        /\ \/ caller' = [caller EXCEPT ![u] = "add"]
           \/ caller' = [caller EXCEPT ![u] = "lock"] /\ q \in removed'
    BY <1>7 DEF Call, CallGoes
  <2>2. \A v \in Callers : caller'[v] \in {"lock", "remove"} => arg'[v] # p
    BY <1>t, <1>c, <2>1 DEF NobodyRemoves
  <2> QED
    BY <1>a, <1>c, <2>1, <2>2 DEF NobodyRemoves, Covered, InHand, ReplayQueued
<1> QED
  BY <1>2, <1>3, <1>4, <1>5, <1>6, <1>7 DEF CallStep

\* Every step keeps the replay invariant.
LEMMA ReplayStep == TypeOK /\ ReplayInv /\ [Next]_vars => ReplayInv'
<1> SUFFICES ASSUME TypeOK, ReplayInv, [Next]_vars
             PROVE  ReplayInv'
  OBVIOUS
<1>1. ASSUME UNCHANGED <<starter, initTask, listed, sendQ, watches, removed, out, sender, wconn, fconn,
                       caller, arg, reg>>,
             link' = link \/ ~link'
      PROVE  ReplayInv'
  BY <1>1 DEF ReplayInv, Tasks, ReplayQueued, NobodyRemoves, Covered, InHand
<1>2. ASSUME NEW i \in Conns, ReaderStep(i) \/ ReadFrame(i)
      PROVE  ReplayInv'
  BY <1>1, <1>2 DEF ReaderStep, ReaderDone, ReaderEnter, ReaderNil, ReadError, ReadFrame,
                    ReaderGoes, Panic
<1>3. CASE LinkBreaks
  BY <1>1, <1>3 DEF LinkBreaks
<1>4. CASE UNCHANGED vars
  BY <1>1, <1>4 DEF vars
<1>5. ASSUME NEW u \in Callers, CallStep(u) \/ Close(u)
      PROVE  ReplayInv'
  BY <1>5, PathsAssumption, CallReplay
<1> QED
  BY <1>2, <1>3, <1>4, <1>5, StartReplay, SenderReplay, CallReplay DEF Next

\* A path on the list that nobody removes is registered again over every new
\* connection once the queue has drained (backend_jfs.go:229-238, 279, 317).
THEOREM WatchesReplayed == Spec => []ListedWatchesReplayed
<1>1. TypeOK /\ ReplayInv => ListedWatchesReplayed
  <2> SUFFICES ASSUME TypeOK, ReplayInv, Settled, NEW p \in listed \ removed
               PROVE  p \in reg
    BY DEF ListedWatchesReplayed
  <2>1. Covered(p)
    BY DEF ReplayInv, TypeOK
  <2>2. ~ReplayQueued /\ Len(sendQ) = 0
    BY DEF Settled, ReplayQueued
  <2> QED
    BY <2>1, <2>2 DEF Covered, InHand, Settled
<1> QED
  BY <1>1, TypeInit, TypeStep, ReplayInit, ReplayStep, PTL DEF Spec
=============================================================================
