-------------------------- MODULE MulticastProofs --------------------------
(***************************************************************************)
(* Proofs about module Multicast, for any number of connections and timer  *)
(* goroutines, any queue depth and any number of messages: its type        *)
(* invariant, PublishedReady, NoZombie, DropOnlyFailed, and the step       *)
(* simulation of FrameStream.                                              *)
(***************************************************************************)
EXTENDS Multicast, TLAPS

USE NoClientAssumption, FanAssumption, QueueDepthAssumption, MaxFramesAssumption

----------------------------------------------------------------------------
\* Every step of the server keeps the types, the bound of sendQ included.
LEMMA TypeStep == TypeOK /\ [Next]_vars => TypeOK'
<1> SUFFICES ASSUME TypeOK, [Next]_vars
             PROVE  TypeOK'
  OBVIOUS
<1> USE DEF TypeOK, Senders, ReaderPC, WriterPC, OnceStage,
            connVars, queueVars, serverVars, sendVars
<1>1. ASSUME NEW c \in Clients, Accept(c) \/ ReadFrame(c) \/ PeerStep(c)
      PROVE  TypeOK'
  <2>1. CASE Accept(c)
    BY <2>1 DEF Accept, GoReader
  <2>2. CASE ReadFrame(c)
    BY <2>2 DEF ReadFrame, GoReader, ReaderMoves
  <2>3. CASE PeerStep(c)
    BY <2>3 DEF PeerStep
  <2> QED
    BY <1>1, <2>1, <2>2, <2>3
<1>2. ASSUME NEW c \in Clients, ReaderStep(c)
      PROVE  TypeOK'
  <2>1. CASE StartWriter(c)
    BY <2>1 DEF StartWriter, GoReader
  <2>2. CASE InitClient(c)
    BY <2>2 DEF InitClient, GoReader
  <2>3. CASE Publish(c)
    BY <2>3 DEF Publish, GoReader
  <2>4. CASE ProcessMsg(c)
    BY <2>4 DEF ProcessMsg, GoReader, ReaderMoves
  <2>5. CASE ReadError(c)
    BY <2>5 DEF ReadError, GoReader, CallShutdown
  <2>6. CASE ReaderExit(c)
    BY <2>6 DEF ReaderExit, GoReader, ReaderMoves
  <2> QED
    BY <1>2, <2>1, <2>2, <2>3, <2>4, <2>5, <2>6 DEF ReaderStep
<1>3. ASSUME NEW c \in Clients, WriterStep(c)
      PROVE  TypeOK'
  <2>1. CASE TakeFrame(c)
    BY <2>1 DEF TakeFrame, GoWriter
  <2>2. CASE WriterDone(c)
    BY <2>2 DEF WriterDone, GoWriter
  <2>3. CASE WriteFrame(c)
    BY <2>3 DEF WriteFrame, WriteThen, GoWriter
  <2>4. CASE WriteError(c)
    BY <2>4 DEF WriteError, GoWriter, CallShutdown
  <2>5. CASE WriterExit(c)
    BY <2>5 DEF WriterExit, GoWriter
  <2> QED
    BY <1>3, <2>1, <2>2, <2>3, <2>4, <2>5 DEF WriterStep
<1>4. ASSUME NEW c \in Clients, ShutdownStep(c)
      PROVE  TypeOK'
  <2>1. CASE CloseDone(c)
    BY <2>1 DEF CloseDone, ShutdownGoes
  <2>2. CASE CloseConn(c)
    BY <2>2 DEF CloseConn, ShutdownGoes
  <2>3. CASE CloseHelper(c)
    <3>1. /\ helper' \in [Clients -> {"nil", "ready", "closed"}]
          /\ pending' \in [Clients -> SUBSET Nat]
      BY <2>3 DEF CloseHelper
    <3> QED
      BY <2>3, <3>1 DEF CloseHelper, ShutdownGoes
  <2>4. CASE RemoveChannel(c)
    BY <2>4 DEF RemoveChannel, ShutdownGoes
  <2> QED
    BY <1>4, <2>1, <2>2, <2>3, <2>4 DEF ShutdownStep
<1>5. ASSUME NEW s \in Senders, SendStep(s)
      PROVE  TypeOK'
  <2>1. CASE CheckOpen(s)
    BY <2>1 DEF CheckOpen, GoSend
  <2>2. CASE CheckClosed(s)
    BY <2>2 DEF CheckClosed, EndSend
  <2>3. CASE Enqueue(s)
    <3>1. PICK c \in Clients : c = target[s]
      BY <2>3 DEF Enqueue, EnqueueWithin
    <3>2. sendQ' \in [Clients -> Seq(Nat)] /\ \A d \in Clients : Len(sendQ'[d]) <= QueueDepth
      BY <2>3, <3>1 DEF Enqueue, EnqueueWithin
    <3>3. accepted' \in [Clients -> SUBSET Nat]
      BY <2>3, <3>1 DEF Enqueue, EnqueueWithin
    <3> QED
      BY <2>3, <3>2, <3>3 DEF Enqueue, EnqueueWithin, EndSend
  <2>4. CASE EnqueueClosed(s)
    BY <2>4 DEF EnqueueClosed, EndSend
  <2>5. CASE EnqueueFull(s)
    BY <2>5 DEF EnqueueFull, DropBeyond, CallShutdown, GoSend
  <2>6. CASE SendReturn(s)
    BY <2>6 DEF SendReturn, EndSend
  <2> QED
    BY <1>5, <2>1, <2>2, <2>3, <2>4, <2>5, <2>6 DEF SendStep
<1>6. ASSUME NEW f \in Flushers, NEW c \in Clients, Flush(f, c)
      PROVE  TypeOK'
  BY <1>6 DEF Flush, BeginSend
<1>7. CASE Deliver
  BY <1>7 DEF Deliver
<1>8. CASE FanStep
  <2>1. CASE Snapshot \/ FanDone
    BY <2>1 DEF Snapshot, FanDone
  <2>2. ASSUME NEW c \in Clients, FanSkip(c) \/ FanSend(c)
        PROVE  TypeOK'
    BY <2>2 DEF FanSkip, FanSend, NextFunc, BeginSend
  <2>3. ASSUME NEW c \in Clients, FanArm(c)
        PROVE  TypeOK'
    BY <2>3 DEF FanArm, NextFunc
  <2> QED
    BY <1>8, <2>1, <2>2, <2>3 DEF FanStep
<1>9. CASE UNCHANGED vars
  BY <1>9 DEF vars
<1> QED
  BY <1>1, <1>2, <1>3, <1>4, <1>5, <1>6, <1>7, <1>8, <1>9 DEF Next

\* The types hold at every moment: in particular sendQ never holds more than
\* sendQueueDepth frames (tcpserver.go:51).
THEOREM Typing == Spec => []TypeOK
<1>1. Init => TypeOK
  BY DEF Init, TypeOK, Senders, ReaderPC, WriterPC, OnceStage
<1> QED
  BY <1>1, TypeStep, PTL DEF Spec
----------------------------------------------------------------------------
\* A connection whose reader has not published it yet is out of everybody
\* else's reach: nobody can have queued, parked or sent anything for it, and so
\* nobody can have shut it down.
Early(c) == reader[c] \in {"none", "start", "init", "publish"}

Unpublished ==
  \A c \in Clients : Early(c) =>
    /\ once[c] = "new"
    /\ c \notin watchClients /\ c \notin todo
    /\ writer[c] \in {"none", "select"}
    /\ sendQ[c] = <<>> /\ pending[c] = {}
    /\ \A s \in Senders : target[s] # c

\* What listen has built by the time it has got where it is.
Built ==
  \A c \in Clients :
    /\ reader[c] \notin {"none", "start"} => fconn[c] /\ writer[c] # "none"
    /\ helper[c] = "nil" <=> reader[c] \in {"none", "start", "init"}

\* What the one run of shutdown has done by the time it has got where it is.
Stages ==
  \A c \in Clients :
    /\ once[c] = "new" => ~done[c] /\ conn[c] # "closed"
    /\ once[c] \in {"delete", "finished"} <=> helper[c] = "closed"
    /\ once[c] = "finished" => c \notin watchClients

LifeInv == Unpublished /\ Built /\ Stages

\* The writer has a frame just while it writes one, or after it failed to.
Holding ==
  \A c \in Clients : /\ writer[c] \in {"none", "select"} => frame[c] = <<>>
                     /\ writer[c] = "write" => Len(frame[c]) = 1

\* A message is, for one client, in at most one place: accepted, parked, or in
\* the hands of one sender; and the one Deliver is busy with is in none of them
\* for the clients whose turn is still to come.
Fresh ==
  /\ count <= MaxFrames /\ (fan # "idle" => count > 0)
  /\ fan # "loop" => todo = {}
  /\ \A c \in Clients :
       /\ accepted[c] \subseteq 1..count /\ pending[c] \subseteq 1..count
       /\ accepted[c] \cap pending[c] = {}
       /\ fan = "locked" \/ c \in todo => count \notin accepted[c] \cup pending[c]
  /\ \A s \in Senders : spc[s] # "idle" =>
       /\ msg[s] \in 1..count
       /\ msg[s] \notin accepted[target[s]] \cup pending[target[s]]
       /\ fan = "locked" \/ target[s] \in todo => msg[s] # count
  /\ \A s, t \in Senders : s # t /\ spc[s] # "idle" /\ target[s] = target[t] => msg[s] # msg[t]

----------------------------------------------------------------------------
\* Every step keeps a connection's life cycle.
LEMMA LifeStep == TypeOK /\ LifeInv /\ [Next]_vars => LifeInv'
<1> SUFFICES ASSUME TypeOK, LifeInv, [Next]_vars
             PROVE  LifeInv'
  OBVIOUS
<1> USE DEF TypeOK, LifeInv, Unpublished, Early, Built, Stages, Senders,
            connVars, queueVars, serverVars, sendVars
<1>1. ASSUME NEW c \in Clients, Accept(c) \/ ReadFrame(c) \/ PeerStep(c)
      PROVE  LifeInv'
  <2>1. CASE Accept(c)
    BY <2>1 DEF Accept, GoReader
  <2>2. CASE ReadFrame(c)
    BY <2>2 DEF ReadFrame, GoReader, ReaderMoves
  <2>3. CASE PeerStep(c)
    BY <2>3 DEF PeerStep
  <2> QED
    BY <1>1, <2>1, <2>2, <2>3
<1>2. ASSUME NEW c \in Clients, ReaderStep(c)
      PROVE  LifeInv'
  <2>1. CASE StartWriter(c)
    BY <2>1 DEF StartWriter, GoReader
  <2>2. CASE InitClient(c)
    BY <2>2 DEF InitClient, GoReader
  <2>3. CASE Publish(c)
    BY <2>3 DEF Publish, GoReader
  <2>4. CASE ProcessMsg(c)
    BY <2>4 DEF ProcessMsg, GoReader, ReaderMoves
  <2>5. CASE ReadError(c)
    <3>1. Unpublished'
      BY <2>5 DEF ReadError, GoReader, CallShutdown
    <3>2. Built'
      BY <2>5 DEF ReadError, GoReader, CallShutdown
    <3>3. Stages'
      BY <2>5 DEF ReadError, GoReader, CallShutdown
    <3> QED
      BY <3>1, <3>2, <3>3
  <2>6. CASE ReaderExit(c)
    BY <2>6 DEF ReaderExit, GoReader, ReaderMoves
  <2> QED
    BY <1>2, <2>1, <2>2, <2>3, <2>4, <2>5, <2>6 DEF ReaderStep
<1>3. ASSUME NEW c \in Clients, WriterStep(c)
      PROVE  LifeInv'
  <2>1. CASE TakeFrame(c)
    BY <2>1 DEF TakeFrame, GoWriter
  <2>2. CASE WriterDone(c)
    BY <2>2 DEF WriterDone, GoWriter
  <2>3. CASE WriteFrame(c)
    BY <2>3 DEF WriteFrame, WriteThen, GoWriter
  <2>4. CASE WriteError(c)
    BY <2>4 DEF WriteError, GoWriter, CallShutdown
  <2>5. CASE WriterExit(c)
    BY <2>5 DEF WriterExit, GoWriter
  <2> QED
    BY <1>3, <2>1, <2>2, <2>3, <2>4, <2>5 DEF WriterStep
<1>4. ASSUME NEW c \in Clients, ShutdownStep(c)
      PROVE  LifeInv'
  <2>1. CASE CloseDone(c)
    BY <2>1 DEF CloseDone, ShutdownGoes
  <2>2. CASE CloseConn(c)
    <3>1. Unpublished'
      BY <2>2 DEF CloseConn, ShutdownGoes
    <3>2. Built'
      BY <2>2 DEF CloseConn, ShutdownGoes
    <3>3. Stages'
      BY <2>2 DEF CloseConn, ShutdownGoes
    <3> QED
      BY <3>1, <3>2, <3>3
  <2>3. CASE CloseHelper(c)
    BY <2>3 DEF CloseHelper, ShutdownGoes
  <2>4. CASE RemoveChannel(c)
    BY <2>4 DEF RemoveChannel, ShutdownGoes
  <2> QED
    BY <1>4, <2>1, <2>2, <2>3, <2>4 DEF ShutdownStep
<1>5. ASSUME NEW s \in Senders, SendStep(s)
      PROVE  LifeInv'
  <2>1. CASE CheckOpen(s)
    BY <2>1 DEF CheckOpen, GoSend
  <2>2. CASE CheckClosed(s)
    BY <2>2 DEF CheckClosed, EndSend
  <2>3. CASE Enqueue(s)
    BY <2>3 DEF Enqueue, EnqueueWithin, EndSend
  <2>4. CASE EnqueueClosed(s)
    BY <2>4 DEF EnqueueClosed, EndSend
  <2>5. CASE EnqueueFull(s)
    BY <2>5 DEF EnqueueFull, DropBeyond, CallShutdown, GoSend
  <2>6. CASE SendReturn(s)
    BY <2>6 DEF SendReturn, EndSend
  <2> QED
    BY <1>5, <2>1, <2>2, <2>3, <2>4, <2>5, <2>6 DEF SendStep
<1>6. ASSUME NEW f \in Flushers, NEW c \in Clients, Flush(f, c)
      PROVE  LifeInv'
  <2>1. Unpublished'
    BY <1>6 DEF Flush, BeginSend
  <2>2. Built'
    BY <1>6 DEF Flush, BeginSend
  <2>3. Stages'
    BY <1>6 DEF Flush, BeginSend
  <2> QED
    BY <2>1, <2>2, <2>3
<1>7. CASE Deliver
  BY <1>7 DEF Deliver
<1>8. CASE FanStep
  <2>1. CASE Snapshot
    BY <2>1 DEF Snapshot
  <2>2. CASE FanDone
    BY <2>2 DEF FanDone
  <2>3. ASSUME NEW c \in Clients, FanSkip(c)
        PROVE  LifeInv'
    BY <2>3 DEF FanSkip, NextFunc
  <2>4. ASSUME NEW c \in Clients, FanSend(c)
        PROVE  LifeInv'
    BY <2>4 DEF FanSend, NextFunc, BeginSend
  <2>5. ASSUME NEW c \in Clients, FanArm(c)
        PROVE  LifeInv'
    BY <2>5 DEF FanArm, NextFunc
  <2> QED
    BY <1>8, <2>1, <2>2, <2>3, <2>4, <2>5 DEF FanStep
<1>9. CASE UNCHANGED vars
  BY <1>9 DEF vars
<1> QED
  BY <1>1, <1>2, <1>3, <1>4, <1>5, <1>6, <1>7, <1>8, <1>9 DEF Next

\* The life of a client, from accept to the end of shutdown.
LEMMA Life == Spec => [](TypeOK /\ LifeInv)
<1>1. Init => TypeOK /\ LifeInv
  BY DEF Init, TypeOK, LifeInv, Unpublished, Early, Built, Stages, Senders, ReaderPC,
         WriterPC, OnceStage
<1> QED
  BY <1>1, TypeStep, LifeStep, PTL DEF Spec

\* What Deliver finds in the fan-out map is complete (tcpserver.go:83,
\* server.go:59): with any number of connections and senders.
THEOREM PublishedComplete == Spec => []PublishedReady
<1>1. TypeOK /\ LifeInv => PublishedReady
  BY DEF TypeOK, LifeInv, Unpublished, Early, Built, PublishedReady, ReaderPC
<1> QED
  BY <1>1, Life, PTL

\* shutdown leaves no entry behind in the fan-out map (server.go:86-97),
\* whichever of the goroutines ran it.
THEOREM NoEntryLeaks == Spec => []NoZombie
<1>1. LifeInv => NoZombie
  BY DEF LifeInv, Stages, NoZombie
<1> QED
  BY <1>1, Life, PTL

\* Only a peer that is gone, or that has let its whole queue fill up, is
\* dropped (tcpserver.go:93-97, 111-114, 148-153).
THEOREM DropsJustified == Spec => DropOnlyFailed
<1> DEFINE Justified == \A c \in Clients : once[c] = "new" /\ once'[c] # "new"
                          => peer[c] = "gone" \/ Len(sendQ[c]) = QueueDepth
<1>1. TypeOK /\ LifeInv /\ [Next]_vars => [Justified]_vars
  <2> SUFFICES ASSUME TypeOK, LifeInv, [Next]_vars, NEW d \in Clients,
                      once[d] = "new", once'[d] # "new"
               PROVE  peer[d] = "gone" \/ Len(sendQ[d]) = QueueDepth
    OBVIOUS
  <2> USE DEF connVars, queueVars, serverVars, sendVars
  <2>1. conn[d] # "closed" /\ once \in [Clients -> OnceStage]
    BY DEF LifeInv, Stages, TypeOK
  <2>2. ASSUME NEW c \in Clients, ReaderStep(c)
        PROVE  peer[d] = "gone"
    BY <2>1, <2>2 DEF ReaderStep, StartWriter, InitClient, Publish, ProcessMsg, ReadError,
                      ReaderExit, ReaderMoves, CallShutdown
  <2>3. ASSUME NEW c \in Clients, WriterStep(c)
        PROVE  peer[d] = "gone"
    BY <2>1, <2>3 DEF WriterStep, TakeFrame, WriterDone, WriteFrame, WriteThen, WriteError,
                      WriterExit, CallShutdown
  <2>4. ASSUME NEW c \in Clients, ShutdownStep(c)
        PROVE  FALSE
    BY <2>1, <2>4 DEF ShutdownStep, CloseDone, CloseConn, CloseHelper, RemoveChannel,
                      ShutdownGoes
  <2>5. ASSUME NEW s \in Senders, SendStep(s)
        PROVE  Len(sendQ[d]) = QueueDepth
    <3>1. EnqueueFull(s)
      BY <2>5 DEF SendStep, CheckOpen, CheckClosed, Enqueue, EnqueueWithin, EnqueueClosed,
                  SendReturn, EndSend
    <3>2. d = target[s] /\ Len(sendQ[d]) >= QueueDepth
      BY <2>1, <3>1 DEF EnqueueFull, DropBeyond, CallShutdown
    <3> QED
      BY <3>2 DEF TypeOK
  <2>6. once' = once
        \/ \E c \in Clients : ReaderStep(c) \/ WriterStep(c) \/ ShutdownStep(c)
        \/ \E s \in Senders : SendStep(s)
    BY DEF Next, vars, Accept, ReadFrame, ReaderMoves, PeerStep, Flush, Deliver, FanStep,
           Snapshot, FanDone, FanSkip, FanSend, FanArm, NextFunc
  <2> QED
    BY <2>2, <2>3, <2>4, <2>5, <2>6
<1> QED
  BY <1>1, Life, PTL DEF Spec, DropOnlyFailed

----------------------------------------------------------------------------
\* Every step keeps writeLoop's frame where it belongs.
LEMMA HoldStep == TypeOK /\ LifeInv /\ Holding /\ [Next]_vars => Holding'
<1> SUFFICES ASSUME TypeOK, LifeInv, Holding, [Next]_vars
             PROVE  Holding'
  OBVIOUS
<1> USE DEF TypeOK, Holding, connVars, queueVars, serverVars, sendVars
<1>1. ASSUME NEW c \in Clients, Accept(c) \/ ReadFrame(c) \/ PeerStep(c)
      PROVE  Holding'
  <2>1. CASE Accept(c)
    BY <2>1 DEF Accept, GoReader
  <2>2. CASE ReadFrame(c)
    BY <2>2 DEF ReadFrame, GoReader, ReaderMoves
  <2>3. CASE PeerStep(c)
    BY <2>3 DEF PeerStep
  <2> QED
    BY <1>1, <2>1, <2>2, <2>3
<1>2. ASSUME NEW c \in Clients, ReaderStep(c)
      PROVE  Holding'
  <2>1. CASE StartWriter(c)
    BY <2>1 DEF StartWriter, GoReader, LifeInv, Unpublished, Early
  <2>2. CASE InitClient(c)
    BY <2>2 DEF InitClient, GoReader
  <2>3. CASE Publish(c)
    BY <2>3 DEF Publish, GoReader
  <2>4. CASE ProcessMsg(c)
    BY <2>4 DEF ProcessMsg, GoReader, ReaderMoves
  <2>5. CASE ReadError(c)
    BY <2>5 DEF ReadError, GoReader, CallShutdown
  <2>6. CASE ReaderExit(c)
    BY <2>6 DEF ReaderExit, GoReader, ReaderMoves
  <2> QED
    BY <1>2, <2>1, <2>2, <2>3, <2>4, <2>5, <2>6 DEF ReaderStep
<1>3. ASSUME NEW c \in Clients, WriterStep(c)
      PROVE  Holding'
  <2>1. CASE TakeFrame(c)
    BY <2>1 DEF TakeFrame, GoWriter
  <2>2. CASE WriterDone(c)
    BY <2>2 DEF WriterDone, GoWriter
  <2>3. CASE WriteFrame(c)
    BY <2>3 DEF WriteFrame, WriteThen, GoWriter
  <2>4. CASE WriteError(c)
    BY <2>4 DEF WriteError, GoWriter, CallShutdown
  <2>5. CASE WriterExit(c)
    BY <2>5 DEF WriterExit, GoWriter
  <2> QED
    BY <1>3, <2>1, <2>2, <2>3, <2>4, <2>5 DEF WriterStep
<1>4. ASSUME NEW c \in Clients, ShutdownStep(c)
      PROVE  Holding'
  <2>1. CASE CloseDone(c)
    BY <2>1 DEF CloseDone, ShutdownGoes
  <2>2. CASE CloseConn(c)
    BY <2>2 DEF CloseConn, ShutdownGoes
  <2>3. CASE CloseHelper(c)
    BY <2>3 DEF CloseHelper, ShutdownGoes
  <2>4. CASE RemoveChannel(c)
    BY <2>4 DEF RemoveChannel, ShutdownGoes
  <2> QED
    BY <1>4, <2>1, <2>2, <2>3, <2>4 DEF ShutdownStep
<1>5. ASSUME NEW s \in Senders, SendStep(s)
      PROVE  Holding'
  <2>1. CASE CheckOpen(s)
    BY <2>1 DEF CheckOpen, GoSend
  <2>2. CASE CheckClosed(s)
    BY <2>2 DEF CheckClosed, EndSend
  <2>3. CASE Enqueue(s)
    BY <2>3 DEF Enqueue, EnqueueWithin, EndSend
  <2>4. CASE EnqueueClosed(s)
    BY <2>4 DEF EnqueueClosed, EndSend
  <2>5. CASE EnqueueFull(s)
    BY <2>5 DEF EnqueueFull, DropBeyond, CallShutdown, GoSend
  <2>6. CASE SendReturn(s)
    BY <2>6 DEF SendReturn, EndSend
  <2> QED
    BY <1>5, <2>1, <2>2, <2>3, <2>4, <2>5, <2>6 DEF SendStep
<1>6. ASSUME NEW f \in Flushers, NEW c \in Clients, Flush(f, c)
      PROVE  Holding'
  BY <1>6 DEF Flush, BeginSend
<1>7. CASE Deliver
  BY <1>7 DEF Deliver
<1>8. CASE FanStep
  <2>1. CASE Snapshot
    BY <2>1 DEF Snapshot
  <2>2. CASE FanDone
    BY <2>2 DEF FanDone
  <2>3. ASSUME NEW c \in Clients, FanSkip(c)
        PROVE  Holding'
    BY <2>3 DEF FanSkip, NextFunc
  <2>4. ASSUME NEW c \in Clients, FanSend(c)
        PROVE  Holding'
    BY <2>4 DEF FanSend, NextFunc, BeginSend
  <2>5. ASSUME NEW c \in Clients, FanArm(c)
        PROVE  Holding'
    BY <2>5 DEF FanArm, NextFunc
  <2> QED
    BY <1>8, <2>1, <2>2, <2>3, <2>4, <2>5 DEF FanStep
<1>9. CASE UNCHANGED vars
  BY <1>9 DEF vars
<1> QED
  BY <1>1, <1>2, <1>3, <1>4, <1>5, <1>6, <1>7, <1>8, <1>9 DEF Next

\* Every step keeps the messages apart.
LEMMA FreshStep == TypeOK /\ Fresh /\ [Next]_vars => Fresh'
<1> SUFFICES ASSUME TypeOK, Fresh, [Next]_vars
             PROVE  Fresh'
  OBVIOUS
<1> USE DEF TypeOK, Fresh, Senders, connVars, queueVars, serverVars, sendVars
<1>1. ASSUME NEW c \in Clients, Accept(c) \/ ReadFrame(c) \/ PeerStep(c)
      PROVE  Fresh'
  <2>1. CASE Accept(c)
    BY <2>1 DEF Accept, GoReader
  <2>2. CASE ReadFrame(c)
    BY <2>2 DEF ReadFrame, GoReader, ReaderMoves
  <2>3. CASE PeerStep(c)
    BY <2>3 DEF PeerStep
  <2> QED
    BY <1>1, <2>1, <2>2, <2>3
<1>2. ASSUME NEW c \in Clients, ReaderStep(c)
      PROVE  Fresh'
  <2>1. CASE StartWriter(c)
    BY <2>1 DEF StartWriter, GoReader
  <2>2. CASE InitClient(c)
    BY <2>2 DEF InitClient, GoReader
  <2>3. CASE Publish(c)
    BY <2>3 DEF Publish, GoReader
  <2>4. CASE ProcessMsg(c)
    BY <2>4 DEF ProcessMsg, GoReader, ReaderMoves
  <2>5. CASE ReadError(c)
    BY <2>5 DEF ReadError, GoReader, CallShutdown
  <2>6. CASE ReaderExit(c)
    BY <2>6 DEF ReaderExit, GoReader, ReaderMoves
  <2> QED
    BY <1>2, <2>1, <2>2, <2>3, <2>4, <2>5, <2>6 DEF ReaderStep
<1>3. ASSUME NEW c \in Clients, WriterStep(c)
      PROVE  Fresh'
  <2>1. CASE TakeFrame(c)
    BY <2>1 DEF TakeFrame, GoWriter
  <2>2. CASE WriterDone(c)
    BY <2>2 DEF WriterDone, GoWriter
  <2>3. CASE WriteFrame(c)
    BY <2>3 DEF WriteFrame, WriteThen, GoWriter
  <2>4. CASE WriteError(c)
    BY <2>4 DEF WriteError, GoWriter, CallShutdown
  <2>5. CASE WriterExit(c)
    BY <2>5 DEF WriterExit, GoWriter
  <2> QED
    BY <1>3, <2>1, <2>2, <2>3, <2>4, <2>5 DEF WriterStep
<1>4. ASSUME NEW c \in Clients, ShutdownStep(c)
      PROVE  Fresh'
  <2>1. CASE CloseDone(c)
    BY <2>1 DEF CloseDone, ShutdownGoes
  <2>2. CASE CloseConn(c)
    BY <2>2 DEF CloseConn, ShutdownGoes
  <2>3. CASE CloseHelper(c)
    <3>1. \A d \in Clients : pending'[d] = pending[d] \/ pending'[d] = {}
      BY <2>3 DEF CloseHelper
    <3> QED
      BY <2>3, <3>1 DEF CloseHelper, ShutdownGoes
  <2>4. CASE RemoveChannel(c)
    BY <2>4 DEF RemoveChannel, ShutdownGoes
  <2> QED
    BY <1>4, <2>1, <2>2, <2>3, <2>4 DEF ShutdownStep
<1>5. ASSUME NEW s \in Senders, SendStep(s)
      PROVE  Fresh'
  <2>1. CASE CheckOpen(s)
    BY <2>1 DEF CheckOpen, GoSend
  <2>2. CASE CheckClosed(s)
    BY <2>2 DEF CheckClosed, EndSend
  <2>3. CASE Enqueue(s)
    BY <2>3 DEF Enqueue, EnqueueWithin, EndSend
  <2>4. CASE EnqueueClosed(s)
    BY <2>4 DEF EnqueueClosed, EndSend
  <2>5. CASE EnqueueFull(s)
    BY <2>5 DEF EnqueueFull, DropBeyond, CallShutdown, GoSend
  <2>6. CASE SendReturn(s)
    BY <2>6 DEF SendReturn, EndSend
  <2> QED
    BY <1>5, <2>1, <2>2, <2>3, <2>4, <2>5, <2>6 DEF SendStep
<1>6. ASSUME NEW f \in Flushers, NEW c \in Clients, Flush(f, c)
      PROVE  Fresh'
  BY <1>6 DEF Flush, BeginSend
<1>7. CASE Deliver
  BY <1>7 DEF Deliver
<1>8. CASE FanStep
  <2>1. CASE Snapshot
    BY <2>1 DEF Snapshot
  <2>2. CASE FanDone
    BY <2>2 DEF FanDone
  <2>3. ASSUME NEW c \in Clients, FanSkip(c)
        PROVE  Fresh'
    BY <2>3 DEF FanSkip, NextFunc
  <2>4. ASSUME NEW c \in Clients, FanSend(c)
        PROVE  Fresh'
    <3>1. /\ fan' = fan /\ count' = count /\ accepted' = accepted /\ pending' = pending
          /\ todo' = todo \ {c} /\ c \in todo /\ fan = "loop"
      BY <2>4 DEF FanSend, NextFunc
    <3>2. /\ Fan \in Senders /\ spc[Fan] = "idle" /\ spc' = [spc EXCEPT ![Fan] = "check"]
          /\ target' = [target EXCEPT ![Fan] = c] /\ msg' = [msg EXCEPT ![Fan] = count]
      BY <2>4 DEF FanSend, NextFunc, BeginSend
    <3>3. ASSUME NEW s \in Senders, spc'[s] # "idle"
          PROVE  /\ msg'[s] \in 1..count
                 /\ msg'[s] \notin accepted[target'[s]] \cup pending[target'[s]]
                 /\ target'[s] \in todo' => msg'[s] # count
      BY <3>1, <3>2, <3>3
    <3>4. ASSUME NEW s \in Senders, NEW t \in Senders, s # t, spc'[s] # "idle",
                 target'[s] = target'[t]
          PROVE  msg'[s] # msg'[t]
      BY <3>1, <3>2, <3>4
    <3> QED
      BY <3>1, <3>3, <3>4
  <2>5. ASSUME NEW c \in Clients, FanArm(c)
        PROVE  Fresh'
    BY <2>5 DEF FanArm, NextFunc
  <2> QED
    BY <1>8, <2>1, <2>2, <2>3, <2>4, <2>5 DEF FanStep
<1>9. CASE UNCHANGED vars
  BY <1>9 DEF vars
<1> QED
  BY <1>1, <1>2, <1>3, <1>4, <1>5, <1>6, <1>7, <1>8, <1>9 DEF Next

\* All the invariants that the refinement needs.
LEMMA StreamInv == Spec => [](TypeOK /\ LifeInv /\ Holding /\ Fresh)
<1>1. Init => Holding /\ Fresh
  BY DEF Init, Holding, Fresh, Senders
<1> QED
  BY <1>1, Life, HoldStep, FreshStep, PTL DEF Spec

----------------------------------------------------------------------------
\* The queue and the writer's frame as one sequence.
LEMMA MoveToFrame ==
  ASSUME NEW q \in Seq(Nat), q # <<>>
  PROVE  <<Head(q)>> \o Tail(q) = <<>> \o q
OBVIOUS

\* Moving the frame in hand to the wire takes it off the head of the backlog.
LEMMA WriteOut ==
  ASSUME NEW x \in Nat, NEW q \in Seq(Nat), NEW w \in Seq(Nat)
  PROVE  /\ <<x>> \o q # <<>>
         /\ Head(<<x>> \o q) = x
         /\ Tail(<<x>> \o q) = <<>> \o q
         /\ w \o <<x>> = Append(w, x)
OBVIOUS

\* A frame appended to the queue is appended to the backlog.
LEMMA QueueUp ==
  ASSUME NEW f \in Seq(Nat), NEW q \in Seq(Nat), NEW m \in Nat
  PROVE  /\ f \o Append(q, m) = Append(f \o q, m)
         /\ Len(f \o q) = Len(f) + Len(q)
OBVIOUS

\* Every step of the server is a step of FrameStream, or changes nothing there:
\* Enqueue offers, WriteFrame emits and CloseConn cuts.
LEMMA StreamStep ==
  TypeOK /\ LifeInv /\ Holding /\ Fresh /\ [Next]_vars => [Stream!StreamNext]_(Stream!streamVars)
<1> SUFFICES ASSUME TypeOK, LifeInv, Holding, Fresh, [Next]_vars
             PROVE  Stream!StreamNext \/ UNCHANGED Stream!streamVars
  BY DEF Stream!streamVars
<1> USE DEF connVars, queueVars, serverVars, sendVars
<1> DEFINE Backlog == [c \in Clients |-> frame[c] \o sendQ[c]]
           Cut == [c \in Clients |-> conn[c] = "closed"]
<1>1. ASSUME UNCHANGED <<accepted, wire>>, Backlog' = Backlog, Cut' = Cut
      PROVE  UNCHANGED Stream!streamVars
  BY <1>1 DEF Stream!streamVars
<1>2. ASSUME UNCHANGED <<conn, frame, sendQ, accepted, wire>>
      PROVE  UNCHANGED Stream!streamVars
  BY <1>1, <1>2
<1>3. ASSUME NEW c \in Clients, Accept(c)
      PROVE  UNCHANGED Stream!streamVars
  <2>1. conn[c] # "closed"
    BY <1>3 DEF Accept, LifeInv, Unpublished, Early, Stages
  <2>2. Cut' = Cut
    BY <1>3, <2>1 DEF Accept, TypeOK
  <2> QED
    BY <1>1, <1>3, <2>2 DEF Accept
<1>4. ASSUME NEW c \in Clients, TakeFrame(c)
      PROVE  UNCHANGED Stream!streamVars
  <2>1. frame[c] = <<>> /\ sendQ[c] \in Seq(Nat) /\ sendQ[c] # <<>>
    BY <1>4 DEF TakeFrame, Holding, TypeOK
  <2>2. <<Head(sendQ[c])>> \o Tail(sendQ[c]) = frame[c] \o sendQ[c]
    BY <2>1, MoveToFrame
  <2>3. ASSUME NEW d \in Clients
        PROVE  frame'[d] \o sendQ'[d] = frame[d] \o sendQ[d]
    <3>1. CASE d = c
      BY <1>4, <2>2, <3>1 DEF TakeFrame, TypeOK
    <3>2. CASE d # c
      BY <1>4, <3>2 DEF TakeFrame, TypeOK
    <3> QED
      BY <3>1, <3>2
  <2>4. Backlog' = Backlog
    BY <2>3
  <2> QED
    BY <1>1, <1>4, <2>4 DEF TakeFrame, GoWriter
<1>5. ASSUME NEW c \in Clients, WriteFrame(c)
      PROVE  Stream!Emit(c)
  <2>1. PICK x \in Nat : frame[c] = <<x>>
    <3>1. frame[c] \in Seq(Nat) /\ Len(frame[c]) = 1
      BY <1>5 DEF WriteFrame, WriteThen, Holding, TypeOK
    <3> QED
      BY <3>1
  <2>2. wire[c] \in Seq(Nat) /\ sendQ[c] \in Seq(Nat) /\ ~Cut[c]
    BY <1>5 DEF WriteFrame, WriteThen, TypeOK
  <2>3. Backlog[c] # <<>> /\ wire[c] \o frame[c] = Append(wire[c], Head(Backlog[c]))
    <3>1. Backlog[c] = <<x>> \o sendQ[c]
      BY <2>1
    <3>2. /\ <<x>> \o sendQ[c] # <<>> /\ Head(<<x>> \o sendQ[c]) = x
          /\ wire[c] \o <<x>> = Append(wire[c], x)
      BY <2>2, WriteOut
    <3> HIDE DEF Backlog
    <3> QED
      BY <2>1, <3>1, <3>2, Zenon
  <2>4. wire' = [wire EXCEPT ![c] = Append(wire[c], Head(Backlog[c]))]
    BY <1>5, <2>3 DEF WriteFrame, WriteThen
  <2>5. ASSUME NEW d \in Clients
        PROVE  frame'[d] \o sendQ'[d] = IF d = c THEN Tail(Backlog[c]) ELSE Backlog[d]
    BY <1>5, <2>1, <2>2, WriteOut DEF WriteFrame, WriteThen, TypeOK
  <2>6. Backlog' = [Backlog EXCEPT ![c] = Tail(Backlog[c])]
    BY <2>5
  <2> QED
    BY <1>5, <2>2, <2>3, <2>4, <2>6 DEF WriteFrame, WriteThen, GoWriter, Stream!Emit
<1>6. ASSUME NEW c \in Clients, CloseConn(c)
      PROVE  Stream!Cut(c)
  <2>1. Cut' = [Cut EXCEPT ![c] = TRUE]
    BY <1>6 DEF CloseConn, TypeOK
  <2> QED
    BY <1>6, <2>1 DEF CloseConn, ShutdownGoes, Stream!Cut
<1>7. ASSUME NEW s \in Senders, Enqueue(s)
      PROVE  \E c \in Clients, n \in 1..MaxFrames : Stream!Offer(c, n)
  <2>1. PICK c \in Clients : c = target[s]
    BY <1>7 DEF Enqueue, EnqueueWithin, TypeOK
  <2>2. PICK m \in Nat : m = msg[s]
    BY DEF TypeOK
  <2>3. m \in 1..MaxFrames /\ m \notin accepted[c]
    <3>1. spc[s] # "idle"
      BY <1>7 DEF Enqueue, EnqueueWithin
    <3>2. msg[s] \in 1..count /\ msg[s] \notin accepted[target[s]] /\ count <= MaxFrames
      BY <3>1 DEF Fresh
    <3> QED
      BY <2>2, <2>1, <3>2 DEF TypeOK
  <2>4. /\ frame[c] \in Seq(Nat) /\ sendQ[c] \in Seq(Nat) /\ Len(frame[c]) <= 1
        /\ Len(sendQ[c]) < QueueDepth
        /\ sendQ' = [sendQ EXCEPT ![c] = Append(sendQ[c], m)]
        /\ accepted' = [accepted EXCEPT ![c] = accepted[c] \cup {m}]
        /\ UNCHANGED <<conn, frame, wire>>
    BY <1>7, <2>2, <2>1 DEF Enqueue, EnqueueWithin, EndSend, TypeOK
  <2>5. Len(Backlog[c]) < QueueDepth + 1
    <3>1. PICK i \in Nat, j \in Nat : i = Len(frame[c]) /\ j = Len(sendQ[c])
      BY <2>4
    <3>2. Len(frame[c] \o sendQ[c]) = i + j
      BY <2>2, <2>4, <3>1, QueueUp
    <3>3. i <= 1 /\ j < QueueDepth
      BY <2>4, <3>1
    <3>4. i + j < QueueDepth + 1
      BY <3>3
    <3> QED
      BY <3>2, <3>4
  <2>6. ASSUME NEW d \in Clients
        PROVE  frame'[d] \o sendQ'[d] = IF d = c THEN Append(Backlog[c], m) ELSE Backlog[d]
    <3>1. CASE d = c
      <4>1. frame[c] \o Append(sendQ[c], m) = Append(frame[c] \o sendQ[c], m)
        BY <2>2, <2>4, QueueUp
      <4> QED
        BY <2>4, <3>1, <4>1 DEF TypeOK
    <3>2. CASE d # c
      BY <2>4, <3>2 DEF TypeOK
    <3> QED
      BY <3>1, <3>2
  <2>7. Backlog' = [Backlog EXCEPT ![c] = Append(Backlog[c], m)]
    BY <2>6
  <2>8. Cut' = Cut
    BY <2>4
  <2>9. Stream!Offer(c, m)
    BY <2>3, <2>4, <2>5, <2>7, <2>8 DEF Stream!Offer
  <2> QED
    BY <2>3, <2>9
<1>8. \/ UNCHANGED <<conn, frame, sendQ, accepted, wire>>
      \/ \E c \in Clients : Accept(c) \/ TakeFrame(c) \/ WriteFrame(c) \/ CloseConn(c)
      \/ \E s \in Senders : Enqueue(s)
  BY DEF Next, vars, ReadFrame, ReaderMoves, PeerStep, ReaderStep, StartWriter, InitClient,
         Publish, ProcessMsg, ReadError, ReaderExit, WriterStep, WriterDone, WriteError,
         WriterExit, GoWriter, ShutdownStep, ShutdownGoes, CloseDone, CloseHelper,
         RemoveChannel, SendStep, CheckOpen, CheckClosed, EnqueueClosed, EnqueueFull,
         DropBeyond, SendReturn, EndSend, GoSend, Flush, Deliver, FanStep, Snapshot, FanDone,
         FanSkip, FanSend, FanArm, NextFunc
<1> QED
  BY <1>2, <1>3, <1>4, <1>5, <1>6, <1>7, <1>8 DEF Stream!StreamNext

\* The connection server implements FrameStream (tcpserver.go:105-155): what
\* SendBytes accepts is written at most once and in the order of acceptance,
\* with at most sendQueueDepth frames and the writer's one waiting.
THEOREM ImplementsStream == Spec => StreamRefinement
<1>1. Init => Stream!StreamInit
  <2> SUFFICES ASSUME Init
               PROVE  Stream!StreamInit
    OBVIOUS
  <2>1. [c \in Clients |-> frame[c] \o sendQ[c]] = [c \in Clients |-> <<>>]
    BY DEF Init
  <2> QED
    BY <2>1 DEF Init, Stream!StreamInit
<1> QED
  BY <1>1, StreamStep, StreamInv, PTL DEF Spec, StreamRefinement, Stream!StreamSpec
=============================================================================
