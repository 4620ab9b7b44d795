----------------------------- MODULE Multicast -----------------------------
(***************************************************************************)
(* The connection server of fsnotify-proxy: k8s/pkg/multicast/tcpserver.go *)
(* (Client, listen, writeLoop, shutdown, SendBytes) and server.go          *)
(* (onNewClientCallback, removeChannel, Deliver).                          *)
(*                                                                         *)
(* Every accepted connection has two goroutines, the reader (listen) and   *)
(* the writer (writeLoop).  Frames are queued by senders: the one fan-out  *)
(* goroutine that runs Deliver for every redis message, and the timer      *)
(* goroutines that flush debounced WRITEs (helper.go:162).  Reader, writer *)
(* and senders may all call shutdown, which sync.Once runs once while the  *)
(* other callers wait for it; once[c] is the next step of that one run.  A *)
(* client is a connection: a peer that reconnects is another element of    *)
(* Clients.                                                                *)
(*                                                                         *)
(* The helper is what Deliver sees of it, the MsgWriter interface: WriteMsg*)
(* does nothing on a closed helper, and otherwise drops the event, sends it*)
(* or parks it for a flush.  Module WriteDebounce is the helper itself,    *)
(* module WatchRegistry what onNewMessage does with a message.  A message  *)
(* is one event, as the daemon publishes it (fsnotify-daemon/app/v2/       *)
(* app.go:74).                                                             *)
(***************************************************************************)
EXTENDS Naturals, Sequences

CONSTANTS Clients,      \* the connections the listener may accept
          NoClient,     \* the target of a sender that is not sending
          Fan,          \* the fan-out goroutine that runs Deliver
          Flushers,     \* the timer goroutines that flush debounced WRITEs
          QueueDepth,   \* sendQueueDepth
          MaxFrames     \* bound on the messages published

ASSUME NoClientAssumption == NoClient \notin Clients
ASSUME FanAssumption == Fan \notin Flushers
ASSUME QueueDepthAssumption == QueueDepth \in Nat \ {0}
ASSUME MaxFramesAssumption == MaxFrames \in Nat

VARIABLES
  conn,          \* the server's end of the socket: "none", "open" or "closed"
  peer,          \* the peer: "reading", "stalled" (buffers full) or "gone"
  fconn,         \* Client.fconn has been assigned
  helper,        \* Client.Helper: "nil", "ready" or "closed"
  done,          \* Client.done is closed
  once,          \* how far the one run of shutdown has got
  reader,        \* control state of listen
  writer,        \* control state of writeLoop
  frame,         \* the frame writeLoop holds: <<>> or a sequence of length 1
  sendQ,         \* Client.sendQ
  accepted,      \* history: the frames for which SendBytes returned nil
  wire,          \* history: frames written to the socket
  watchClients,  \* Server.watchClients
  sMu,           \* Server.mu: "free" or held by the fan-out
  pending,       \* events the helper has parked for a later flush
  fan,           \* control state of Deliver
  todo,          \* the clients whose WriteMsg Deliver has still to call
  spc,           \* control state of each sender's SendBytes
  target,        \* the client each sender writes to
  msg,           \* the frame each sender carries
  count          \* messages published so far

connVars == <<conn, peer, fconn, helper, done, reader>>
queueVars == <<writer, frame, sendQ, accepted, wire>>
serverVars == <<watchClients, sMu, pending>>
sendVars == <<fan, todo, spc, target, msg, count>>
vars == <<connVars, once, queueVars, serverVars, sendVars>>

Senders == Flushers \cup {Fan}

ReaderPC == {"none", "start", "init", "publish", "read", "process",
             "shutdown", "exit"}
WriterPC == {"none", "select", "write", "shutdown", "exit"}
OnceStage == {"new", "done", "conn", "helper", "delete", "finished"}

TypeOK ==
  /\ conn \in [Clients -> {"none", "open", "closed"}]
  /\ peer \in [Clients -> {"reading", "stalled", "gone"}]
  /\ fconn \in [Clients -> BOOLEAN]
  /\ helper \in [Clients -> {"nil", "ready", "closed"}]
  /\ done \in [Clients -> BOOLEAN]
  /\ once \in [Clients -> OnceStage]
  /\ reader \in [Clients -> ReaderPC]
  /\ writer \in [Clients -> WriterPC]
  /\ frame \in [Clients -> Seq(Nat)]
  /\ sendQ \in [Clients -> Seq(Nat)]
  /\ \A c \in Clients : Len(sendQ[c]) <= QueueDepth /\ Len(frame[c]) <= 1
  /\ accepted \in [Clients -> SUBSET Nat]
  /\ wire \in [Clients -> Seq(Nat)]
  /\ watchClients \in SUBSET Clients
  /\ sMu \in {"free", "fanout"}
  /\ pending \in [Clients -> SUBSET Nat]
  /\ fan \in {"idle", "locked", "loop"}
  /\ todo \in SUBSET Clients
  /\ spc \in [Senders -> {"idle", "check", "enqueue", "shutdown"}]
  /\ target \in [Senders -> Clients \cup {NoClient}]
  /\ \A s \in Senders : spc[s] = "idle" <=> target[s] = NoClient
  /\ msg \in [Senders -> Nat]
  /\ count \in Nat

Init ==
  /\ conn = [c \in Clients |-> "none"]
  /\ peer = [c \in Clients |-> "reading"]
  /\ fconn = [c \in Clients |-> FALSE]
  /\ helper = [c \in Clients |-> "nil"]
  /\ done = [c \in Clients |-> FALSE]
  /\ once = [c \in Clients |-> "new"]
  /\ reader = [c \in Clients |-> "none"]
  /\ writer = [c \in Clients |-> "none"]
  /\ frame = [c \in Clients |-> <<>>]
  /\ sendQ = [c \in Clients |-> <<>>]
  /\ accepted = [c \in Clients |-> {}]
  /\ wire = [c \in Clients |-> <<>>]
  /\ watchClients = {}
  /\ sMu = "free"
  /\ pending = [c \in Clients |-> {}]
  /\ fan = "idle"
  /\ todo = {}
  /\ spc = [s \in Senders |-> "idle"]
  /\ target = [s \in Senders |-> NoClient]
  /\ msg = [s \in Senders |-> 0]
  /\ count = 0

----------------------------------------------------------------------------
\* The reader goroutine.

GoReader(c, to) == reader' = [reader EXCEPT ![c] = to]

\* A step of the reader that changes nothing else.
ReaderMoves(c, to) ==
  /\ GoReader(c, to)
  /\ UNCHANGED <<conn, peer, fconn, helper, done, once, queueVars, serverVars, sendVars>>

\* The listener accepts and starts listen on a fresh Client.
Accept(c) ==
  /\ reader[c] = "none"
  /\ conn' = [conn EXCEPT ![c] = "open"]
  /\ GoReader(c, "start")
  /\ UNCHANGED <<peer, fconn, helper, done, once, queueVars, serverVars, sendVars>>

\* listen assigns fconn, then starts writeLoop.
StartWriter(c) ==
  /\ reader[c] = "start"
  /\ fconn' = [fconn EXCEPT ![c] = TRUE]
  /\ writer' = [writer EXCEPT ![c] = "select"]
  /\ GoReader(c, "init")
  /\ UNCHANGED <<conn, peer, helper, done, once, frame, sendQ, accepted, wire,
                 serverVars, sendVars>>

\* Fault: the server accepts before its InitClient callback is set.
InitClientUnset(c) == reader[c] = "init" /\ ReaderMoves(c, "publish")

InitClient(c) ==
  /\ reader[c] = "init"
  /\ helper' = [helper EXCEPT ![c] = "ready"]
  /\ GoReader(c, "publish")
  /\ UNCHANGED <<conn, peer, fconn, done, once, queueVars, serverVars, sendVars>>

Publish(c) ==
  /\ reader[c] = "publish"
  /\ sMu = "free"
  /\ watchClients' = watchClients \cup {c}
  /\ GoReader(c, "read")
  /\ UNCHANGED <<conn, peer, fconn, helper, done, once, queueVars, sMu, pending, sendVars>>

ReadFrame(c) ==
  /\ reader[c] = "read"
  /\ conn[c] = "open" /\ peer[c] # "gone"
  /\ ReaderMoves(c, "process")

\* messageReceived: whether the processor fails or not, the loop goes on.
ProcessMsg(c) == reader[c] = "process" /\ ReaderMoves(c, "read")

\* closeOnce.Do: the first caller starts the run.
CallShutdown(c) ==
  once' = [once EXCEPT ![c] = IF once[c] = "new" THEN "done" ELSE once[c]]

ReadError(c) ==
  /\ reader[c] = "read"
  /\ conn[c] = "closed" \/ peer[c] = "gone"
  /\ CallShutdown(c)
  /\ GoReader(c, "shutdown")
  /\ UNCHANGED <<conn, peer, fconn, helper, done, queueVars, serverVars, sendVars>>

ReaderExit(c) ==
  /\ reader[c] = "shutdown" /\ once[c] = "finished"
  /\ ReaderMoves(c, "exit")

----------------------------------------------------------------------------
\* The writer goroutine.  With done closed and a frame queued, select may
\* take either case.

GoWriter(c, to) ==
  /\ writer' = [writer EXCEPT ![c] = to]
  /\ UNCHANGED <<connVars, accepted, serverVars, sendVars>>

TakeFrame(c) ==
  /\ writer[c] = "select"
  /\ sendQ[c] # <<>>
  /\ frame' = [frame EXCEPT ![c] = <<Head(sendQ[c])>>]
  /\ sendQ' = [sendQ EXCEPT ![c] = Tail(sendQ[c])]
  /\ GoWriter(c, "write")
  /\ UNCHANGED <<once, wire>>

WriterDone(c) ==
  /\ writer[c] = "select" /\ done[c]
  /\ GoWriter(c, "exit")
  /\ UNCHANGED <<once, frame, sendQ, wire>>

\* A write to a peer that has gone may still end in the kernel's buffer; one
\* to a stalled peer is parked until conn is closed.
WriteThen(c, to) ==
  /\ writer[c] = "write"
  /\ conn[c] = "open" /\ peer[c] # "stalled"
  /\ wire' = [wire EXCEPT ![c] = wire[c] \o frame[c]]
  /\ frame' = [frame EXCEPT ![c] = <<>>]
  /\ GoWriter(c, to)
  /\ UNCHANGED <<once, sendQ>>

\* Fault: writeLoop returns after one frame.
WriteFrameOnce(c) == WriteThen(c, "exit")

WriteFrame(c) == WriteThen(c, "select")

\* The frame is lost; frame[c] keeps it as the record of that.
WriteError(c) ==
  /\ writer[c] = "write"
  /\ conn[c] = "closed" \/ peer[c] = "gone"
  /\ CallShutdown(c)
  /\ GoWriter(c, "shutdown")
  /\ UNCHANGED <<frame, sendQ, wire>>

WriterExit(c) ==
  /\ writer[c] = "shutdown" /\ once[c] = "finished"
  /\ GoWriter(c, "exit")
  /\ UNCHANGED <<once, frame, sendQ, wire>>

----------------------------------------------------------------------------
\* The one run of shutdown, on the goroutine that called it first.

ShutdownGoes(c, from, to) ==
  /\ once[c] = from
  /\ once' = [once EXCEPT ![c] = to]
  /\ UNCHANGED <<peer, fconn, reader, queueVars, sMu, sendVars>>

CloseDone(c) ==
  /\ ShutdownGoes(c, "done", "conn")
  /\ done' = [done EXCEPT ![c] = TRUE]
  /\ UNCHANGED <<conn, helper, watchClients, pending>>

\* Fault: shutdown forgets to close conn.
CloseConnSkipped(c) ==
  /\ ShutdownGoes(c, "conn", "helper")
  /\ UNCHANGED <<conn, helper, done, watchClients, pending>>

CloseConn(c) ==
  /\ ShutdownGoes(c, "conn", "helper")
  /\ conn' = [conn EXCEPT ![c] = "closed"]
  /\ UNCHANGED <<helper, done, watchClients, pending>>

\* removeChannel: close the helper, which drops what it has parked ...
CloseHelper(c) ==
  /\ ShutdownGoes(c, "helper", "delete")
  /\ IF helper[c] = "ready"
     THEN /\ helper' = [helper EXCEPT ![c] = "closed"]
          /\ pending' = [pending EXCEPT ![c] = {}]
     ELSE UNCHANGED <<helper, pending>>
  /\ UNCHANGED <<conn, done, watchClients>>

\* Fault: removeChannel gives up when it does not get the lock at once.
RemoveChannelTryLock(c) ==
  /\ ShutdownGoes(c, "delete", "finished")
  /\ watchClients' = IF sMu = "free" THEN watchClients \ {c} ELSE watchClients
  /\ UNCHANGED <<conn, helper, done, pending>>

\* ... then delete the client from the fan-out map.
RemoveChannel(c) ==
  /\ ShutdownGoes(c, "delete", "finished")
  /\ sMu = "free"
  /\ watchClients' = watchClients \ {c}
  /\ UNCHANGED <<conn, helper, done, pending>>

----------------------------------------------------------------------------
\* SendBytes, run by sender s.

\* Sender s enters SendBytes with frame m for client c, and leaves it.
BeginSend(s, c, m) ==
  /\ spc' = [spc EXCEPT ![s] = "check"]
  /\ target' = [target EXCEPT ![s] = c]
  /\ msg' = [msg EXCEPT ![s] = m]

EndSend(s) ==
  /\ spc' = [spc EXCEPT ![s] = "idle"]
  /\ target' = [target EXCEPT ![s] = NoClient]
  /\ msg' = [msg EXCEPT ![s] = 0]
  /\ UNCHANGED <<connVars, once, writer, frame, wire, serverVars, fan, todo, count>>

GoSend(s, to) ==
  /\ spc' = [spc EXCEPT ![s] = to]
  /\ UNCHANGED <<connVars, queueVars, serverVars, fan, todo, target, msg, count>>

\* The first select: go on, or return ErrClientClosed.
CheckOpen(s) ==
  /\ spc[s] = "check" /\ ~done[target[s]]
  /\ GoSend(s, "enqueue")
  /\ UNCHANGED once

CheckClosed(s) ==
  /\ spc[s] = "check" /\ done[target[s]]
  /\ EndSend(s)
  /\ UNCHANGED <<sendQ, accepted>>

\* The second select.  First case: the frame is queued, if there is room.
EnqueueWithin(s, depth) ==
  LET c == target[s] IN
  /\ spc[s] = "enqueue" /\ Len(sendQ[c]) < depth
  /\ sendQ' = [sendQ EXCEPT ![c] = Append(sendQ[c], msg[s])]
  /\ accepted' = [accepted EXCEPT ![c] = accepted[c] \cup {msg[s]}]
  /\ EndSend(s)

\* Fault: one frame more than the queue holds is accepted.
EnqueueOverfull(s) == EnqueueWithin(s, QueueDepth + 1)

Enqueue(s) == EnqueueWithin(s, QueueDepth)

\* Second case, in any order with the first.
EnqueueClosed(s) ==
  /\ spc[s] = "enqueue" /\ done[target[s]]
  /\ EndSend(s)
  /\ UNCHANGED <<sendQ, accepted>>

\* The default case: the peer is a slow consumer and is dropped.
DropBeyond(s, depth) ==
  LET c == target[s] IN
  /\ spc[s] = "enqueue" /\ Len(sendQ[c]) >= depth /\ ~done[c]
  /\ CallShutdown(c)
  /\ GoSend(s, "shutdown")

\* Fault: the queue counts as full with room for one more frame.
EnqueueFullEarly(s) == DropBeyond(s, QueueDepth - 1)

\* Fault: no default case, so that a full queue blocks the sender.
EnqueueFullBlocks(s) ==
  /\ spc[s] = "enqueue" /\ Len(sendQ[target[s]]) >= QueueDepth
  /\ UNCHANGED vars

EnqueueFull(s) == DropBeyond(s, QueueDepth)

SendReturn(s) ==
  /\ spc[s] = "shutdown" /\ once[target[s]] = "finished"
  /\ EndSend(s)
  /\ UNCHANGED <<sendQ, accepted>>

----------------------------------------------------------------------------
\* The fan-out, and the flushes it leads to.

\* The subscriber hands Deliver the next message; Deliver takes the read lock.
Deliver ==
  /\ fan = "idle"
  /\ count < MaxFrames
  /\ count' = count + 1
  /\ sMu' = "fanout"
  /\ fan' = "locked"
  /\ UNCHANGED <<connVars, once, queueVars, watchClients, pending, todo, spc, target, msg>>

Snapshot ==
  /\ fan = "locked"
  /\ todo' = {c \in watchClients : helper[c] # "nil"}
  /\ sMu' = "free"
  /\ fan' = "loop"
  /\ UNCHANGED <<connVars, once, queueVars, watchClients, pending, spc, target, msg, count>>

\* Deliver calls the next func, once the previous one has returned.
NextFunc(c) ==
  /\ fan = "loop"
  /\ spc[Fan] = "idle"
  /\ c \in todo
  /\ todo' = todo \ {c}
  /\ UNCHANGED <<connVars, once, queueVars, watchClients, sMu, fan, count>>

\* WriteMsg has nothing to do: closed helper, path not mapped, bad payload.
FanSkip(c) ==
  /\ NextFunc(c)
  /\ UNCHANGED <<pending, spc, target, msg>>

\* WriteMsg sends the event.
FanSend(c) ==
  /\ NextFunc(c)
  /\ helper[c] = "ready"
  /\ BeginSend(Fan, c, count)
  /\ UNCHANGED pending

\* WriteMsg parks a WRITE, replacing the one parked for the same name, if any.
FanArm(c) ==
  /\ NextFunc(c)
  /\ helper[c] = "ready"
  /\ \E old \in SUBSET pending[c] :
        /\ \A x, y \in old : x = y
        /\ pending' = [pending EXCEPT ![c] = (pending[c] \ old) \cup {count}]
  /\ UNCHANGED <<spc, target, msg>>

FanDone ==
  /\ fan = "loop"
  /\ todo = {}
  /\ spc[Fan] = "idle"
  /\ fan' = "idle"
  /\ UNCHANGED <<connVars, once, queueVars, serverVars, todo, spc, target, msg, count>>

\* Fault: the flush leaves the event parked.
FlushKeeps(f, c) ==
  /\ spc[f] = "idle"
  /\ helper[c] = "ready"
  /\ \E m \in pending[c] : BeginSend(f, c, m)
  /\ UNCHANGED <<connVars, once, queueVars, serverVars, fan, todo, count>>

\* A timer goroutine takes a parked event and sends it.
Flush(f, c) ==
  /\ spc[f] = "idle"
  /\ helper[c] = "ready"
  /\ \E m \in pending[c] :
        /\ pending' = [pending EXCEPT ![c] = pending[c] \ {m}]
        /\ BeginSend(f, c, m)
  /\ UNCHANGED <<connVars, once, queueVars, watchClients, sMu, fan, todo, count>>

----------------------------------------------------------------------------
\* The peer may stop reading, resume, or go away at any time; once the socket
\* is closed it no longer matters.
PeerStep(c) ==
  /\ conn[c] = "open" /\ peer[c] # "gone"
  /\ \E p \in {"reading", "stalled", "gone"} \ {peer[c]} :
        peer' = [peer EXCEPT ![c] = p]
  /\ UNCHANGED <<conn, fconn, helper, done, once, reader, queueVars, serverVars, sendVars>>

ReaderStep(c) ==
  StartWriter(c) \/ InitClient(c) \/ Publish(c) \/ ProcessMsg(c) \/ ReadError(c)
    \/ ReaderExit(c)
WriterStep(c) ==
  TakeFrame(c) \/ WriterDone(c) \/ WriteFrame(c) \/ WriteError(c) \/ WriterExit(c)
ShutdownStep(c) ==
  CloseDone(c) \/ CloseConn(c) \/ CloseHelper(c) \/ RemoveChannel(c)
SendStep(s) ==
  CheckOpen(s) \/ CheckClosed(s) \/ Enqueue(s) \/ EnqueueClosed(s) \/ EnqueueFull(s)
    \/ SendReturn(s)
FanStep ==
  Snapshot \/ FanDone \/ \E c \in Clients : FanSkip(c) \/ FanSend(c) \/ FanArm(c)

Next ==
  \/ \E c \in Clients : \/ Accept(c) \/ ReadFrame(c) \/ ReaderStep(c)
                        \/ WriterStep(c) \/ ShutdownStep(c) \/ PeerStep(c)
  \/ \E s \in Senders : SendStep(s)
  \/ \E f \in Flushers, c \in Clients : Flush(f, c)
  \/ Deliver
  \/ FanStep

\* Every goroutine that can run is run.  Nothing forces a peer to connect, to
\* send, to read or to leave, nor redis to publish.
Fairness ==
  /\ \A c \in Clients : WF_vars(ReaderStep(c)) /\ WF_vars(WriterStep(c))
                          /\ WF_vars(ShutdownStep(c))
  /\ \A s \in Senders : WF_vars(SendStep(s))
  /\ \A f \in Flushers : WF_vars(\E c \in Clients : Flush(f, c))
  /\ WF_vars(FanStep)

Spec == Init /\ [][Next]_vars /\ Fairness

----------------------------------------------------------------------------
\* A client Deliver can find in the fan-out map is complete: fconn is there
\* for the writer and Helper for the fan-out (tcpserver.go:83, server.go:59),
\* so no published client is skipped and no sender meets a nil fconn.
PublishedReady ==
  \A c \in watchClients : fconn[c] /\ helper[c] # "nil" /\ writer[c] # "none"

\* Once shutdown has run, and its callers have returned, the client is out of
\* the fan-out map for good, whichever goroutine ran it and whatever listen,
\* Deliver and the timers were doing meanwhile: no entry leaks.
NoZombie ==
  \A c \in Clients : once[c] = "finished" => c \notin watchClients /\ helper[c] = "closed"

\* A connection is only torn down because its peer is gone or because it has
\* let a whole queue of frames pile up (tcpserver.go:149): a client that keeps
\* up is never dropped, whatever the other clients do.
DropOnlyFailed ==
  [][\A c \in Clients : once[c] = "new" /\ once'[c] # "new"
        => peer[c] = "gone" \/ Len(sendQ[c]) = QueueDepth]_vars

\* The connection server implements FrameStream: what SendBytes accepts
\* reaches the wire in order, each message at most once per client, with at
\* most a full queue and the writer's frame in between, and nothing is written
\* once conn is closed.
Stream == INSTANCE FrameStream WITH
  Frames <- 1..MaxFrames,
  Bound <- QueueDepth + 1,
  offered <- accepted,
  backlog <- [c \in Clients |-> frame[c] \o sendQ[c]],
  delivered <- wire,
  cut <- [c \in Clients |-> conn[c] = "closed"]

StreamRefinement == Stream!StreamSpec

\* A stalled peer cannot block the shared fan-out (tcpserver.go:129): Deliver
\* always comes back, even if some peers never read again.
FanoutCompletes == (fan # "idle") ~> (fan = "idle")

\* shutdown completes and unblocks the connection's own goroutines
\* (tcpserver.go:119), including a writer parked on a stalled peer.
TornDown(c) == once[c] = "finished" /\ reader[c] = "exit" /\ writer[c] = "exit"
DroppedClientTornDown == \A c \in Clients : (once[c] # "new") ~> TornDown(c)

\* A peer that keeps reading gets everything that was queued for it, unless
\* its connection is dropped.
PromptDelivery ==
  \A c \in Clients : <>[](peer[c] = "reading")
     => <>[](frame[c] \o sendQ[c] = <<>> \/ once[c] # "new")
=============================================================================
