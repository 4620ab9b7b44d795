----------------------------- MODULE JfsWatcher -----------------------------
(***************************************************************************)
(* The Go client library, jfsnotify/backend_jfs.go: start (connect, read,  *)
(* send and replay goroutines), Add, Remove and Close.                     *)
(*                                                                         *)
(* The i-th connection is numbered i, and so are the reader and the sender *)
(* goroutine that start makes for it.  Both work on w.fconn, whichever     *)
(* connection that is by then, and a sender only ends with the watcher:    *)
(* after a reconnect there are several.  The server end is the protocol:   *)
(* reg is what CLEAR, WATCH and UNWATCH ask for over the connection        *)
(* (WatchRegistry is what the proxy makes of them).  The program reads     *)
(* Events and Errors, so that sending to them does not block.              *)
(*                                                                         *)
(* The two reads of w.fconn in syncWrite, and start's assignment of nil,   *)
(* are not ordered by a lock: "frame" is the state between the reads, and  *)
(* "flush" the one after, with the connection that the second one found.   *)
(***************************************************************************)
EXTENDS Naturals, Sequences

CONSTANTS Callers,       \* goroutines of the program that call the watcher
          Paths,         \* the paths they watch
          SendCap,       \* capacity of sendQ
          ReconnectCap,  \* capacity of reconnect
          MaxConns,      \* bound on the connections made
          MaxCalls       \* bound on the calls made

ASSUME CapAssumption == SendCap \in Nat \ {0} /\ ReconnectCap \in Nat \ {0}
ASSUME BoundAssumption == MaxConns \in Nat /\ MaxCalls \in Nat
ASSUME PathsAssumption == Paths # {}

VARIABLES
  starter,    \* control state of start: "top", "dial", "batch", "replay" or "signal"
  initTask,   \* w.initTask
  reconnect,  \* signals in w.reconnect
  sendQ,      \* w.sendQ
  fconn,      \* w.fconn: the number of a connection, 0 for nil
  link,       \* that connection is up; without one, FALSE
  watches,    \* w.watches
  mu,         \* w.mu: "free" or held by "start" or by "remove"
  closed,     \* Close has cancelled w.ctx
  crashed,    \* a goroutine has panicked
  reader,     \* each reader: "none", "enter", "exit", or "read"
  rconn,      \*   ... the connection it is reading
  sender,     \* control state of each sender
  out,        \*   ... the message it holds
  wconn,      \*   ... and the connection it writes it to
  caller,     \* control state of each caller
  arg,        \*   ... and the path of its call
  conns,      \* connections made
  calls,      \* calls made
  reg,        \* the paths registered over the connection
  listed,     \* history: w.watches when the connection was made
  removed     \* history: paths for which Remove has been called

startVars == <<starter, initTask, fconn, conns, listed>>
readerVars == <<reader, rconn>>
senderVars == <<sender, out, wconn>>
callVars == <<watches, closed, caller, arg, calls, removed>>
vars == <<startVars, reconnect, sendQ, link, mu, crashed, readerVars, senderVars, callVars, reg>>

Conns == 1..MaxConns
Msgs == [type : {"WATCH", "UNWATCH"}, paths : SUBSET Paths]
NoMsg == [type |-> "none", paths |-> {}]

TypeOK ==
  /\ starter \in {"top", "dial", "batch", "replay", "signal"}
  /\ initTask \in Seq({"clear", "addWatch"})
  /\ reconnect \in 0..ReconnectCap
  /\ sendQ \in Seq(Msgs) /\ Len(sendQ) <= SendCap
  /\ fconn \in 0..MaxConns /\ link \in BOOLEAN /\ (fconn = 0 => ~link)
  /\ watches \in SUBSET Paths /\ mu \in {"free", "start", "remove"}
  /\ closed \in BOOLEAN /\ crashed \in BOOLEAN
  /\ reader \in [Conns -> {"none", "enter", "read", "exit"}] /\ rconn \in [Conns -> 0..MaxConns]
  /\ sender \in [Conns -> {"none", "check", "select", "write", "frame", "flush", "signal", "exit"}]
  /\ out \in [Conns -> Msgs \cup {NoMsg}] /\ wconn \in [Conns -> 0..MaxConns]
  /\ caller \in [Callers -> {"idle", "add", "record", "lock", "remove"}]
  /\ arg \in [Callers -> Paths]
  /\ conns \in 0..MaxConns /\ calls \in 0..MaxCalls
  /\ {reg, listed, removed} \subseteq SUBSET Paths

Init ==
  /\ starter = "top" /\ initTask = <<"clear">> /\ reconnect = 0 /\ sendQ = <<>>
  /\ fconn = 0 /\ link = FALSE /\ watches = {} /\ mu = "free" /\ closed = FALSE /\ crashed = FALSE
  /\ reader = [i \in Conns |-> "none"] /\ rconn = [i \in Conns |-> 0]
  /\ sender = [i \in Conns |-> "none"] /\ out = [i \in Conns |-> NoMsg] /\ wconn = [i \in Conns |-> 0]
  /\ caller = [u \in Callers |-> "idle"] /\ arg = [u \in Callers |-> CHOOSE p \in Paths : TRUE]
  /\ conns = 0 /\ calls = 0 /\ reg = {} /\ listed = {} /\ removed = {}

----------------------------------------------------------------------------
\* The start goroutine.

StartGoes(from, to) ==
  /\ ~crashed /\ starter = from /\ starter' = to
  /\ UNCHANGED <<crashed, senderVars, callVars>>

\* The top of the loop: look at the context, then dial.
Top ==
  /\ ~closed /\ StartGoes("top", "dial")
  /\ UNCHANGED <<initTask, fconn, conns, listed, reconnect, sendQ, link, mu, readerVars, reg>>

\* The dial fails, and is tried again after a second.
DialFails ==
  /\ StartGoes("dial", "top")
  /\ UNCHANGED <<initTask, fconn, conns, listed, reconnect, sendQ, link, mu, readerVars, reg>>

\* It succeeds: w.fconn is set, the replay task queued, and the reader and the
\* sender of the new connection started.
Dial ==
  /\ ~crashed /\ starter = "dial" /\ conns < MaxConns
  /\ starter' = "batch"
  /\ conns' = conns + 1 /\ fconn' = conns + 1 /\ link' = TRUE /\ reg' = {} /\ listed' = watches
  /\ initTask' = Append(initTask, "addWatch")
  /\ reader' = [reader EXCEPT ![conns + 1] = "enter"]
  /\ sender' = [sender EXCEPT ![conns + 1] = "check"]
  /\ UNCHANGED <<reconnect, sendQ, mu, crashed, rconn, out, wconn, callVars>>

\* w.writeMu is held by the sender that is in syncWrite.
WriteMuFree == \A i \in Conns : sender[i] \notin {"frame", "flush"}

\* The init task: send CLEAR at once, past the queue, once in a lifetime.  On a
\* broken connection it is lost, or fails.
SendClear ==
  /\ initTask # <<>> /\ Head(initTask) = "clear" /\ WriteMuFree
  /\ StartGoes("batch", "batch") \/ (~link /\ StartGoes("batch", "signal"))
  /\ initTask' = Tail(initTask)
  /\ reg' = IF link THEN {} ELSE reg
  /\ UNCHANGED <<fconn, conns, listed, reconnect, sendQ, link, mu, readerVars>>

\* The failure is told to the channel that only start itself receives from.
ClearSignal ==
  /\ reconnect < ReconnectCap /\ StartGoes("signal", "batch")
  /\ reconnect' = reconnect + 1
  /\ UNCHANGED <<initTask, fconn, conns, listed, sendQ, link, mu, readerVars, reg>>

AddWatchIf(any) ==
  /\ initTask # <<>> /\ Head(initTask) = "addWatch" /\ mu = "free"
  /\ StartGoes("batch", IF any THEN "replay" ELSE "batch")
  /\ mu' = IF any THEN "start" ELSE "free"
  /\ initTask' = Tail(initTask)
  /\ UNCHANGED <<fconn, conns, listed, reconnect, sendQ, link, readerVars, reg>>

\* Fault: the replay task does nothing on a connection after the first.
AddWatchOnce == AddWatchIf(watches # {} /\ conns = 1)

\* The replay task: under the read lock, queue one WATCH for all watches.
AddWatch == AddWatchIf(watches # {})

\* The blocking send to sendQ, then the unlock.
Replay ==
  /\ Len(sendQ) < SendCap
  /\ StartGoes("replay", "batch")
  /\ sendQ' = Append(sendQ, [type |-> "WATCH", paths |-> watches])
  /\ mu' = "free"
  /\ UNCHANGED <<initTask, fconn, conns, listed, reconnect, link, readerVars, reg>>

\* With the tasks done start waits for a signal, swallows the others, closes
\* the connection and forgets it.
Drop ==
  /\ initTask = <<>> /\ reconnect > 0 /\ StartGoes("batch", "top")
  /\ reconnect' = 0 /\ link' = FALSE /\ fconn' = 0
  /\ UNCHANGED <<initTask, conns, listed, sendQ, mu, readerVars, reg>>

\* A panic: the program is gone.
Panic == crashed' = TRUE /\ UNCHANGED <<startVars, reconnect, sendQ, link, mu, readerVars,
                                        senderVars, callVars, reg>>

\* At the top with the context cancelled, clear closes Errors twice.
Clear == ~crashed /\ starter = "top" /\ closed /\ Panic

----------------------------------------------------------------------------
\* The reader of connection i.

ReaderGoes(i, from, to, conn) ==
  /\ ~crashed /\ reader[i] = from
  /\ reader' = [reader EXCEPT ![i] = to] /\ rconn' = [rconn EXCEPT ![i] = conn]
  /\ UNCHANGED <<startVars, sendQ, link, mu, crashed, senderVars, callVars, reg>>

\* The top of its loop: end, or call ReadFrame on w.fconn, which panics on nil.
ReaderDone(i) == closed /\ ReaderGoes(i, "enter", "exit", 0) /\ UNCHANGED reconnect
ReaderEnter(i) == ~closed /\ fconn # 0 /\ ReaderGoes(i, "enter", "read", fconn) /\ UNCHANGED reconnect
ReaderNil(i) == ~crashed /\ reader[i] = "enter" /\ ~closed /\ fconn = 0 /\ Panic

\* A frame with events, for the Events channel, or a bad one, for Errors.
ReadFrame(i) ==
  link /\ rconn[i] = fconn /\ ReaderGoes(i, "read", "enter", 0) /\ UNCHANGED reconnect

\* Its connection is broken, or has been closed.
Broken(i) == rconn[i] # fconn \/ ~link

\* Fault: a reader that meets an error just ends.
ReadErrorSilent(i) == Broken(i) /\ ReaderGoes(i, "read", "exit", 0) /\ UNCHANGED reconnect

\* It tells start, once there is room for the signal, and ends.
ReadError(i) ==
  /\ Broken(i) /\ reconnect < ReconnectCap
  /\ ReaderGoes(i, "read", "exit", 0)
  /\ reconnect' = reconnect + 1

----------------------------------------------------------------------------
\* The sender of connection i.

SenderGoes(i, from, to, msg) ==
  /\ ~crashed /\ sender[i] = from
  /\ sender' = [sender EXCEPT ![i] = to] /\ out' = [out EXCEPT ![i] = msg]
  /\ wconn' = [wconn EXCEPT ![i] = IF to = "flush" THEN fconn ELSE 0]
  /\ UNCHANGED <<startVars, link, mu, crashed, readerVars, callVars>>

SenderCheck(i) ==
  fconn # 0 /\ SenderGoes(i, "check", "select", NoMsg) /\ UNCHANGED <<sendQ, reconnect, reg>>

SenderTake(i) ==
  /\ sendQ # <<>> /\ SenderGoes(i, "select", "write", Head(sendQ))
  /\ sendQ' = Tail(sendQ)
  /\ UNCHANGED <<reconnect, reg>>

SenderEnds(i) ==
  closed /\ SenderGoes(i, "select", "exit", NoMsg) /\ UNCHANGED <<sendQ, reconnect, reg>>

\* Fault: the context is looked at only when there is a message.
SenderDoneOnMessage(i) == sendQ # <<>> /\ SenderEnds(i)

SenderDone(i) == SenderEnds(i)

\* syncWrite takes writeMu and looks at w.fconn: nil is ErrClosed, which
\* isSocketError takes for a socket error.
SyncWrite(i) ==
  /\ WriteMuFree /\ SenderGoes(i, "write", IF fconn = 0 THEN "signal" ELSE "frame", out[i])
  /\ UNCHANGED <<sendQ, reconnect, reg>>

\* What the server makes of message m.
Register(m) == IF m.type = "WATCH" THEN reg \cup m.paths ELSE reg \ m.paths

\* The second read of w.fconn: WriteFrame is called on what it is now, and
\* panics on nil.
LoadConn(i) ==
  fconn # 0 /\ SenderGoes(i, "frame", "flush", out[i]) /\ UNCHANGED <<sendQ, reconnect, reg>>

LoadNil(i) == ~crashed /\ sender[i] = "frame" /\ fconn = 0 /\ Panic

\* Written on the connection of the moment ...
WriteFrame(i) ==
  /\ link /\ wconn[i] = fconn /\ SenderGoes(i, "flush", "check", NoMsg)
  /\ reg' = Register(out[i])
  /\ UNCHANGED <<sendQ, reconnect>>

\* ... or on one that is broken or closed: lost, or failed.
WriteLost(i) ==
  /\ ~link \/ wconn[i] # fconn
  /\ \E to \in {"check", "signal"} : SenderGoes(i, "flush", to, NoMsg)
  /\ UNCHANGED <<sendQ, reconnect, reg>>

\* The error is told to start, then to the program.
SenderSignal(i) ==
  /\ reconnect < ReconnectCap /\ SenderGoes(i, "signal", "check", NoMsg)
  /\ reconnect' = reconnect + 1
  /\ UNCHANGED <<sendQ, reg>>

----------------------------------------------------------------------------
\* The program's calls.

CallGoes(u, from, to) ==
  /\ ~crashed /\ caller[u] = from
  /\ caller' = [caller EXCEPT ![u] = to]
  /\ UNCHANGED <<startVars, reconnect, link, crashed, readerVars, senderVars, reg>>

Call(u, p) ==
  /\ calls < MaxCalls
  /\ calls' = calls + 1
  /\ arg' = [arg EXCEPT ![u] = p]
  /\ \/ CallGoes(u, "idle", "add") /\ UNCHANGED removed
     \/ CallGoes(u, "idle", "lock") /\ removed' = removed \cup {p}
  /\ UNCHANGED <<watches, closed, sendQ, mu>>

AddSendWithin(u, cap) ==
  /\ Len(sendQ) < cap /\ CallGoes(u, "add", "record")
  /\ sendQ' = Append(sendQ, [type |-> "WATCH", paths |-> {arg[u]}])
  /\ UNCHANGED <<watches, closed, arg, calls, removed, mu>>

\* Fault: one message more than sendQ holds is accepted.
AddSendOverfull(u) == AddSendWithin(u, SendCap + 1)

\* Add: queue the WATCH ...
AddSend(u) == AddSendWithin(u, SendCap)

\* ... then put the path on the list.
AddRecord(u) ==
  /\ mu = "free" /\ CallGoes(u, "record", "idle")
  /\ watches' = watches \cup {arg[u]}
  /\ UNCHANGED <<closed, arg, calls, removed, sendQ, mu>>

RemoveLock(u) ==
  /\ mu = "free" /\ CallGoes(u, "lock", "remove")
  /\ mu' = "remove"
  /\ UNCHANGED <<watches, closed, arg, calls, removed, sendQ>>

RemoveThen(u, lock) ==
  /\ Len(sendQ) < SendCap /\ CallGoes(u, "remove", "idle")
  /\ sendQ' = Append(sendQ, [type |-> "UNWATCH", paths |-> {arg[u]}])
  /\ watches' = watches \ {arg[u]}
  /\ mu' = lock
  /\ UNCHANGED <<closed, arg, calls, removed>>

\* Fault: Remove never unlocks.
RemoveNoUnlock(u) == RemoveThen(u, "remove")

\* Remove: with the lock held queue the UNWATCH, then rebuild the list.
Remove(u) == RemoveThen(u, "free")

Close(u) ==
  /\ ~closed /\ calls < MaxCalls /\ CallGoes(u, "idle", "idle")
  /\ calls' = calls + 1 /\ closed' = TRUE
  /\ UNCHANGED <<watches, arg, removed, sendQ, mu>>

----------------------------------------------------------------------------
\* The network or the server breaks the connection.
LinkBreaks ==
  /\ ~crashed /\ link
  /\ link' = FALSE
  /\ UNCHANGED <<startVars, reconnect, sendQ, mu, crashed, readerVars, senderVars, callVars, reg>>

StartStep ==
  Top \/ DialFails \/ Dial \/ SendClear \/ ClearSignal \/ AddWatch \/ Replay \/ Drop \/ Clear
ReaderStep(i) == ReaderDone(i) \/ ReaderEnter(i) \/ ReaderNil(i) \/ ReadError(i)
SenderStep(i) ==
  SenderCheck(i) \/ SenderTake(i) \/ SenderDone(i) \/ SyncWrite(i) \/ LoadConn(i)
    \/ LoadNil(i) \/ WriteFrame(i) \/ WriteLost(i) \/ SenderSignal(i)
CallStep(u) == AddSend(u) \/ AddRecord(u) \/ RemoveLock(u) \/ Remove(u)

Next ==
  \/ StartStep \/ LinkBreaks
  \/ \E i \in Conns : ReaderStep(i) \/ ReadFrame(i) \/ SenderStep(i)
  \/ \E u \in Callers : CallStep(u) \/ Close(u) \/ \E p \in Paths : Call(u, p)

\* Goroutines run, and the program keeps reading Events and Errors.  Nothing
\* forces the server to send, the network to break, or the program to call.
Fairness ==
  /\ WF_vars(StartStep)
  /\ \A i \in Conns : WF_vars(ReaderStep(i)) /\ WF_vars(SenderStep(i))
  /\ \A u \in Callers : WF_vars(CallStep(u))

Spec == Init /\ [][Next]_vars /\ Fairness

----------------------------------------------------------------------------
\* Nothing is queued or on its way to the server, and the connection is good.
Settled ==
  /\ starter = "batch" /\ initTask = <<>> /\ reconnect = 0 /\ sendQ = <<>> /\ link
  /\ \A i \in Conns : sender[i] \in {"none", "check", "select", "exit"}

\* A path that was on the list when the connection was made, and that nobody
\* has removed, is registered over it once the queue has drained, whatever
\* the senders of earlier connections, the init CLEAR and concurrent calls do
\* (backend_jfs.go:229-238, 279, 317).
ListedWatchesReplayed == Settled /\ ~crashed => (listed \ removed) \subseteq reg

\* The channel of signals is full and start, which alone empties it, will not
\* come to do so: it sends to the channel itself (backend_jfs.go:222-224), or
\* waits for room in a full sendQ, or for the lock that a Remove holds while it
\* waits for that, and every sender waits to signal.
Jammed ==
  /\ reconnect = ReconnectCap
  /\ \/ starter = "signal"
     \/ /\ Len(sendQ) = SendCap /\ \A i \in Conns : sender[i] \in {"none", "signal", "exit"}
        /\ \/ starter = "replay"
           \/ starter = "batch" /\ initTask = <<"addWatch">> /\ mu = "remove"

\* A broken connection is given up for another one, as long as the program
\* reads its channels (backend_jfs.go:290, 332, 355), and nothing but a full
\* channel of signals that start fills or waits behind can prevent it.
BrokenLinkReplaced ==
  \A i \in Conns : (fconn = i /\ ~link) ~> (fconn # i \/ Jammed \/ crashed \/ closed)

\* Add and Remove return while there is a connection, although both wait for
\* room in sendQ, Remove with the lock held that the replay needs too
\* (backend_jfs.go:400, 492-496, 229-233), unless start is stuck in that way.
CallsReturn ==
  \A u \in Callers :
    (caller[u] # "idle") ~> (caller[u] = "idle" \/ fconn = 0 \/ Jammed \/ crashed \/ closed)

\* After Close every sender ends, those of earlier connections too, wherever it
\* is (backend_jfs.go:319-326, 404), while the connection is good and start not
\* stuck.  Once it is lost nothing is claimed: start comes to clear, and panics.
CloseEndsSenders ==
  closed ~> (~link \/ Jammed \/ \A i \in Conns : sender[i] \in {"none", "exit"})

\* Reconnecting keeps the service available
\* (rust-jfs/docs/jfswatcher-flow.md:305): no goroutine panics over it.
SurvivesReconnect == crashed => closed
=============================================================================
