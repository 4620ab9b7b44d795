---------------------------- MODULE RustWatcher ----------------------------
(***************************************************************************)
(* The Rust client library: rust-jfs/src/watcher.rs (JFSWatcher: add,      *)
(* remove, the connection manager, resend_watches) and rust-jfs/src/       *)
(* utils.rs (connect_and_run with its reader and writer task).             *)
(*                                                                         *)
(* Unlike the Go client it lists a path before it sends it, has one writer *)
(* at a time, and reconnects only when both tasks of a connection have     *)
(* ended.  Reader and writer block in std calls and never await, so each   *)
(* keeps a worker thread of the runtime from its first step to its last;   *)
(* so do the manager in its replay and a caller in its send, which block   *)
(* on the full channel.  The manager gives its worker up while it waits    *)
(* for the other two.  The callers are tasks of the same runtime.          *)
(*                                                                         *)
(* reg is what the messages written over the current connection ask of the *)
(* server.  The program reads the event channel until it drops the         *)
(* watcher; nothing is closed then but that channel.                       *)
(***************************************************************************)
EXTENDS Naturals, Sequences, FiniteSets

CONSTANTS Paths,       \* the paths the program watches
          Callers,     \* tasks of the program that call the watcher
          SendCap,     \* capacity of the write channel
          Workers,     \* worker threads of the runtime
          MaxRetries,  \* MAX_RETRIES
          MaxConns,    \* bound on the connections made
          MaxCalls     \* bound on the calls made

ASSUME SendCapAssumption == SendCap \in Nat \ {0}
ASSUME WorkersAssumption == Workers \in Nat \ {0}
ASSUME BoundAssumption == MaxRetries \in Nat /\ MaxConns \in Nat /\ MaxCalls \in Nat

VARIABLES
  manager,     \* the manager: "connect", "list", "resend", "join" or "gone"
  retryCount,  \* retry_count
  alive,       \* connection_alive of the current connection
  link,        \* the current connection: "none", "up" or "down"
  reader,      \* control state of the reader task
  writer,      \* control state of the writer task
  out,         \* the message the writer has received
  channel,     \* the write channel
  watches,     \* the list of watched paths
  call,        \* each caller: NoMsg, or the message it has yet to send
  dropped,     \* the program has dropped the watcher
  conns,       \* connections made
  calls,       \* calls made
  reg,         \* the paths registered over the current connection
  raced        \* history: paths with an add and a remove at the same time

managerVars == <<manager, retryCount, conns>>
taskVars == <<reader, writer, out>>
callVars == <<watches, call, calls, dropped, raced>>
vars == <<managerVars, alive, link, taskVars, channel, callVars, reg>>

Msgs == [type : {"CLEAR", "WATCH", "UNWATCH"}, paths : SUBSET Paths]
Clear == [type |-> "CLEAR", paths |-> {}]
NoMsg == [type |-> "none", paths |-> {}]

TypeOK ==
  /\ manager \in {"connect", "list", "resend", "join", "gone"}
  /\ retryCount \in 0..MaxRetries + 1
  /\ alive \in BOOLEAN
  /\ link \in {"none", "up", "down"}
  /\ reader \in {"none", "spawned", "check", "read", "exit"}
  /\ writer \in {"none", "spawned", "check", "recv", "write", "exit"}
  /\ out \in Msgs \cup {NoMsg} /\ (out # NoMsg <=> writer = "write")
  /\ channel \in Seq(Msgs) /\ Len(channel) <= SendCap
  /\ watches \in SUBSET Paths
  /\ call \in [Callers -> Msgs \cup {NoMsg}]
  /\ conns \in 0..MaxConns /\ calls \in 0..MaxCalls
  /\ reg \in SUBSET Paths /\ raced \in SUBSET Paths /\ dropped \in BOOLEAN

\* new has queued the CLEAR and spawned the manager.
Init ==
  /\ manager = "connect" /\ retryCount = 0
  /\ alive = FALSE /\ link = "none"
  /\ reader = "none" /\ writer = "none" /\ out = NoMsg
  /\ channel = <<Clear>>
  /\ watches = {} /\ call = [u \in Callers |-> NoMsg]
  /\ conns = 0 /\ calls = 0 /\ reg = {} /\ raced = {} /\ dropped = FALSE

----------------------------------------------------------------------------
\* The worker threads.

\* A task that keeps a worker until it is past its blocking calls.
Running(task) == task \notin {"none", "spawned", "exit"}

\* The workers that are kept.
One(keeps) == IF keeps THEN 1 ELSE 0
Held ==
  One(Running(reader)) + One(Running(writer)) + One(manager \in {"list", "resend"})
    + Cardinality({u \in Callers : call[u] # NoMsg})

\* A task that waits for the runtime runs once there is a worker for it.
FreeWorker == Held < Workers

----------------------------------------------------------------------------
\* The connection manager.

Connect ==
  /\ manager = "connect" /\ conns < MaxConns /\ FreeWorker
  /\ manager' = "list"
  /\ conns' = conns + 1
  /\ link' = "up"
  /\ reg' = {}
  /\ UNCHANGED <<retryCount, alive, taskVars, channel, callVars>>

\* connect fails: wait and try again, or give up for good.
ConnectFails ==
  /\ manager = "connect" /\ FreeWorker
  /\ retryCount' = retryCount + 1
  /\ manager' = IF retryCount + 1 > MaxRetries THEN "gone" ELSE "connect"
  /\ UNCHANGED <<conns, alive, link, taskVars, channel, callVars, reg>>

\* The two tasks of the connection are spawned.
Spawn ==
  /\ manager' = "join"
  /\ alive' = TRUE
  /\ reader' = "spawned" /\ writer' = "spawned"

Resending(any) ==
  /\ manager = "list"
  /\ IF any THEN manager' = "resend" /\ UNCHANGED <<alive, reader, writer>> ELSE Spawn
  /\ UNCHANGED <<retryCount, conns, link, out, channel, callVars, reg>>

\* Fault: with messages queued, the list is not sent again.
ListWatchesIfIdle == Resending(watches # {} /\ channel = <<>>)

\* resend_watches locks the list for reading, and returns if it is empty.
ListWatches == Resending(watches # {})

\* The blocking send of one WATCH for the whole list, with the lock held.
Resend ==
  /\ manager = "resend" /\ Len(channel) < SendCap
  /\ channel' = Append(channel, [type |-> "WATCH", paths |-> watches])
  /\ Spawn
  /\ UNCHANGED <<retryCount, conns, link, out, callVars, reg>>

\* Both tasks have ended; connect_and_run returns Ok.
Join ==
  /\ manager = "join" /\ reader = "exit" /\ writer = "exit" /\ FreeWorker
  /\ manager' = "connect"
  /\ retryCount' = 0
  /\ UNCHANGED <<conns, alive, link, taskVars, channel, callVars, reg>>

----------------------------------------------------------------------------
\* The reader task.

ReaderGoes(from, to) ==
  /\ reader = from /\ reader' = to
  /\ UNCHANGED <<managerVars, link, writer, out, channel, callVars, reg>>

ReaderStart == FreeWorker /\ ReaderGoes("spawned", "check") /\ UNCHANGED alive

ReaderCheck == ReaderGoes("check", IF alive THEN "read" ELSE "exit") /\ UNCHANGED alive

\* A frame: events for the program.  With the watcher dropped the send fails,
\* and the reader panics without telling the writer.
ReadFrame ==
  link = "up" /\ ReaderGoes("read", IF dropped THEN "exit" ELSE "check") /\ UNCHANGED alive

\* Fault: the reader ends without telling the writer.
ReadErrorSilent == link = "down" /\ ReaderGoes("read", "exit") /\ UNCHANGED alive

ReadError == link = "down" /\ ReaderGoes("read", "exit") /\ alive' = FALSE

----------------------------------------------------------------------------
\* The writer task.

WriterGoes(from, to, msg) ==
  /\ writer = from /\ writer' = to /\ out' = msg
  /\ UNCHANGED <<managerVars, link, reader, callVars>>

WriterStart ==
  /\ FreeWorker /\ WriterGoes("spawned", "check", NoMsg)
  /\ UNCHANGED <<alive, channel, reg>>

WriterCheck ==
  /\ WriterGoes("check", IF alive THEN "recv" ELSE "exit", NoMsg)
  /\ UNCHANGED <<alive, channel, reg>>

Recv ==
  /\ channel # <<>> /\ WriterGoes("recv", "write", Head(channel))
  /\ channel' = Tail(channel)
  /\ UNCHANGED <<alive, reg>>

Timeout(to) == channel = <<>> /\ WriterGoes("recv", to, NoMsg) /\ UNCHANGED <<alive, channel, reg>>

\* Fault: a timeout is taken for the end of the channel.
RecvTimeoutEnds == Timeout("exit")

\* recv_timeout comes back without a message.
RecvTimeout == Timeout("check")

\* What the server makes of message m.
Register(m) ==
  CASE m.type = "CLEAR" -> {}
    [] m.type = "WATCH" -> reg \cup m.paths
    [] m.type = "UNWATCH" -> reg \ m.paths

Write ==
  /\ link = "up" /\ WriterGoes("write", "check", NoMsg)
  /\ reg' = Register(out)
  /\ UNCHANGED <<alive, channel>>

\* A broken connection: the message is lost in a buffer, or the write fails.
WriteLost ==
  /\ link = "down"
  /\ \/ WriterGoes("write", "check", NoMsg) /\ UNCHANGED alive
     \/ WriterGoes("write", "exit", NoMsg) /\ alive' = FALSE
  /\ UNCHANGED <<channel, reg>>

----------------------------------------------------------------------------
\* The program's calls.  The list is written under its lock, which
\* resend_watches holds while it sends; the message is sent after that.

CallRest == UNCHANGED <<managerVars, alive, link, taskVars, reg>>

Begin(u, p, type) ==
  /\ call[u] = NoMsg /\ calls < MaxCalls /\ ~dropped
  /\ manager # "resend" /\ FreeWorker
  /\ calls' = calls + 1
  /\ call' = [call EXCEPT ![u] = [type |-> type, paths |-> {p}]]
  /\ raced' = raced \cup {q \in {p} : \E v \in Callers : call[v].paths = {p} /\ call[v].type # type}
  /\ UNCHANGED <<channel, dropped>> /\ CallRest

AddWith(u, p) == Begin(u, p, "WATCH") /\ watches' = watches \cup {p}

Remove(u, p) == Begin(u, p, "UNWATCH") /\ watches' = watches \ {p}

SendWithin(u, cap) ==
  /\ call[u] # NoMsg /\ Len(channel) < cap
  /\ channel' = Append(channel, call[u])
  /\ call' = [call EXCEPT ![u] = NoMsg]
  /\ UNCHANGED <<watches, calls, dropped, raced>> /\ CallRest

\* Fault: one message more than the channel holds is accepted.
SendWatchMessageOverfull(u) == SendWithin(u, SendCap + 1)

SendWatchMessage(u) == SendWithin(u, SendCap)

\* The watcher goes out of scope; no call borrows it.
Drop ==
  /\ ~dropped /\ \A u \in Callers : call[u] = NoMsg
  /\ dropped' = TRUE
  /\ UNCHANGED <<watches, call, calls, raced, channel>> /\ CallRest

----------------------------------------------------------------------------
\* The network or the server breaks the connection.
LinkBreaks ==
  /\ link = "up"
  /\ link' = "down"
  /\ UNCHANGED <<managerVars, alive, taskVars, channel, callVars, reg>>

ManagerStep == ListWatches \/ Resend \/ Join
ReaderStep == ReaderStart \/ ReaderCheck \/ ReadError
WriterStep == WriterStart \/ WriterCheck \/ Recv \/ RecvTimeout \/ Write \/ WriteLost

Next ==
  \/ Connect \/ ConnectFails \/ ManagerStep
  \/ ReaderStep \/ ReadFrame \/ WriterStep
  \/ \E u \in Callers : SendWatchMessage(u) \/ \E p \in Paths : AddWith(u, p) \/ Remove(u, p)
  \/ Drop \/ LinkBreaks

\* Tasks run, and the program reads the events.  Nothing forces the server to
\* be there or to send, the network to break, or the program to call.
Fairness ==
  /\ WF_vars(ManagerStep)
  /\ WF_vars(ReaderStep)
  /\ WF_vars(WriterStep)
  /\ \A u \in Callers : WF_vars(SendWatchMessage(u))

Spec == Init /\ [][Next]_vars /\ Fairness

----------------------------------------------------------------------------
\* The connection is good, everything queued is written, and no call is under
\* way.
Settled ==
  /\ manager = "join" /\ link = "up"
  /\ channel = <<>> /\ out = NoMsg
  /\ \A u \in Callers : call[u] = NoMsg

\* The server watches what the program's list says, no more and no less, as
\* soon as things have settled (watcher.rs:198, 287, 306), whichever messages
\* a broken connection swallowed, were left in the channel or overtook the
\* replay.  Only a path that one caller adds while another removes it may be
\* left the other way: the list is changed under its lock, the message is not.
ServerMatchesList == Settled => (reg \ raced) = (watches \ raced)


\* The reader and callers that are blocked on the full channel keep all the
\* workers, and the writer that would drain it has none to start on.
Starved == writer = "spawned" /\ ~FreeWorker /\ Len(channel) = SendCap

\* add and remove return while there is a connection, however full the
\* channel is (utils.rs:294, watcher.rs:248): the writer keeps draining it,
\* unless enough calls were blocked before it started to keep it from starting.
CallsReturn ==
  \A u \in Callers : (call[u] # NoMsg) ~> (call[u] = NoMsg \/ manager # "join" \/ Starved)

\* After a reconnect the watches are sent again and the connection serves
\* (rust-jfs/docs/jfswatcher-flow.md:306, watcher.rs:130).
ReplayCompletes == (manager = "resend") ~> (manager = "join")
=============================================================================
