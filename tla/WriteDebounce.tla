--------------------------- MODULE WriteDebounce ---------------------------
(***************************************************************************)
(* One connection's helper in fsnotify-proxy:                              *)
(* k8s/cmd/fsnotify-proxy/app/helper.go (watcher.WriteMsg,                 *)
(* armWriteDebounce, flushWriteDebounce, Close).                           *)
(*                                                                         *)
(* Thread 0 is the fan-out goroutine, which calls WriteMsg.  Thread t > 0  *)
(* is the callback of the timer created by the t-th arm: it fires, waits   *)
(* for w.mu, takes the entry or finds itself stale, and sends outside the  *)
(* lock.  The connection itself is what module Multicast says of it: a     *)
(* SendBytes succeeds, finds the client closed, or finds the queue full    *)
(* and runs shutdown, which calls Close; others may shut it down too.      *)
(*                                                                         *)
(* The t-th arm stores the t-th WRITE snapshot, so snapshots are numbered  *)
(* like timers.  A name stands for an event's Name and Key; the mapping    *)
(* podPathMap, which the reader changes, is the set of names it maps.      *)
(***************************************************************************)
EXTENDS Naturals, Sequences, FiniteSets

CONSTANTS Names,     \* the event names
          MaxArms,   \* bound on the WRITE events handled
          MaxMsgs    \* bound on the messages handled

ASSUME MaxArmsAssumption == MaxArms \in Nat
ASSUME MaxMsgsAssumption == MaxMsgs \in Nat

VARIABLES
  mu,        \* w.mu: "free" or held by "close" or a "timer"
  closed,    \* w.closed
  delayed,   \* w.delayedWrites; NoEntry where there is none
  mapped,    \* the names podPathMap maps
  client,    \* the connection: "up", "closing" (shutdown runs) or "down"
  pc,        \* control state of every thread
  batch,     \* the events of the message WriteMsg has still to handle
  name,      \* the name a thread works on
  gen,       \* the generation a timer's closure captured
  event,     \* the snapshot a thread sends; 0 for a non-WRITE event
  arms,      \* arms so far
  msgs,      \* messages so far
  latest,    \* history: the last snapshot armed for each name
  settled    \* history: snapshots whose sendEvent has returned

muVars == <<mu, closed, delayed, client>>
threadVars == <<pc, batch, name, gen, event>>
countVars == <<arms, msgs, latest, settled>>
vars == <<muVars, mapped, threadVars, countVars>>

Timers == 1..MaxArms
Threads == 0..MaxArms
NoEntry == [timer |-> 0, event |-> 0, gen |-> 0]   \* the zero delayedWrite
Entries == [timer : Threads, event : Threads, gen : Threads]
Events == [op : {"WRITE", "OTHER"}, name : Names]
\* A daemon's batch, up to two events.
Batches == {<<e>> : e \in Events} \cup {<<e, f>> : e, f \in Events}

PCs == {"idle", "loop", "armed", "stopped", "fired", "locked", "translate",
        "send", "shutdown", "done"}

TypeOK ==
  /\ mu \in {"free", "close", "timer"}
  /\ closed \in BOOLEAN
  /\ delayed \in [Names -> Entries]
  /\ mapped \in SUBSET Names
  /\ client \in {"up", "closing", "down"}
  /\ pc \in [Threads -> PCs]
  /\ batch \in Seq(Events)
  /\ name \in [Threads -> Names]
  /\ gen \in [Threads -> Threads]
  /\ event \in [Threads -> Threads]
  /\ arms \in Threads
  /\ msgs \in 0..MaxMsgs
  /\ latest \in [Names -> Threads]
  /\ settled \in SUBSET Timers

Init ==
  /\ mu = "free" /\ closed = FALSE /\ client = "up" /\ mapped = {}
  /\ delayed = [n \in Names |-> NoEntry]
  /\ pc = [t \in Threads |-> "idle"] /\ batch = <<>>
  /\ \E n \in Names : name = [t \in Threads |-> n]
  /\ gen = [t \in Threads |-> 0] /\ event = [t \in Threads |-> 0]
  /\ arms = 0 /\ msgs = 0
  /\ latest = [n \in Names |-> 0] /\ settled = {}

----------------------------------------------------------------------------
\* WriteMsg, on the fan-out goroutine.

\* The closed check and parseMsg: on a closed helper, or with a payload that
\* does not parse, WriteMsg returns and nothing happens.
WriteMsg(b) ==
  /\ pc[0] = "idle"
  /\ msgs < MaxMsgs
  /\ mu = "free" /\ ~closed
  /\ msgs' = msgs + 1
  /\ batch' = b
  /\ pc' = [pc EXCEPT ![0] = "loop"]
  /\ UNCHANGED <<muVars, mapped, name, gen, event, arms, latest, settled>>

WriteMsgEnd ==
  /\ pc[0] = "loop" /\ batch = <<>>
  /\ pc' = [pc EXCEPT ![0] = "idle"]
  /\ UNCHANGED <<muVars, mapped, batch, name, gen, event, countVars>>

\* timer.Stop prevents a timer from firing, not a callback from running.
Stop(t) == IF t # 0 /\ pc[t] = "armed" THEN [pc EXCEPT ![t] = "stopped"] ELSE pc

\* Snapshot e is stored and timer t started, with the generation bumped in the
\* entry by d, in what the closure captures by g.
ArmWith(n, t, e, d, g) ==
  /\ pc' = [Stop(delayed[n].timer) EXCEPT ![t] = "armed"]
  /\ delayed' = [delayed EXCEPT ![n] = [timer |-> t, event |-> e, gen |-> @.gen + d]]
  /\ name' = [name EXCEPT ![t] = n]
  /\ gen' = [gen EXCEPT ![t] = delayed[n].gen + g]

\* Fault: the closure captures the generation before it is bumped.
ArmStaleGen(n, t) == ArmWith(n, t, t, 1, 0)

\* Fault: an entry that exists keeps the snapshot it has.
ArmKeepsEvent(n, t) == ArmWith(n, t, IF delayed[n] = NoEntry THEN t ELSE delayed[n].event, 1, 1)

\* Fault: every arm bumps the generation twice.
ArmBumpsTwice(n, t) == ArmWith(n, t, t, 2, 2)

\* Stop the entry's timer, if it has one, store the snapshot and start timer t.
Arm(n, t) == ArmWith(n, t, t, 1, 1)

ArmNext ==
  LET n == Head(batch).name IN
  /\ pc[0] = "loop" /\ batch # <<>> /\ Head(batch).op = "WRITE"
  /\ mu = "free" /\ arms < MaxArms
  /\ arms' = arms + 1
  /\ Arm(n, arms + 1)
  /\ latest' = [latest EXCEPT ![n] = arms + 1]
  /\ batch' = Tail(batch)
  /\ UNCHANGED <<mu, closed, client, mapped, event, msgs, settled>>

\* Fault: armWriteDebounce does not look at w.closed.
ArmWriteDebounceUnguarded == ArmNext

ArmWriteDebounce == ~closed /\ ArmNext

\* Closed meanwhile (or the bound is reached): the WRITE is dropped.
ArmClosed ==
  /\ pc[0] = "loop" /\ batch # <<>> /\ Head(batch).op = "WRITE"
  /\ mu = "free"
  /\ closed \/ arms = MaxArms
  /\ batch' = Tail(batch)
  /\ UNCHANGED <<muVars, mapped, pc, name, gen, event, countVars>>

\* Any other event is sent at once.
SendNow ==
  /\ pc[0] = "loop" /\ batch # <<>> /\ Head(batch).op # "WRITE"
  /\ name' = [name EXCEPT ![0] = Head(batch).name]
  /\ batch' = Tail(batch)
  /\ pc' = [pc EXCEPT ![0] = "translate"]
  /\ UNCHANGED <<muVars, mapped, gen, event, countVars>>

----------------------------------------------------------------------------
\* flushWriteDebounce, on the goroutine of timer t.

Due(t, to) ==
  /\ pc[t] = "armed" /\ pc' = [pc EXCEPT ![t] = to]
  /\ UNCHANGED <<muVars, mapped, batch, name, gen, event, countVars>>

\* Fault: the timer that is armed never fires.
FireNever(t) == Due(t, "armed")

Fire(t) == Due(t, "fired")

FlushLock(t) ==
  /\ pc[t] = "fired" /\ mu = "free"
  /\ mu' = "timer"
  /\ pc' = [pc EXCEPT ![t] = "locked"]
  /\ UNCHANGED <<closed, delayed, client, mapped, batch, name, gen, event, countVars>>

Current(t) == delayed[name[t]] # NoEntry /\ delayed[name[t]].gen = gen[t] /\ ~closed

FlushStale(t) ==
  /\ pc[t] = "locked"
  /\ ~Current(t)
  /\ mu' = "free"
  /\ pc' = [pc EXCEPT ![t] = "done"]
  /\ UNCHANGED <<closed, delayed, client, mapped, batch, name, gen, event, countVars>>

TakeThen(t, lock, to) ==
  /\ pc[t] = "locked" /\ Current(t)
  /\ event' = [event EXCEPT ![t] = delayed[name[t]].event]
  /\ delayed' = [delayed EXCEPT ![name[t]] = NoEntry]
  /\ mu' = lock /\ pc' = [pc EXCEPT ![t] = to]
  /\ UNCHANGED <<closed, client, mapped, batch, name, gen, countVars>>

\* Fault: w.mu is kept while the event is sent.
FlushTakeLocked(t) == TakeThen(t, "timer", "send")

\* The snapshot is taken out, and w.mu given back before it is sent.
FlushTake(t) == TakeThen(t, "free", "translate")

----------------------------------------------------------------------------
\* sendEvent, on either: translateEventNameInCluster, then SendBytes.

\* sendEvent returns.  A timer's callback ends; WriteMsg goes on with the
\* batch, or gives the rest of it up if the send failed.
Return(t, failed) ==
  /\ pc' = [pc EXCEPT ![t] = IF t = 0 THEN "loop" ELSE "done"]
  /\ batch' = IF t = 0 /\ failed THEN <<>> ELSE batch
  /\ settled' = IF t = 0 THEN settled ELSE settled \cup {event[t]}
  /\ UNCHANGED <<mapped, name, gen, event, arms, msgs, latest>>

Unmapped(t) ==
  /\ pc[t] = "translate" /\ mu = "free" /\ name[t] \notin mapped
  /\ Return(t, FALSE)
  /\ UNCHANGED muVars

Translate(t) ==
  /\ pc[t] = "translate" /\ mu = "free" /\ name[t] \in mapped
  /\ pc' = [pc EXCEPT ![t] = "send"]
  /\ UNCHANGED <<muVars, mapped, batch, name, gen, event, countVars>>

\* The frame is queued.  (SendBytes may still queue it while the client is
\* being closed.)
SendOk(t) ==
  /\ pc[t] = "send" /\ Return(t, FALSE)
  /\ UNCHANGED muVars

SendClosed(t) ==
  /\ pc[t] = "send"
  /\ client # "up" /\ Return(t, TRUE)
  /\ UNCHANGED muVars

\* The queue is full: SendBytes runs shutdown, or waits for who runs it.
SendSlow(t) ==
  /\ pc[t] = "send"
  /\ client' = IF client = "up" THEN "closing" ELSE client
  /\ pc' = [pc EXCEPT ![t] = "shutdown"]
  /\ UNCHANGED <<mu, closed, delayed, mapped, batch, name, gen, event, countVars>>

SendDropped(t) ==
  /\ pc[t] = "shutdown"
  /\ client = "down" /\ Return(t, TRUE)
  /\ UNCHANGED muVars

----------------------------------------------------------------------------
\* Close, called once by the client's shutdown.

\* The reader or the writer shuts the client down.
ClientFails ==
  /\ client = "up"
  /\ client' = "closing"
  /\ UNCHANGED <<mu, closed, delayed, mapped, threadVars, countVars>>

CloseLock ==
  /\ client = "closing"
  /\ mu = "free"
  /\ mu' = "close"
  /\ UNCHANGED <<closed, delayed, client, mapped, threadVars, countVars>>

\* Set closed, stop and forget every timer, unlock; Remove returns at once.
Close ==
  /\ mu = "close"
  /\ closed' = TRUE
  /\ pc' = [t \in Threads |->
              IF pc[t] = "armed" /\ \E n \in Names : delayed[n].timer = t
              THEN "stopped" ELSE pc[t]]
  /\ delayed' = [n \in Names |-> NoEntry]
  /\ mu' = "free"
  /\ client' = "down"
  /\ UNCHANGED <<mapped, batch, name, gen, event, countVars>>

\* The reader maps or unmaps a name (app.go, WATCH and UNWATCH).
Remap(n) ==
  /\ mu = "free"
  /\ client # "down"
  /\ mapped' = IF n \in mapped THEN mapped \ {n} ELSE mapped \cup {n}
  /\ UNCHANGED <<muVars, threadVars, countVars>>

SendEvent(t) ==
  Unmapped(t) \/ Translate(t) \/ SendOk(t) \/ SendClosed(t) \/ SendSlow(t)
    \/ SendDropped(t)
FanStep == WriteMsgEnd \/ ArmWriteDebounce \/ ArmClosed \/ SendNow \/ SendEvent(0)
TimerStep(t) == Fire(t) \/ FlushLock(t) \/ FlushStale(t) \/ FlushTake(t) \/ SendEvent(t)
CloseStep == CloseLock \/ Close

Next ==
  \/ \E b \in Batches : WriteMsg(b)
  \/ FanStep
  \/ \E t \in Timers : TimerStep(t)
  \/ ClientFails
  \/ CloseStep
  \/ \E n \in Names : Remap(n)

\* Goroutines run, timers fire, and whoever waits for w.mu gets it in the end
\* although others take it in between (sync.Mutex hands it over to a waiter
\* that has starved): strong fairness for the steps that lock.
Fairness ==
  /\ SF_vars(FanStep)
  /\ \A t \in Timers : SF_vars(TimerStep(t))
  /\ SF_vars(CloseStep)

Spec == Init /\ [][Next]_vars /\ Fairness

----------------------------------------------------------------------------
\* Every parked WRITE has a timer that will still flush it: its callback has
\* not been overtaken and carries the generation of the entry, however arms,
\* stops and late callbacks interleave.
PendingHasTimer ==
  \A n \in Names : delayed[n] # NoEntry =>
    LET t == delayed[n].timer IN
    t # 0 /\ pc[t] \in {"armed", "fired", "locked"} /\ name[t] = n /\ gen[t] = delayed[n].gen

\* The last WRITE seen for a name is never lost: it is parked, or on its way,
\* or sendEvent has dealt with it, unless the connection has been closed.
LatestNotLost ==
  \A n \in Names : latest[n] # 0 =>
    \/ closed
    \/ delayed[n].event = latest[n]
    \/ \E t \in Timers : pc[t] \in {"translate", "send", "shutdown"} /\ event[t] = latest[n]
    \/ latest[n] \in settled

\* Close is final: whatever was running when it took w.mu, afterwards no WRITE
\* is parked any more and no callback takes one to send it.
ClosedIsFinal ==
  [][closed => closed' /\ event' = event /\ \A n \in Names : delayed'[n] = NoEntry]_vars

\* A parked WRITE is flushed after its quiet period, or dropped by Close.
EventuallyFlushed == \A n \in Names : (delayed[n] # NoEntry) ~> (delayed[n] = NoEntry)

\* A failed send unwinds into Close, which takes w.mu (helper.go:161): closing
\* always completes, from whatever thread it started.
CloseCompletes == (client = "closing") ~> (client = "down")
=============================================================================
