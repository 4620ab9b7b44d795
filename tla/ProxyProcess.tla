---------------------------- MODULE ProxyProcess ----------------------------
(***************************************************************************)
(* The process of fsnotify-proxy around the connection server: main, the   *)
(* signal handler (pkg/signals), the redis client and its subscription     *)
(* (pkg/producer/redis.go, multicast/subscriber.go) and the accept loop    *)
(* (server.Listen).                                                        *)
(*                                                                         *)
(* Goroutines: main (New, then Listen until it returns), the handler of    *)
(* signals, the one that closes the listener when the context is done, the *)
(* one that closes redis when stopCh is closed, and the subscription's.    *)
(***************************************************************************)
EXTENDS Naturals

CONSTANTS MinBackoff, MaxBackoff,   \* minAcceptBackoff, maxAcceptBackoff
          MaxSignals, MaxErrors, MaxPeers, MaxMessages   \* bounds on the environment

ASSUME BackoffAssumption ==
  /\ MinBackoff \in Nat \ {0} /\ MaxBackoff \in Nat /\ MinBackoff <= MaxBackoff
ASSUME BoundAssumption ==
  {MaxSignals, MaxErrors, MaxPeers, MaxMessages} \subseteq Nat

VARIABLES
  proc,       \* "up", or how the process ended: "panic", "fatal", "exit"
  main,       \* "new", "start", "accept", "backoff" or "returned"
  backoff,    \* Listen's backoff
  listener,   \* "none", "open" or "closed"
  handler,    \* "first": either case of the select; "second": waits for another signal
  signals,    \* what is in the handler's channel of two
  stopped,    \* stopCh is closed
  cancelled,  \* apiCtx is done
  redis,      \* "none", "open", "cancelled" or "closed"
  sub,        \* the subscription's goroutine: "none", "loop" or "done"
  ch,         \* messages in the subscription's channel
  backlog,    \* peers that wait to be accepted
  fails,      \* history: failed accepts since the last success
  caught,     \* history: signals that reached the channel
  sent, errors, peers, messages   \* what the environment has done

mainVars == <<main, backoff, listener, fails>>
signalVars == <<handler, signals, stopped>>
redisVars == <<redis, sub, ch>>
envVars == <<sent, errors, peers, messages>>
vars == <<proc, mainVars, signalVars, cancelled, redisVars, backlog, caught, envVars>>

Init ==
  /\ proc = "up" /\ main = "new" /\ backoff = MinBackoff /\ listener = "none" /\ fails = 0
  /\ handler = "first" /\ signals = 0 /\ stopped = FALSE /\ cancelled = FALSE
  /\ redis = "none" /\ sub = "none" /\ ch = 0
  /\ backlog = 0 /\ caught = 0
  /\ sent = 0 /\ errors = 0 /\ peers = 0 /\ messages = 0

TypeOK ==
  /\ proc \in {"up", "panic", "fatal", "exit"}
  /\ main \in {"new", "start", "accept", "backoff", "returned"}
  /\ backoff \in MinBackoff..MaxBackoff
  /\ listener \in {"none", "open", "closed"} /\ (main \in {"accept", "backoff"} => listener # "none")
  /\ handler \in {"first", "second"} /\ (handler = "second" => stopped)
  /\ signals \in 0..2 /\ stopped \in BOOLEAN /\ cancelled \in BOOLEAN
  /\ redis \in {"none", "open", "cancelled", "closed"}
  /\ sub \in {"none", "loop", "done"} /\ (sub # "none" <=> redis # "none")
  /\ ch \in 0..MaxMessages /\ backlog \in 0..MaxPeers
  /\ caught \in 0..MaxSignals /\ fails \in 0..MaxErrors

----------------------------------------------------------------------------
\* The environment.

\* A SIGTERM or SIGINT; one that finds the channel full is dropped.
Signal ==
  /\ proc = "up" /\ sent < MaxSignals
  /\ sent' = sent + 1
  /\ signals' = IF signals < 2 THEN signals + 1 ELSE signals
  /\ caught' = IF signals < 2 THEN caught + 1 ELSE caught
  /\ UNCHANGED <<proc, mainVars, handler, stopped, cancelled, redisVars, backlog, errors, peers, messages>>

\* The context is cancelled.  main keeps the cancel function to itself and
\* never calls it; a server made by NewWithoutSubscriber has a caller that does.
Cancel ==
  /\ proc = "up" /\ ~cancelled
  /\ cancelled' = TRUE
  /\ UNCHANGED <<proc, mainVars, signalVars, redisVars, backlog, caught, envVars>>

\* A peer connects.
Dial ==
  /\ proc = "up" /\ listener = "open" /\ peers < MaxPeers
  /\ peers' = peers + 1 /\ backlog' = backlog + 1
  /\ UNCHANGED <<proc, mainVars, signalVars, cancelled, redisVars, caught, sent, errors, messages>>

\* redis forwards a message.
Message ==
  /\ proc = "up" /\ redis = "open" /\ messages < MaxMessages
  /\ messages' = messages + 1 /\ ch' = ch + 1
  /\ UNCHANGED <<proc, mainVars, signalVars, cancelled, redis, sub, backlog, caught, sent, errors, peers>>

----------------------------------------------------------------------------
\* SetupSignalHandler.

\* The first signal closes stop; the handler then waits for another one.
FirstSignal ==
  /\ proc = "up" /\ handler = "first" /\ signals > 0
  /\ signals' = signals - 1
  /\ stopped' = TRUE /\ handler' = "second"
  /\ UNCHANGED <<proc, mainVars, cancelled, redisVars, backlog, caught, envVars>>

\* The second signal ends the process.
SecondSignal ==
  /\ proc = "up" /\ handler = "second" /\ signals > 0
  /\ signals' = signals - 1
  /\ proc' = "exit"
  /\ UNCHANGED <<mainVars, handler, stopped, cancelled, redisVars, backlog, caught, envVars>>

\* The context is done: stop is closed, and the process exits.
ContextDone ==
  /\ proc = "up" /\ handler = "first" /\ cancelled
  /\ stopped' = TRUE /\ proc' = "exit"
  /\ UNCHANGED <<mainVars, handler, signals, cancelled, redisVars, backlog, caught, envVars>>

----------------------------------------------------------------------------
\* New: the redis client and the subscription.

\* NewRedisClient pings redis and, if that works, Sub starts the subscription.
NewSubscriber ==
  /\ proc = "up" /\ main = "new"
  /\ redis' = (IF cancelled THEN "cancelled" ELSE "open") /\ sub' = "loop" /\ main' = "start"
  /\ UNCHANGED <<proc, backoff, listener, fails, signalVars, cancelled, ch, backlog, caught, envVars>>

\* The ping fails, which makes New panic.
PingFails ==
  /\ proc = "up" /\ main = "new"
  /\ proc' = "panic"
  /\ UNCHANGED <<mainVars, signalVars, cancelled, redisVars, backlog, caught, envVars>>

\* redisCtx is a child of apiCtx.
CancelRedis ==
  /\ proc = "up" /\ cancelled /\ redis = "open"
  /\ redis' = "cancelled"
  /\ UNCHANGED <<proc, mainVars, signalVars, cancelled, sub, ch, backlog, caught, envVars>>

\* The goroutine that waits for stopCh cancels redisCtx and closes the client.
CloseRedis ==
  /\ proc = "up" /\ stopped /\ redis \in {"open", "cancelled"}
  /\ redis' = "closed"
  /\ UNCHANGED <<proc, mainVars, signalVars, cancelled, sub, ch, backlog, caught, envVars>>

\* Sub: a message is handed to Deliver, even if the context is done as well.
SubMessage ==
  /\ proc = "up" /\ sub = "loop" /\ ch > 0
  /\ ch' = ch - 1
  /\ UNCHANGED <<proc, mainVars, signalVars, cancelled, redis, sub, backlog, caught, envVars>>

SubEnds ==
  /\ proc = "up" /\ sub = "loop" /\ redis \in {"cancelled", "closed"}
  /\ sub' = "done"
  /\ UNCHANGED <<proc, mainVars, signalVars, cancelled, redis, ch, backlog, caught, envVars>>

\* Fault: the context is looked at only when there is a message.
SubDoneOnMessage == ch > 0 /\ SubEnds

\* Sub: the context is done, or the channel was closed with the client.
SubDone == SubEnds

----------------------------------------------------------------------------
\* Listen.

\* net.Listen, and the goroutine that closes the listener is started.
Listen ==
  /\ proc = "up" /\ main = "start"
  /\ listener' = "open" /\ main' = "accept"
  /\ UNCHANGED <<proc, backoff, fails, signalVars, cancelled, redisVars, backlog, caught, envVars>>

\* The address cannot be listened on: log.Fatal.
ListenFails ==
  /\ proc = "up" /\ main = "start"
  /\ proc' = "fatal"
  /\ UNCHANGED <<mainVars, signalVars, cancelled, redisVars, backlog, caught, envVars>>

\* The context is done: the listener is closed, and peers that wait with it.
CloseListener ==
  /\ proc = "up" /\ cancelled /\ listener = "open"
  /\ listener' = "closed" /\ backlog' = 0
  /\ UNCHANGED <<proc, main, backoff, fails, signalVars, cancelled, redisVars, caught, envVars>>

AcceptThen(next) ==
  /\ proc = "up" /\ main = "accept" /\ listener = "open" /\ backlog > 0
  /\ backlog' = backlog - 1
  /\ backoff' = next /\ fails' = 0
  /\ UNCHANGED <<proc, main, listener, signalVars, cancelled, redisVars, caught, envVars>>

\* Fault: a success does not reset the backoff.
AcceptNoReset == AcceptThen(backoff)

\* A connection is accepted, and handled by a goroutine of its own.
Accept == AcceptThen(MinBackoff)

\* Listen returns, and with it main: the process ends.
Return ==
  /\ main' = "returned" /\ listener' = "closed" /\ backlog' = 0 /\ proc' = "exit"
  /\ UNCHANGED <<backoff, fails, signalVars, cancelled, redisVars, caught>>

\* Accept fails for a reason like EMFILE.  With the context done Listen
\* returns, else it waits.
AcceptError ==
  /\ proc = "up" /\ main = "accept" /\ listener = "open" /\ errors < MaxErrors
  /\ errors' = errors + 1
  /\ \/ cancelled /\ Return
     \/ /\ ~cancelled
        /\ main' = "backoff" /\ fails' = fails + 1
        /\ UNCHANGED <<proc, backoff, listener, signalVars, cancelled, redisVars, backlog, caught>>
  /\ UNCHANGED <<sent, peers, messages>>

\* Accept fails because the listener is closed.
AcceptClosed ==
  /\ proc = "up" /\ main = "accept" /\ listener = "closed"
  /\ Return /\ UNCHANGED envVars

RetryWith(next) ==
  /\ proc = "up" /\ main = "backoff"
  /\ main' = "accept" /\ backoff' = next
  /\ UNCHANGED <<proc, listener, fails, signalVars, cancelled, redisVars, backlog, caught, envVars>>

Doubled == IF 2 * backoff > MaxBackoff THEN MaxBackoff ELSE 2 * backoff

\* Fault: there is no maximum.
RetryUncapped == RetryWith(2 * backoff)

\* Fault: Listen waits for good once the backoff is at its maximum.
RetryGivesUp == backoff < MaxBackoff /\ RetryWith(Doubled)

\* time.After(backoff): the backoff is doubled, up to its maximum.
Retry == RetryWith(Doubled)

\* ctx.Done() while Listen waits.
BackoffCancelled ==
  /\ proc = "up" /\ main = "backoff" /\ cancelled
  /\ Return /\ UNCHANGED envVars

----------------------------------------------------------------------------
HandlerStep == FirstSignal \/ SecondSignal \/ ContextDone
SubStep == SubMessage \/ SubDone
ListenStep == Listen \/ Accept \/ AcceptClosed \/ Retry \/ BackoffCancelled

Next ==
  \/ Signal \/ Cancel \/ Dial \/ Message
  \/ HandlerStep
  \/ NewSubscriber \/ PingFails \/ CancelRedis \/ CloseRedis \/ SubStep
  \/ ListenStep \/ ListenFails \/ CloseListener \/ AcceptError

\* Every goroutine goes on when it can.  Whether a ping or net.Listen works,
\* signals, cancellation and errors of accept are up to the environment.
Fairness ==
  /\ WF_vars(HandlerStep) /\ WF_vars(NewSubscriber \/ PingFails)
  /\ WF_vars(CancelRedis) /\ WF_vars(CloseRedis) /\ WF_vars(SubStep)
  /\ WF_vars(ListenStep) /\ WF_vars(CloseListener)

Spec == Init /\ [][Next]_vars /\ Fairness

----------------------------------------------------------------------------
Up == proc = "up"

\* 2^n, as a recursive function.
TwoTo[n \in Nat] == IF n = 0 THEN 1 ELSE 2 * TwoTo[n - 1]

\* The time Listen waits after a failed accept (tcpserver.go:205-227) is set by
\* the number of failures in a row: it doubles from the minimum, never passes
\* the maximum, and starts over after a success.
BackoffFitsFailures ==
  LET rounds == IF main = "backoff" THEN fails - 1 ELSE fails
      wanted == MinBackoff * TwoTo[rounds]
  IN Up => backoff = IF wanted > MaxBackoff THEN MaxBackoff ELSE wanted

\* A peer in the backlog is accepted once errors cease, however long they
\* lasted, unless the process ends (tcpserver.go:213-224).
PeerAccepted == backlog > 0 ~> (backlog = 0 \/ ~Up)

\* Told to end, everything ends that the code means to (signal.go:20-32,
\* redis.go:68-76, 95, tcpserver.go:199-219).  Cancelling the context ends the
\* process whether Listen accepts, waits after an error or has not begun, and
\* although the handler may be past looking at the context; so do two signals,
\* even if both come before the handler runs.  One signal ends the
\* subscription, even if it comes before redis was reached.
ShutdownCompletes ==
  /\ ((cancelled \/ caught >= 2) /\ Up) ~> ~Up
  /\ stopped ~> (sub = "done" \/ ~Up)
=============================================================================
