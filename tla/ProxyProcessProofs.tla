------------------------- MODULE ProxyProcessProofs -------------------------
(***************************************************************************)
(* Proofs about module ProxyProcess, for any minimum and maximum of the    *)
(* backoff and any number of signals, errors, peers and messages: its type *)
(* invariant and BackoffFitsFailures.                                      *)
(***************************************************************************)
EXTENDS ProxyProcess, WellFoundedInduction, TLAPS

----------------------------------------------------------------------------
\* What the environment has done bounds what the process has seen of it, and
\* Listen waits only after a failure.
Counted ==
  /\ sent \in 0..MaxSignals /\ caught <= sent
  /\ errors \in 0..MaxErrors /\ fails <= errors
  /\ peers \in 0..MaxPeers /\ backlog <= peers
  /\ messages \in 0..MaxMessages /\ ch <= messages
  /\ main = "backoff" => fails > 0

ProcessInv == TypeOK /\ Counted

\* The process invariant holds at the start.
LEMMA ProcessInit == Init => ProcessInv
<1> SUFFICES ASSUME Init
             PROVE  ProcessInv
  OBVIOUS
<1>1. /\ backoff \in MinBackoff..MaxBackoff /\ signals \in 0..2
      /\ ch \in 0..MaxMessages /\ backlog \in 0..MaxPeers
      /\ caught \in 0..MaxSignals /\ fails \in 0..MaxErrors
  BY BackoffAssumption, BoundAssumption DEF Init
<1>2. TypeOK
  BY <1>1 DEF Init, TypeOK
<1>3. Counted
  BY <1>1 DEF Init, Counted
<1> QED
  BY <1>2, <1>3 DEF ProcessInv

\* Every goroutine and the environment keep the types and the counts.
LEMMA ProcessStep == ProcessInv /\ [Next]_vars => ProcessInv'
<1> SUFFICES ASSUME ProcessInv, [Next]_vars
             PROVE  ProcessInv'
  OBVIOUS
<1> USE BackoffAssumption, BoundAssumption
    DEF ProcessInv, TypeOK, Counted, mainVars, signalVars, redisVars, envVars
<1>1. CASE Signal
  BY <1>1 DEF Signal
<1>2. CASE Cancel
  BY <1>2 DEF Cancel
<1>3. CASE Dial
  BY <1>3 DEF Dial
<1>4. CASE Message
  BY <1>4 DEF Message
<1>5. CASE HandlerStep
  <2>1. CASE FirstSignal
    BY <2>1 DEF FirstSignal
  <2>2. CASE SecondSignal
    BY <2>2 DEF SecondSignal
  <2>3. CASE ContextDone
    BY <2>3 DEF ContextDone
  <2> QED
    BY <1>5, <2>1, <2>2, <2>3 DEF HandlerStep
<1>6. CASE NewSubscriber \/ PingFails \/ CancelRedis \/ CloseRedis
  BY <1>6 DEF NewSubscriber, PingFails, CancelRedis, CloseRedis
<1>7. CASE SubStep
  BY <1>7 DEF SubStep, SubMessage, SubDone, SubEnds
<1>8. CASE Listen \/ ListenFails \/ CloseListener
  BY <1>8 DEF Listen, ListenFails, CloseListener
<1>9. CASE Accept
  BY <1>9 DEF Accept, AcceptThen
<1>10. CASE AcceptClosed \/ BackoffCancelled
  BY <1>10 DEF AcceptClosed, BackoffCancelled, Return
<1>11. CASE Retry
  <2>1. Doubled \in MinBackoff..MaxBackoff
    BY DEF Doubled
  <2> QED
    BY <1>11, <2>1 DEF Retry, RetryWith
<1>12. CASE AcceptError
  BY <1>12 DEF AcceptError, Return
<1>13. CASE UNCHANGED vars
  BY <1>13 DEF vars
<1> QED
  BY <1>1, <1>2, <1>3, <1>4, <1>5, <1>6, <1>7, <1>8, <1>9, <1>10, <1>11, <1>12, <1>13
     DEF Next, ListenStep

\* The types hold at every moment; the backoff stays between its minimum and
\* its maximum (tcpserver.go:205-227).
THEOREM Typing == Spec => []TypeOK
BY ProcessInit, ProcessStep, PTL DEF Spec, ProcessInv

----------------------------------------------------------------------------
\* Induction over the naturals, with a set for the induction hypothesis.
LEMMA SetInduction ==
  ASSUME NEW S, 0 \in S, \A n \in Nat : n \in S => n + 1 \in S
  PROVE  Nat \subseteq S
<1> DEFINE T == Nat \ S
           Less == OpToRel(<, Nat)
<1> SUFFICES ASSUME T # {}
             PROVE  FALSE
  OBVIOUS
<1>1. IsWellFoundedOn(Less, Nat)
  BY NatLessThanWellFounded
<1> HIDE DEF Less
<1>2. PICK x \in T : \A y \in T : ~(<<y, x>> \in Less)
  BY <1>1, WFMin
<1>3. x - 1 \in Nat /\ x - 1 < x /\ (x - 1) + 1 = x
  BY <1>2
<1>4. <<x - 1, x>> \in Less
  BY <1>3 DEF Less, OpToRel
<1> QED
  BY <1>2, <1>3, <1>4

\* g lists the first n powers of two.
Doubling(n, g) == g \in [0..n -> Nat] /\ g[0] = 1 /\ \A i \in 1..n : g[i] = 2 * g[i - 1]

\* There is such a list for every n ...
LEMMA DoublingExists == \A n \in Nat : \E g : Doubling(n, g)
<1> DEFINE S == {n \in Nat : \E g : Doubling(n, g)}
<1>1. 0 \in S
  <2>1. Doubling(0, [i \in 0..0 |-> 1])
    BY DEF Doubling
  <2> QED
    BY <2>1
<1>2. ASSUME NEW n \in Nat, n \in S
      PROVE  n + 1 \in S
  <2>1. PICK g : Doubling(n, g)
    BY <1>2
  <2> DEFINE h == [i \in 0..(n + 1) |-> IF i = n + 1 THEN 2 * g[n] ELSE g[i]]
  <2>2. Doubling(n + 1, h)
    BY <2>1 DEF Doubling
  <2> QED
    BY <2>2
<1> HIDE DEF S
<1>3. Nat \subseteq S
  BY <1>1, <1>2, SetInduction
<1> QED
  BY <1>3 DEF S

\* ... and any two agree on what both have.
LEMMA DoublingUnique ==
  ASSUME NEW n \in Nat, NEW m \in Nat, NEW g, NEW h, Doubling(n, g), Doubling(m, h),
         NEW k \in Nat, k <= n, k <= m
  PROVE  g[k] = h[k]
<1> DEFINE S == {i \in Nat : i <= n /\ i <= m => g[i] = h[i]}
<1>1. 0 \in S
  BY DEF Doubling
<1>2. ASSUME NEW i \in Nat, i \in S
      PROVE  i + 1 \in S
  BY <1>2 DEF Doubling
<1> HIDE DEF S
<1>3. Nat \subseteq S
  BY <1>1, <1>2, SetInduction
<1> QED
  BY <1>3 DEF S

\* The recursive definition of TwoTo does define a function.
LEMMA TwoToFacts ==
  /\ TwoTo[0] = 1
  /\ \A n \in Nat : TwoTo[n] \in Nat /\ TwoTo[n + 1] = 2 * TwoTo[n]
<1> DEFINE G(n) == CHOOSE g : Doubling(n, g)
           F == [n \in Nat |-> G(n)[n]]
           Def(f) == [n \in Nat |-> IF n = 0 THEN 1 ELSE 2 * f[n - 1]]
<1>1. \A n \in Nat : Doubling(n, G(n))
  BY DoublingExists
<1> HIDE DEF G
<1>2. F[0] = 1
  BY <1>1 DEF Doubling
<1>3. ASSUME NEW n \in Nat, n # 0
      PROVE  F[n] = 2 * F[n - 1]
  <2>1. G(n)[n - 1] = G(n - 1)[n - 1]
    BY <1>1, <1>3, DoublingUnique
  <2>2. G(n)[n] = 2 * G(n)[n - 1]
    BY <1>1, <1>3 DEF Doubling
  <2>3. F[n] = G(n)[n] /\ F[n - 1] = G(n - 1)[n - 1]
    BY <1>3
  <2> QED
    BY <2>1, <2>2, <2>3
<1>4. F = Def(F)
  BY <1>2, <1>3
<1> HIDE DEF F
<1>5. TwoTo = Def(TwoTo)
  BY <1>4 DEF TwoTo
<1>6. TwoTo[0] = 1
  BY <1>5
<1>7. ASSUME NEW n \in Nat
      PROVE  TwoTo[n + 1] = 2 * TwoTo[n]
  <2>1. n + 1 \in Nat /\ n + 1 # 0 /\ (n + 1) - 1 = n
    OBVIOUS
  <2>2. TwoTo[n + 1] = IF n + 1 = 0 THEN 1 ELSE 2 * TwoTo[(n + 1) - 1]
    BY <1>5, <2>1
  <2> QED
    BY <2>1, <2>2
<1> DEFINE S == {n \in Nat : TwoTo[n] \in Nat}
<1>8. 0 \in S
  BY <1>6
<1>9. ASSUME NEW n \in Nat, n \in S
      PROVE  n + 1 \in S
  BY <1>7, <1>9
<1> HIDE DEF S
<1>10. Nat \subseteq S
  BY <1>8, <1>9, SetInduction
<1> QED
  BY <1>6, <1>7, <1>10 DEF S

----------------------------------------------------------------------------
\* The wait after w would have been waited, had there been no maximum.
Capped(w) == IF w > MaxBackoff THEN MaxBackoff ELSE w

\* How often the backoff has been doubled since the last success.
Rounds == IF main = "backoff" THEN fails - 1 ELSE fails

\* BackoffFitsFailures, in these words.
LEMMA BackoffAsCapped ==
  BackoffFitsFailures <=> (Up => backoff = Capped(MinBackoff * TwoTo[Rounds]))
BY DEF BackoffFitsFailures, Capped, Rounds

\* Doubling what was capped is capping what was doubled.
LEMMA CapDoubles ==
  ASSUME NEW n \in Nat, backoff = Capped(MinBackoff * TwoTo[n])
  PROVE  Doubled = Capped(MinBackoff * TwoTo[n + 1])
<1> DEFINE w == MinBackoff * TwoTo[n]
<1>1. w \in Nat
  BY BackoffAssumption, TwoToFacts
<1>2. MinBackoff * TwoTo[n + 1] = 2 * w
  <2>1. \A a, b \in Nat : a * (2 * b) = 2 * (a * b)
    OBVIOUS
  <2> QED
    BY <2>1, BackoffAssumption, TwoToFacts
<1> HIDE DEF w
<1>3. backoff = Capped(w)
  BY DEF w
<1> QED
  BY <1>1, <1>2, <1>3, BackoffAssumption DEF Capped, Doubled

\* Only a retry doubles the backoff, and only a success starts it over.
LEMMA BackoffStep ==
  ProcessInv /\ BackoffFitsFailures /\ [Next]_vars => BackoffFitsFailures'
<1> SUFFICES ASSUME ProcessInv, BackoffFitsFailures, [Next]_vars, proc' = "up"
             PROVE  backoff' = Capped(MinBackoff * TwoTo[Rounds'])
  BY DEF BackoffFitsFailures, Capped, Rounds, Up
<1>1. fails \in Nat /\ (main = "backoff" => fails - 1 \in Nat)
  BY BoundAssumption DEF ProcessInv, TypeOK, Counted
<1>2. proc = "up" => backoff = Capped(MinBackoff * TwoTo[Rounds])
  BY BackoffAsCapped DEF Up
<1>3. CASE Accept
  <2>1. backoff' = MinBackoff /\ Rounds' = 0
    BY <1>3 DEF Accept, AcceptThen, Rounds
  <2>2. MinBackoff * TwoTo[0] = MinBackoff
    BY TwoToFacts, BackoffAssumption
  <2> QED
    BY <2>1, <2>2, BackoffAssumption DEF Capped
<1>4. CASE Retry
  <2>1. backoff' = Doubled /\ Rounds \in Nat /\ Rounds' = Rounds + 1 /\ proc = "up"
    BY <1>1, <1>4 DEF Retry, RetryWith, Rounds
  <2> QED
    BY <1>2, <2>1, CapDoubles
<1>5. CASE AcceptError
  <2>1. proc = "up" /\ backoff' = backoff /\ Rounds' = Rounds
    BY <1>1, <1>5 DEF AcceptError, Return, Rounds
  <2> QED
    BY <1>2, <2>1
<1>6. ASSUME proc = "up", UNCHANGED <<backoff, fails>>,
             main' = main \/ (main # "backoff" /\ main' # "backoff")
      PROVE  backoff' = Capped(MinBackoff * TwoTo[Rounds'])
  BY <1>2, <1>6 DEF Rounds
<1> USE DEF mainVars, signalVars, redisVars, envVars
<1>7. CASE Signal \/ Cancel \/ Dial \/ Message \/ HandlerStep
  BY <1>6, <1>7 DEF Signal, Cancel, Dial, Message, HandlerStep, FirstSignal, SecondSignal, ContextDone
<1>8. CASE NewSubscriber \/ PingFails \/ CancelRedis \/ CloseRedis \/ SubStep
  BY <1>6, <1>8 DEF NewSubscriber, PingFails, CancelRedis, CloseRedis, SubStep, SubMessage, SubDone, SubEnds
<1>9. CASE Listen \/ ListenFails \/ CloseListener \/ AcceptClosed \/ BackoffCancelled
  BY <1>6, <1>9 DEF Listen, ListenFails, CloseListener, AcceptClosed, BackoffCancelled, Return
<1>10. CASE UNCHANGED vars
  BY <1>6, <1>10 DEF vars
<1> QED
  BY <1>3, <1>4, <1>5, <1>7, <1>8, <1>9, <1>10 DEF Next, ListenStep

\* After n failures in a row Listen waits min * 2^n, capped at max, and a
\* success starts it over (tcpserver.go:205-227): for any min <= max and any
\* number of failures.
THEOREM BackoffDoubles == Spec => []BackoffFitsFailures
<1>1. Init => BackoffFitsFailures
  <2> SUFFICES ASSUME Init
               PROVE  backoff = Capped(MinBackoff * TwoTo[Rounds])
    BY BackoffAsCapped
  <2>1. Rounds = 0 /\ backoff = MinBackoff
    BY DEF Init, Rounds
  <2>2. MinBackoff * TwoTo[0] = MinBackoff
    BY TwoToFacts, BackoffAssumption
  <2> QED
    BY <2>1, <2>2, BackoffAssumption DEF Capped
<1> QED
  BY <1>1, ProcessInit, ProcessStep, BackoffStep, PTL DEF Spec
=============================================================================
