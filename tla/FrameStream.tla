---------------------------- MODULE FrameStream ----------------------------
(***************************************************************************)
(* What the connection server promises of each connection, with no         *)
(* goroutines: frames it accepts are delivered to the peer in the order of *)
(* acceptance, each at most once and none overtaken or skipped, with at    *)
(* most Bound frames in between; cutting the connection ends delivery for  *)
(* good.  Multicast implements it (module MCMulticast, MulticastProofs).   *)
(***************************************************************************)
EXTENDS Naturals, Sequences

CONSTANTS Clients,  \* the connections
          Frames,   \* the frames that may be offered to them
          Bound     \* the most that are accepted and not yet delivered

VARIABLES offered,    \* the frames accepted for each client so far
          backlog,    \* the ones not delivered yet, in order of acceptance
          delivered,  \* the ones delivered
          cut         \* whether delivery has ended

streamVars == <<offered, backlog, delivered, cut>>

StreamInit ==
  /\ offered = [c \in Clients |-> {}]
  /\ backlog = [c \in Clients |-> <<>>]
  /\ delivered = [c \in Clients |-> <<>>]
  /\ cut = [c \in Clients |-> FALSE]

Offer(c, m) ==
  /\ m \notin offered[c]
  /\ Len(backlog[c]) < Bound
  /\ offered' = [offered EXCEPT ![c] = offered[c] \cup {m}]
  /\ backlog' = [backlog EXCEPT ![c] = Append(backlog[c], m)]
  /\ UNCHANGED <<delivered, cut>>

Emit(c) ==
  /\ ~cut[c]
  /\ backlog[c] # <<>>
  /\ delivered' = [delivered EXCEPT ![c] = Append(delivered[c], Head(backlog[c]))]
  /\ backlog' = [backlog EXCEPT ![c] = Tail(backlog[c])]
  /\ UNCHANGED <<offered, cut>>

Cut(c) ==
  /\ cut' = [cut EXCEPT ![c] = TRUE]
  /\ UNCHANGED <<offered, backlog, delivered>>

StreamNext ==
  \E c \in Clients : (\E m \in Frames : Offer(c, m)) \/ Emit(c) \/ Cut(c)

StreamSpec == StreamInit /\ [][StreamNext]_streamVars
=============================================================================
