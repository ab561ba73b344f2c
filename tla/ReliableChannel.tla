-------------------------- MODULE ReliableChannel --------------------------
(* What PersistentProtocol promises to the RPC layer above it: each peer's *)
(* messages reach the other peer in the order they were sent, none left    *)
(* out, whatever happens to the sockets underneath.  A message may be      *)
(* handed over again after a reconnect; that repeats what the other peer   *)
(* has, so it is a stuttering step here.                                   *)
EXTENDS Naturals

CONSTANT Peer

VARIABLES
  sent,      \* [Peer -> Nat]: how many messages the peer has sent
  delivered  \* [Peer -> Nat]: how many of them the other peer has

vars == <<sent, delivered>>

Init ==
  /\ sent = [p \in Peer |-> 0]
  /\ delivered = [p \in Peer |-> 0]

Send(p) ==
  /\ sent' = [sent EXCEPT ![p] = @ + 1]
  /\ UNCHANGED delivered

Deliver(p) ==
  /\ delivered[p] < sent[p]
  /\ delivered' = [delivered EXCEPT ![p] = @ + 1]
  /\ UNCHANGED sent

Next == \E p \in Peer : Send(p) \/ Deliver(p)

Spec == Init /\ [][Next]_vars
=============================================================================
