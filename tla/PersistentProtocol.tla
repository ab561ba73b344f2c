------------------------ MODULE PersistentProtocol -------------------------
(* The reliability layer under the RPC channels                            *)
(* (packages/rpc/src/persistent-protocol.ts) and the connection that gives *)
(* it a new socket when one is lost (remote.ts): two peers with a replay   *)
(* buffer each, acknowledgements carried by messages and heartbeats, the   *)
(* saturation signal, the abandoned session, and the client's reconnects.  *)
(*                                                                         *)
(* Frames are atomic: a frame that has arrived in part is lost with its    *)
(* socket, as the new socket starts with an empty ChunkStream.  Time is    *)
(* not counted: a limit on the age of an entry, or on silence, may be      *)
(* reached whenever there is something that could be that old.  onClose,   *)
(* which an abandoned session and a Disconnect frame fire, is left out:    *)
(* nothing in the repository listens to it.                                *)
EXTENDS OnceSequences

CONSTANTS
  Client, Server,  \* the peer that dials and the one that is dialled
  Size(_, _),      \* bytes of a peer's i-th message
  HighWater,       \* saturationHighWaterMarkBytes
  LowWater,        \* saturationLowWaterMarkBytes
  MaxBuffer,       \* replayBufferMaxBytes
  Attempts,        \* RECONNECT_DELAYS.length
  MaxSent(_),      \* bound: messages a peer sends
  MaxReconnects,   \* bound: reconnects that are begun
  Aged             \* bound: the peers whose messages may get old unacknowledged

ASSUME PeersDiffer == Client # Server
ASSUME BoundsAreNumbers == MaxReconnects \in Nat /\ Attempts \in Nat \ {0}

\* remote.ts gives the constructor no marks, and the low one is then a quarter of
\* the high one.
ASSUME MarksInOrder == LowWater \in Nat /\ HighWater \in Nat /\ LowWater <= HighWater

Peer == {Client, Server}

ASSUME SizesAreNumbers ==
  \A p \in Peer : MaxSent(p) \in Nat /\ \A i \in 1..MaxSent(p) : Size(p, i) \in Nat

Other(p) == IF p = Client THEN Server ELSE Client

\* The first socket, and one for each reconnect, in the order they were opened.
Socket == 1..(MaxReconnects + 1)
NoSocket == 0

\* Where a reconnect stands: its attempt, and the socket that has opened.
Chain == [attempt : 0..(Attempts - 1), opened : Socket \cup {NoSocket}]

Frame == [type : {"Regular", "KeepAlive", "Disconnect"}, id : Nat, ack : Nat]

VARIABLES
  outgoingMsgId,     \* [Peer -> Nat]: id of the last message sent
  outgoingUnackMsg,  \* [Peer -> Seq(Frame)]: the replay buffer
  incomingAckId,     \* [Peer -> Nat]: id of the last message read
  unackBytes,        \* [Peer -> Nat]
  saturated,         \* [Peer -> BOOLEAN]
  overflowed,        \* [Peer -> BOOLEAN]: the session is abandoned
  socket,            \* [Peer -> Socket]: the socket the peer is bound to
  left,              \* [Peer -> SUBSET Socket]: those it will not read again
  wire,              \* [Socket -> [Peer -> Seq(Frame)]]: written, not read
  dialled,           \* sockets opened so far: 1..dialled
  broken,            \* the sockets that are dead
  noticed,           \* the dead sockets whose onClose the client has had
  reconnects,        \* Seq(Chain): the reconnects under way, in the order they began
  begun,             \* how many were begun
  disconnected,      \* one of them has used up its attempts
  received           \* history, [Peer -> Nat]: highest id given to onMessage

link == <<socket, left, dialled, broken, noticed, reconnects, begun,
          disconnected>>
vars == <<outgoingMsgId, outgoingUnackMsg, incomingAckId, unackBytes, saturated,
          overflowed, wire, received, link>>

Init ==
  /\ outgoingMsgId = [p \in Peer |-> 0]
  /\ outgoingUnackMsg = [p \in Peer |-> <<>>]
  /\ incomingAckId = [p \in Peer |-> 0]
  /\ unackBytes = [p \in Peer |-> 0]
  /\ saturated = [p \in Peer |-> FALSE]
  /\ overflowed = [p \in Peer |-> FALSE]
  /\ socket = [p \in Peer |-> 1]
  /\ left = [p \in Peer |-> {}]
  /\ wire = [s \in Socket |-> [p \in Peer |-> <<>>]]
  /\ dialled = 1
  /\ broken = {}
  /\ noticed = {}
  /\ reconnects = <<>>
  /\ begun = 0
  /\ disconnected = FALSE
  /\ received = [p \in Peer |-> 0]

-----------------------------------------------------------------------------
(* Frames and the replay buffer.                                           *)

Regular(p) ==
  [type |-> "Regular", id |-> outgoingMsgId[p] + 1, ack |-> incomingAckId[p]]

(* Fault: the heartbeat does not carry what was read. *)
KeepAliveBlank(p) == [type |-> "KeepAlive", id |-> 0, ack |-> 0]

KeepAlive(p) == [type |-> "KeepAlive", id |-> 0, ack |-> incomingAckId[p]]

Disconnect(p) == [type |-> "Disconnect", id |-> 0, ack |-> incomingAckId[p]]

\* What is written to a socket that is dead, or that the other peer has left,
\* is gone.
Unread(p, s) == s \in broken \/ s \in left[Other(p)]
Write(p, frames) ==
  wire' = IF Unread(p, socket[p]) THEN wire
          ELSE [wire EXCEPT ![socket[p]][p] = @ \o frames]

\* What the entries come to.
Bytes(p, entries) ==
  LET upTo[n \in 0..Len(entries)] ==
        IF n = 0 THEN 0 ELSE upTo[n - 1] + Size(p, entries[n].id)
  IN upTo[Len(entries)]

(* Fault: the acknowledgement is taken for the id of the next message. *)
CoveredOneMore(entries, ack) ==
  CHOOSE n \in 0..Len(entries) :
    /\ \A i \in 1..n : entries[i].id <= ack + 1
    /\ n < Len(entries) => entries[n + 1].id > ack + 1

\* How many entries at the front of the buffer an acknowledgement covers.
Covered(entries, ack) ==
  CHOOSE n \in 0..Len(entries) :
    /\ \A i \in 1..n : entries[i].id <= ack
    /\ n < Len(entries) => entries[n + 1].id > ack

(* Fault: a saturated peer is not told when its buffer has drained. *)
ProcessAckUntold(p, ack) ==
  LET n == Covered(outgoingUnackMsg[p], ack)
  IN /\ outgoingUnackMsg' =
          [outgoingUnackMsg EXCEPT ![p] = SubSeq(@, n + 1, Len(@))]
     /\ unackBytes' =
          [unackBytes EXCEPT ![p] = @ - Bytes(p, SubSeq(outgoingUnackMsg[p], 1, n))]
     /\ UNCHANGED saturated

ProcessAck(p, ack) ==
  LET n     == Covered(outgoingUnackMsg[p], ack)
      bytes == unackBytes[p] - Bytes(p, SubSeq(outgoingUnackMsg[p], 1, n))
  IN /\ outgoingUnackMsg' =
          [outgoingUnackMsg EXCEPT ![p] = SubSeq(@, n + 1, Len(@))]
     /\ unackBytes' = [unackBytes EXCEPT ![p] = bytes]
     /\ saturated' = [saturated EXCEPT ![p] = @ /\ bytes > LowWater]

-----------------------------------------------------------------------------
(* A peer: sending, the two timers, and reading a frame.                   *)

Send(p) ==
  LET msg      == Regular(p)
      bytes    == unackBytes[p] + Size(p, msg.id)
      over     == bytes > MaxBuffer
      abandons == over /\ ~overflowed[p]
  IN /\ outgoingMsgId[p] < MaxSent(p)  \* bound
     /\ outgoingMsgId' = [outgoingMsgId EXCEPT ![p] = msg.id]
     /\ outgoingUnackMsg' = [outgoingUnackMsg EXCEPT ![p] = Append(@, msg)]
     /\ unackBytes' = [unackBytes EXCEPT ![p] = bytes]
     /\ Write(p, IF abandons THEN <<msg, Disconnect(p)>> ELSE <<msg>>)
     /\ overflowed' = [overflowed EXCEPT ![p] = @ \/ abandons]
     /\ saturated' = [saturated EXCEPT ![p] = @ \/ (~over /\ bytes > HighWater)]
     /\ UNCHANGED <<incomingAckId, received, link>>

\* The 5 s interval.  Bound: none while the peer's last frames are on the wire.
SendKeepAlive(p) ==
  /\ wire[socket[p]][p] = <<>>
  /\ ~Unread(p, socket[p])
  /\ Write(p, <<KeepAlive(p)>>)
  /\ UNCHANGED <<outgoingMsgId, outgoingUnackMsg, incomingAckId, unackBytes,
                 saturated, overflowed, received, link>>

\* The ack check finds the oldest entry older than replayBufferGraceMs.
GraceExpires(p) ==
  /\ p \in Aged  \* bound
  /\ outgoingUnackMsg[p] # <<>>
  /\ ~overflowed[p]
  /\ overflowed' = [overflowed EXCEPT ![p] = TRUE]
  /\ Write(p, <<Disconnect(p)>>)
  /\ UNCHANGED <<outgoingMsgId, outgoingUnackMsg, incomingAckId, unackBytes,
                 saturated, received, link>>

\* readMessages: one whole frame.  A repeated message is handed over again,
\* and takes the acknowledgement id back to its own.
Read(p) ==
  LET q == Other(p)
      f == Head(wire[socket[p]][q])
  IN /\ wire[socket[p]][q] # <<>>
     /\ wire' = [wire EXCEPT ![socket[p]][q] = Tail(@)]
     /\ ProcessAck(p, f.ack)
     /\ IF f.type = "Regular"
        THEN /\ incomingAckId' = [incomingAckId EXCEPT ![p] = f.id]
             /\ received' = [received EXCEPT ![p] = IF f.id > @ THEN f.id ELSE @]
        ELSE UNCHANGED <<incomingAckId, received>>
     /\ UNCHANGED <<outgoingMsgId, overflowed, link>>

-----------------------------------------------------------------------------
(* The sockets and the client's connection.                                *)

(* Fault: the buffer is not written to the new socket. *)
ReplaceSocketSilent(p, s, gone) ==
  /\ socket' = [socket EXCEPT ![p] = s]
  /\ left' = [left EXCEPT ![p] = @ \cup gone]
  /\ wire' = [t \in Socket |-> [q \in Peer |->
               IF q # p /\ t \in gone THEN <<>> ELSE wire[t][q]]]

\* replaceSocket: the peer is bound to another socket, reads no more from the
\* sockets that are gone for it, and writes its whole buffer to the new one, the
\* frames as they were first sent.
ReplaceSocket(p, s, gone) ==
  /\ socket' = [socket EXCEPT ![p] = s]
  /\ left' = [left EXCEPT ![p] = @ \cup gone]
  /\ wire' = [t \in Socket |-> [q \in Peer |->
               CASE q = p /\ t = s /\ ~Unread(p, s) -> outgoingUnackMsg[p]
                 [] q # p /\ t \in gone             -> <<>>
                 [] OTHER                            -> wire[t][q]]]

BeginReconnect ==
  /\ begun' = begun + 1
  /\ reconnects' = Append(reconnects, [attempt |-> 0, opened |-> NoSocket])

\* Bound: a socket fails, or is taken for dead, only while a reconnect is left
\* for it, or a socket for the one that is under way.
ReconnectLeft ==
  LET owed == IF socket[Client] \in broken \ noticed THEN 1 ELSE 0
      lost == Cardinality(broken \ (left[Client] \cup {socket[Client]}))
  IN begun + owed + lost < MaxReconnects

SocketFails(s) ==
  /\ \/ \E p \in Peer : s = socket[p]
     \/ \E i \in 1..Len(reconnects) : s = reconnects[i].opened
  /\ s \notin broken
  /\ ReconnectLeft
  /\ broken' = broken \cup {s}
  /\ wire' = [wire EXCEPT ![s] = [p \in Peer |-> <<>>]]
  /\ UNCHANGED <<outgoingMsgId, outgoingUnackMsg, incomingAckId, unackBytes, saturated,
                 overflowed, received, socket, left, dialled, noticed, reconnects,
                 begun, disconnected>>

\* onClose of the socket the client is bound to starts a reconnect.
NoticeClose ==
  /\ socket[Client] \in broken \ noticed
  /\ noticed' = noticed \cup {socket[Client]}
  /\ BeginReconnect
  /\ UNCHANGED <<outgoingMsgId, outgoingUnackMsg, incomingAckId, unackBytes, saturated,
                 overflowed, wire, received, socket, left, dialled, broken, disconnected>>

\* The ack check finds nothing read for ACK_TIMEOUT and starts one too, whether
\* or not one is under way: lastAckTime is not touched by a new socket.
AckTimeout ==
  /\ outgoingUnackMsg[Client] # <<>>
  /\ ReconnectLeft
  /\ BeginReconnect
  /\ UNCHANGED <<outgoingMsgId, outgoingUnackMsg, incomingAckId, unackBytes, saturated,
                 overflowed, wire, received, socket, left, dialled, broken, noticed,
                 disconnected>>

\* The dial of an attempt opens a socket.  The server may have it from now on;
\* the client goes on only when it learns of it.
Dial(i) ==
  /\ reconnects[i].opened = NoSocket
  /\ dialled + 1 \in Socket
  /\ dialled' = dialled + 1
  /\ reconnects' = [reconnects EXCEPT ![i].opened = dialled + 1]
  /\ UNCHANGED <<outgoingMsgId, outgoingUnackMsg, incomingAckId, unackBytes, saturated,
                 overflowed, wire, received, socket, left, broken, noticed, begun,
                 disconnected>>

\* The attempt succeeds: the client moves to the socket, whatever it was given
\* by another reconnect since this one dialled.
Reconnect(i) ==
  /\ reconnects[i].opened \in Socket \ broken
  /\ ReplaceSocket(Client, reconnects[i].opened, {socket[Client]})
  /\ reconnects' = Seqs!RemoveAt(reconnects, i)
  /\ UNCHANGED <<outgoingMsgId, outgoingUnackMsg, incomingAckId, unackBytes, saturated,
                 overflowed, received, dialled, broken, noticed, begun, disconnected>>

\* The attempt fails, without a socket or with one that died early: the next one,
\* or after the last one none.
ReconnectFails(i) ==
  /\ reconnects[i].opened \notin Socket \ broken
  /\ IF reconnects[i].attempt + 1 < Attempts
     THEN /\ reconnects' = [reconnects EXCEPT
               ![i] = [attempt |-> @.attempt + 1, opened |-> NoSocket]]
          /\ UNCHANGED disconnected
     ELSE /\ reconnects' = Seqs!RemoveAt(reconnects, i)
          /\ disconnected' = TRUE
  /\ UNCHANGED <<outgoingMsgId, outgoingUnackMsg, incomingAckId, unackBytes, saturated,
                 overflowed, wire, received, socket, left, dialled, broken, noticed, begun>>

\* The server's side of a reconnect, outside this repository: it is given a new
\* socket at some time, and never an older one than it has.
Accept(s) ==
  /\ s <= dialled
  /\ s > socket[Server]
  /\ ReplaceSocket(Server, s, 1..(s - 1))
  /\ UNCHANGED <<outgoingMsgId, outgoingUnackMsg, incomingAckId, unackBytes, saturated,
                 overflowed, received, dialled, broken, noticed, reconnects, begun,
                 disconnected>>

Peers == \E p \in Peer : Send(p) \/ SendKeepAlive(p) \/ GraceExpires(p) \/ Read(p)
Sockets ==
  \/ \E s \in Socket : SocketFails(s) \/ Accept(s)
  \/ NoticeClose
  \/ AckTimeout
  \/ \E i \in 1..Len(reconnects) : Dial(i) \/ Reconnect(i) \/ ReconnectFails(i)

Next == Peers \/ Sockets

Spec == Init /\ [][Next]_vars

\* The event loops run: frames that arrived are read, the heartbeat's interval
\* fires, the close of a socket is reported, an attempt ends one way or the
\* other, and the server gets the sockets that were opened.  Nothing is assumed
\* of the other timers, of the senders, or of the network staying up.
Fairness ==
  /\ \A p \in Peer : WF_vars(Read(p)) /\ WF_vars(SendKeepAlive(p))
  /\ WF_vars(NoticeClose)
  /\ WF_vars(\E i \in 1..Len(reconnects) : Dial(i) \/ Reconnect(i) \/ ReconnectFails(i))
  /\ WF_vars(\E s \in Socket : Accept(s))

FairSpec == Spec /\ Fairness

-----------------------------------------------------------------------------
(* Properties.                                                             *)

TypeOK ==
  /\ outgoingMsgId \in [Peer -> Nat]
  /\ outgoingUnackMsg \in [Peer -> Seq(Frame)]
  /\ incomingAckId \in [Peer -> Nat]
  /\ saturated \in [Peer -> BOOLEAN]
  /\ overflowed \in [Peer -> BOOLEAN]
  /\ socket \in [Peer -> Socket]
  /\ left \in [Peer -> SUBSET Socket]
  /\ wire \in [Socket -> [Peer -> Seq(Frame)]]
  /\ dialled \in Socket
  /\ broken \subseteq Socket
  /\ noticed \subseteq broken
  /\ reconnects \in Seq(Chain)
  /\ begun \in Nat
  /\ disconnected \in BOOLEAN
  /\ received \in [Peer -> Nat]

\* A message the other peer has not had is still in the replay buffer, so the
\* next socket will carry it: an acknowledgement never covers what was not
\* read, not even one that is repeated, late, or from before a reconnect.
NothingForgotten ==
  \A p \in Peer : \A id \in (received[Other(p)] + 1)..outgoingMsgId[p] :
    \E i \in 1..Len(outgoingUnackMsg[p]) : outgoingUnackMsg[p][i].id = id

\* The flow signal is about what is in the buffer: the byte count is that of
\* the entries, a peer told to pause has more than the low mark left to be
\* acknowledged (or nothing would ever tell it to go on), and one that was not
\* told has no more than the high mark, unless its session is abandoned.
FlowSignalTrue ==
  \A p \in Peer :
    /\ unackBytes[p] = Bytes(p, outgoingUnackMsg[p])
    /\ saturated[p] => unackBytes[p] > LowWater
    /\ ~saturated[p] => unackBytes[p] <= HighWater \/ overflowed[p]

Channel == INSTANCE ReliableChannel WITH
  sent      <- outgoingMsgId,
  delivered <- [p \in Peer |-> received[Other(p)]]

\* The protocol implements the channel: whatever is lost with a socket, and
\* however often it is sent again, no message is handed over before the ones
\* sent before it.
ImplementsChannel == Channel!Spec

\* Two reconnects were adopted against the order in which they dialled: the
\* client has left the server's socket for an older one, which the server does
\* not take.
Parted == socket[Server] \in left[Client] /\ socket[Client] < socket[Server]

\* What was sent gets across, over as many sockets as it takes, and its sender
\* learns so even when the other peer has nothing to send: again and again the
\* replay buffer is empty.  (With NothingForgotten and FlowSignalTrue: every
\* message is delivered, and a peer that was told to pause is told to go on.)
\* Otherwise the sender has abandoned the session, or the client has used up a
\* reconnect's attempts, or overlapping reconnects have parted the peers: then
\* nothing gets across until there is another one.
EverySentIsAcked ==
  \A p \in Peer :
    []<>(outgoingUnackMsg[p] = <<>> \/ overflowed[p] \/ disconnected \/ Parted)
=============================================================================
