---------------------- MODULE PersistentProtocolProofs ----------------------
(***************************************************************************)
(* Theorems about PersistentProtocol, for any message sizes, water marks,  *)
(* buffer limit, attempts, and numbers of messages and reconnects.         *)
(*                                                                         *)
(* The argument follows one direction, from a peer p to the other.  The    *)
(* replay buffer of p is the messages up to the last one sent, without a   *)
(* hole, and what has left it was received (Buffer).  On every socket the  *)
(* frames of p continue what the other peer has, without a gap (InOrder),  *)
(* and the one p is bound to goes up to the last message sent (Reaches):   *)
(* so the next message continues it, and a new socket, which starts with   *)
(* the buffer, has the same property again.  That an acknowledgement never *)
(* exceeds what was received closes the circle (Bounded).                  *)
(*                                                                         *)
(* The byte count is a sum over the buffer.  Two facts about such sums are *)
(* all its invariant (Flow) needs: what a message at the end adds, and     *)
(* what a front part takes away.                                           *)
(***************************************************************************)
EXTENDS PersistentProtocol, OnceSequencesProofs

USE PeersDiffer, BoundsAreNumbers

IsMsg(f) == f.type = "Regular"

InOrder(w, r) ==
  \A k \in 1..Len(w) : IsMsg(w[k]) =>
    \/ w[k].id <= r + 1
    \/ \E j \in 1..(k - 1) : IsMsg(w[j]) /\ w[k].id <= w[j].id + 1

Reaches(w, r, n) == n <= r \/ \E j \in 1..Len(w) : IsMsg(w[j]) /\ n <= w[j].id

Bounded(w, n, a) ==
  \A k \in 1..Len(w) : w[k].ack <= a /\ (IsMsg(w[k]) => w[k].id <= n)

\* A replay buffer u whose last message is n, of a peer whose messages the
\* other one has received up to r.
Buffer(u, n, r) ==
  /\ Len(u) <= n
  /\ n <= r + Len(u)
  /\ \A k \in 1..Len(u) : IsMsg(u[k]) /\ u[k].id = n - Len(u) + k

\* One direction: p's messages.
Direction(p) ==
  LET r == received[Other(p)]
      n == outgoingMsgId[p]
  IN /\ r <= n
     /\ incomingAckId[p] <= received[p]
     /\ Buffer(outgoingUnackMsg[p], n, r)
     /\ Bounded(outgoingUnackMsg[p], n, received[p])
     /\ \A s \in Socket : /\ InOrder(wire[s][p], r)
                          /\ Bounded(wire[s][p], n, received[p])
     /\ ~Unread(p, socket[p]) => Reaches(wire[socket[p]][p], r, n)

IInv == TypeOK /\ \A p \in Peer : Direction(p)

-----------------------------------------------------------------------------
(* Sequences of frames.                                                    *)

(* The other of two peers is a peer, another one, and the other way round. *)
LEMMA OtherPeer ==
  ASSUME NEW p \in Peer
  PROVE  Other(p) \in Peer /\ Other(p) # p /\ Other(Other(p)) = p
                           /\ \A q \in Peer : q # p => q = Other(p)
  BY DEF Peer, Other

(* Reading the first frame leaves the rest without a gap. *)
LEMMA InOrderTail ==
  ASSUME NEW w \in Seq(Frame), w # <<>>, NEW r \in Nat, NEW r2 \in Nat, r <= r2,
         InOrder(w, r), IsMsg(Head(w)) => Head(w).id <= r2
  PROVE  InOrder(Tail(w), r2)
<1> DEFINE t == Tail(w)
<1>1. t \in Seq(Frame) /\ Len(t) = Len(w) - 1 /\ \A k \in 1..Len(t) : t[k] = w[k + 1]
  OBVIOUS
<1> SUFFICES ASSUME NEW k \in 1..Len(t), IsMsg(t[k]), ~(t[k].id <= r2 + 1)
             PROVE  \E j \in 1..(k - 1) : IsMsg(t[j]) /\ t[k].id <= t[j].id + 1
  BY DEF InOrder
<1>2. w \in Seq(Frame) /\ k + 1 \in 1..Len(w) /\ w[k + 1] \in Frame /\ t[k] = w[k + 1]
  BY <1>1
<1>3. w[k + 1].id \in Nat
  BY <1>2 DEF Frame
<1>4. ~(w[k + 1].id <= r + 1)
  BY <1>2, <1>3
<1>5. PICK j \in 1..k : IsMsg(w[j]) /\ w[k + 1].id <= w[j].id + 1
  BY <1>2, <1>4 DEF InOrder
<1>6. w[j] \in Frame /\ w[j].id \in Nat
  <2>1. w[j] \in Frame
    BY <1>2, <1>5
  <2> QED  BY <2>1 DEF Frame
<1>7. j # 1
  BY <1>2, <1>3, <1>5, <1>6
<1>8. j - 1 \in 1..(k - 1) /\ j - 1 \in 1..Len(t) /\ t[j - 1] = w[j]
  BY <1>1, <1>2, <1>5, <1>7
<1> QED  BY <1>2, <1>5, <1>8

(* What is without a gap stays so as more is received. *)
LEMMA InOrderMono ==
  ASSUME NEW w \in Seq(Frame), NEW r \in Nat, NEW r2 \in Nat, r <= r2, InOrder(w, r)
  PROVE  InOrder(w, r2)
<1> SUFFICES ASSUME NEW k \in 1..Len(w), IsMsg(w[k]), ~(w[k].id <= r2 + 1)
             PROVE  \E j \in 1..(k - 1) : IsMsg(w[j]) /\ w[k].id <= w[j].id + 1
  BY DEF InOrder
<1>1. w[k] \in Frame
  OBVIOUS
<1>2. w[k].id \in Nat
  BY <1>1 DEF Frame
<1>3. ~(w[k].id <= r + 1)
  BY <1>2
<1> QED  BY <1>3 DEF InOrder

(* A frame that continues the others, or is no message, is added. *)
LEMMA InOrderAppend ==
  ASSUME NEW w \in Seq(Frame), NEW f \in Frame, NEW r \in Nat, InOrder(w, r),
         IsMsg(f) => \E n \in Nat : f.id = n + 1 /\ Reaches(w, r, n)
  PROVE  InOrder(Append(w, f), r)
<1> DEFINE a == Append(w, f)
<1>1. /\ Len(a) = Len(w) + 1 /\ a[Len(w) + 1] = f
      /\ \A k \in 1..Len(w) : a[k] = w[k]
  OBVIOUS
<1> SUFFICES ASSUME NEW k \in 1..Len(a), IsMsg(a[k]), ~(a[k].id <= r + 1)
             PROVE  \E j \in 1..(k - 1) : IsMsg(a[j]) /\ a[k].id <= a[j].id + 1
  BY DEF InOrder
<1>2. CASE k \in 1..Len(w)
  <2>1. PICK j \in 1..(k - 1) : IsMsg(w[j]) /\ w[k].id <= w[j].id + 1
    BY <1>1, <1>2 DEF InOrder
  <2>2. a[j] = w[j] /\ a[k] = w[k]
    BY <1>1, <1>2, <2>1
  <2> QED  BY <2>1, <2>2
<1>3. CASE k = Len(w) + 1
  <2>1. PICK n \in Nat : f.id = n + 1 /\ Reaches(w, r, n)
    BY <1>1, <1>3
  <2>2. PICK j \in 1..Len(w) : IsMsg(w[j]) /\ n <= w[j].id
    BY <1>1, <1>3, <2>1 DEF Reaches
  <2>3. w[j] \in Frame
    BY <2>2
  <2>4. w[j].id \in Nat
    BY <2>3 DEF Frame
  <2>5. j \in 1..(k - 1) /\ a[j] = w[j] /\ a[k] = f
    BY <1>1, <1>3, <2>2
  <2> QED  BY <2>1, <2>2, <2>4, <2>5
<1> QED  BY <1>1, <1>2, <1>3

(* An added frame does not take back how far the frames reach. *)
LEMMA ReachesAppend ==
  ASSUME NEW w \in Seq(Frame), NEW f \in Frame, NEW r \in Nat, NEW n \in Nat,
         Reaches(w, r, n) \/ (IsMsg(f) /\ n <= f.id)
  PROVE  Reaches(Append(w, f), r, n)
<1> DEFINE a == Append(w, f)
<1>1. /\ Len(a) = Len(w) + 1 /\ a[Len(w) + 1] = f
      /\ \A k \in 1..Len(w) : a[k] = w[k]
  OBVIOUS
<1>2. Len(w) \in Nat
  OBVIOUS
<1> QED  BY <1>1, <1>2 DEF Reaches

(* Limits hold of an added frame, and may grow. *)
LEMMA BoundedAppend ==
  ASSUME NEW w \in Seq(Frame), NEW f \in Frame, NEW n \in Nat, NEW a \in Nat,
         NEW n2 \in Nat, NEW a2 \in Nat, n <= n2, a <= a2, Bounded(w, n, a),
         f.ack <= a2, IsMsg(f) => f.id <= n2
  PROVE  Bounded(Append(w, f), n2, a2)
<1> DEFINE x == Append(w, f)
<1>1. /\ Len(x) = Len(w) + 1 /\ x[Len(w) + 1] = f
      /\ \A k \in 1..Len(w) : x[k] = w[k]
  OBVIOUS
<1>2. \A k \in 1..Len(w) : w[k] \in Frame
  OBVIOUS
<1>3. \A k \in 1..Len(w) : w[k].ack \in Nat /\ w[k].id \in Nat
  BY <1>2 DEF Frame
<1>4. \A k \in 1..Len(w) : w[k].ack <= a2 /\ (IsMsg(w[k]) => w[k].id <= n2)
  BY <1>3 DEF Bounded
<1> QED  BY <1>1, <1>4 DEF Bounded

(* Limits may grow. *)
LEMMA BoundedMono ==
  ASSUME NEW w \in Seq(Frame), NEW n \in Nat, NEW a \in Nat,
         NEW n2 \in Nat, NEW a2 \in Nat, n <= n2, a <= a2, Bounded(w, n, a)
  PROVE  Bounded(w, n2, a2)
<1>1. \A k \in 1..Len(w) : w[k] \in Frame
  OBVIOUS
<1>2. \A k \in 1..Len(w) : w[k].ack \in Nat /\ w[k].id \in Nat
  BY <1>1 DEF Frame
<1> QED  BY <1>2 DEF Bounded

(* The rest of a sequence keeps its limits. *)
LEMMA BoundedTail ==
  ASSUME NEW w \in Seq(Frame), w # <<>>, NEW n, NEW a, Bounded(w, n, a)
  PROVE  Bounded(Tail(w), n, a)
<1>1. Len(Tail(w)) = Len(w) - 1 /\ \A k \in 1..Len(Tail(w)) : Tail(w)[k] = w[k + 1]
  OBVIOUS
<1>2. \A k \in 1..Len(Tail(w)) : k + 1 \in 1..Len(w)
  BY <1>1
<1> QED  BY <1>1, <1>2 DEF Bounded

(* Reading the first frame does not take back how far the frames reach. *)
LEMMA ReachesTail ==
  ASSUME NEW w \in Seq(Frame), w # <<>>, NEW r \in Nat, NEW r2 \in Nat, r <= r2, NEW n \in Nat,
         Reaches(w, r, n), IsMsg(Head(w)) => Head(w).id <= r2
  PROVE  Reaches(Tail(w), r2, n)
<1> DEFINE t == Tail(w)
<1>1. t \in Seq(Frame) /\ Len(t) = Len(w) - 1 /\ \A k \in 1..Len(t) : t[k] = w[k + 1]
  OBVIOUS
<1> SUFFICES ASSUME ~(n <= r2)
             PROVE  \E j \in 1..Len(t) : IsMsg(t[j]) /\ n <= t[j].id
  BY DEF Reaches
<1>2. PICK j \in 1..Len(w) : IsMsg(w[j]) /\ n <= w[j].id
  BY DEF Reaches
<1>3. w[j] \in Frame
  OBVIOUS
<1>4. w[j].id \in Nat
  BY <1>3 DEF Frame
<1>5. j # 1
  BY <1>2, <1>4
<1>6. j - 1 \in 1..Len(t) /\ t[j - 1] = w[j]
  BY <1>1, <1>5
<1> QED  BY <1>2, <1>6

(* How far the frames reach is not taken back by what is received. *)
LEMMA ReachesMono ==
  ASSUME NEW w, NEW r \in Nat, NEW r2 \in Nat, r <= r2, NEW n \in Nat, Reaches(w, r, n)
  PROVE  Reaches(w, r2, n)
  BY DEF Reaches

(* A replay buffer, written to a new socket, continues what was received *)
(* and reaches the last message.                                         *)
LEMMA Replay ==
  ASSUME NEW u \in Seq(Frame), NEW n \in Nat, NEW r \in Nat, Buffer(u, n, r)
  PROVE  InOrder(u, r) /\ Reaches(u, r, n)
<1>0. Len(u) \in Nat
  OBVIOUS
<1>1. InOrder(u, r)
  <2> SUFFICES ASSUME NEW k \in 1..Len(u), ~(u[k].id <= r + 1)
               PROVE  \E j \in 1..(k - 1) : IsMsg(u[j]) /\ u[k].id <= u[j].id + 1
    BY DEF InOrder
  <2>1. k # 1 /\ u[k].id = n - Len(u) + k
    BY <1>0 DEF Buffer
  <2>2. k - 1 \in 1..(k - 1) /\ k - 1 \in 1..Len(u)
    BY <1>0, <2>1
  <2>3. IsMsg(u[k - 1]) /\ u[k - 1].id = n - Len(u) + (k - 1)
    BY <2>2 DEF Buffer
  <2>4. u[k].id <= u[k - 1].id + 1
    BY <1>0, <2>1, <2>3
  <2> QED  BY <2>2, <2>3, <2>4
<1>2. Reaches(u, r, n)
  <2>1. CASE Len(u) = 0
    BY <2>1 DEF Buffer, Reaches
  <2>2. CASE Len(u) # 0
    <3>1. Len(u) \in 1..Len(u) /\ IsMsg(u[Len(u)]) /\ u[Len(u)].id = n
      BY <1>0, <2>2 DEF Buffer
    <3> QED  BY <3>1 DEF Reaches
  <2> QED  BY <2>1, <2>2
<1> QED  BY <1>1, <1>2

(* What an acknowledgement covers is a front part with ids up to it. *)
LEMMA CoveredPart ==
  ASSUME NEW u \in Seq(Frame), NEW n \in Nat, NEW r \in Nat, Buffer(u, n, r), NEW ack \in Nat
  PROVE  /\ Covered(u, ack) \in 0..Len(u)
         /\ \A i \in 1..Covered(u, ack) : u[i].id <= ack
<1> DEFINE base == n - Len(u)
           P(c) == /\ \A i \in 1..c : u[i].id <= ack
                   /\ c < Len(u) => u[c + 1].id > ack
<1>0. Len(u) \in Nat /\ base \in Nat /\ \A k \in 1..Len(u) : u[k].id = base + k
  BY DEF Buffer
<1> HIDE DEF base
<1>1. \E c \in 0..Len(u) : P(c)
  <2>1. CASE ack <= base
    <3>1. P(0)
      BY <1>0, <2>1
    <3> QED  BY <1>0, <3>1
  <2>2. CASE ack >= base + Len(u)
    <3>1. P(Len(u))
      BY <1>0, <2>2
    <3> QED  BY <1>0, <3>1
  <2>3. CASE base < ack /\ ack < base + Len(u)
    <3>1. ack - base \in 1..Len(u) /\ ack - base < Len(u)
      BY <1>0, <2>3
    <3>2. \A i \in 1..(ack - base) : i \in 1..Len(u) /\ base + i <= ack
      BY <1>0, <3>1
    <3>3. \A i \in 1..(ack - base) : u[i].id <= ack
      BY <1>0, <3>2
    <3>4. ack - base + 1 \in 1..Len(u) /\ base + (ack - base + 1) > ack
      BY <1>0, <3>1
    <3>5. u[ack - base + 1].id > ack
      BY <1>0, <3>4
    <3> QED  BY <3>1, <3>3, <3>5
  <2> QED  BY <1>0, <2>1, <2>2, <2>3
<1>2. Covered(u, ack) \in 0..Len(u) /\ P(Covered(u, ack))
  BY <1>1 DEF Covered
<1> QED  BY <1>2

(* Taking out what an acknowledgement of received messages covers leaves a *)
(* replay buffer.                                                          *)
LEMMA Acknowledged ==
  ASSUME NEW u \in Seq(Frame), NEW n \in Nat, NEW r \in Nat, Buffer(u, n, r),
         NEW ack \in Nat, ack <= r, NEW a \in Nat, Bounded(u, n, a)
  PROVE  LET v == SubSeq(u, Covered(u, ack) + 1, Len(u))
         IN v \in Seq(Frame) /\ Buffer(v, n, r) /\ Bounded(v, n, a)
<1> DEFINE c == Covered(u, ack)
           v == SubSeq(u, c + 1, Len(u))
<1>1. c \in 0..Len(u) /\ \A i \in 1..c : u[i].id <= ack
  BY CoveredPart
<1>2. Len(u) \in Nat /\ Len(u) <= n /\ n <= r + Len(u)
      /\ \A k \in 1..Len(u) : IsMsg(u[k]) /\ u[k].id = n - Len(u) + k
  BY DEF Buffer
<1> HIDE DEF c
<1>3. v \in Seq(Frame) /\ Len(v) = Len(u) - c /\ \A k \in 1..Len(v) : v[k] = u[c + k]
  BY <1>1, <1>2
<1>4. n <= r + Len(v)
  <2>1. CASE c = 0
    BY <1>1, <1>2, <1>3, <2>1
  <2>2. CASE c # 0
    <3>1. c \in 1..c /\ c \in 1..Len(u)
      BY <1>1, <1>2, <2>2
    <3>2. n - Len(u) + c <= ack
      BY <1>1, <1>2, <3>1
    <3> QED  BY <1>1, <1>2, <1>3, <3>2
  <2> QED  BY <2>1, <2>2
<1>5. \A k \in 1..Len(v) : c + k \in 1..Len(u)
  BY <1>1, <1>2, <1>3
<1> HIDE DEF v
<1>6. \A k \in 1..Len(v) : v[k].id = n - Len(v) + k
  BY <1>1, <1>2, <1>3, <1>5
<1>7. Buffer(v, n, r)
  <2>1. Len(v) <= n
    BY <1>1, <1>2, <1>3
  <2>2. \A k \in 1..Len(v) : IsMsg(v[k])
    BY <1>2, <1>3, <1>5
  <2> QED  BY <1>4, <1>6, <2>1, <2>2 DEF Buffer
<1>8. Bounded(v, n, a)
  BY <1>3, <1>5 DEF Bounded
<1> QED  BY <1>3, <1>7, <1>8 DEF v, c

(* Writing one frame, or two, is adding them. *)
LEMMA Concatenated ==
  ASSUME NEW w \in Seq(Frame), NEW f \in Frame, NEW g \in Frame
  PROVE  /\ w \o <<f>> = Append(w, f)
         /\ w \o <<f, g>> = Append(Append(w, f), g)
  OBVIOUS

\* What Direction says of the frames a peer has written to its socket.
Channelled(w, r, n, a) == InOrder(w, r) /\ Reaches(w, r, n) /\ Bounded(w, n, a)

(* The next message continues what was written. *)
LEMMA MessageWritten ==
  ASSUME NEW w \in Seq(Frame), NEW f \in Frame, NEW r \in Nat, NEW n \in Nat, NEW a \in Nat,
         Channelled(w, r, n, a), IsMsg(f), f.id = n + 1, f.ack <= a
  PROVE  Append(w, f) \in Seq(Frame) /\ Channelled(Append(w, f), r, n + 1, a)
<1>1. n + 1 \in Nat /\ n <= n + 1 /\ n + 1 <= f.id /\ a <= a
  OBVIOUS
<1>2. InOrder(Append(w, f), r)
  BY InOrderAppend DEF Channelled
<1>3. Reaches(Append(w, f), r, n + 1)
  BY <1>1, ReachesAppend
<1>4. Bounded(Append(w, f), n + 1, a)
  BY <1>1, BoundedAppend DEF Channelled
<1> QED  BY <1>2, <1>3, <1>4 DEF Channelled

(* A heartbeat or a Disconnect changes nothing about the messages. *)
LEMMA ControlWritten ==
  ASSUME NEW w \in Seq(Frame), NEW f \in Frame, NEW r \in Nat, NEW n \in Nat, NEW a \in Nat,
         Channelled(w, r, n, a), ~IsMsg(f), f.ack <= a
  PROVE  Append(w, f) \in Seq(Frame) /\ Channelled(Append(w, f), r, n, a)
<1>1. n <= n /\ a <= a
  OBVIOUS
<1>2. InOrder(Append(w, f), r)
  BY InOrderAppend DEF Channelled
<1>3. Reaches(Append(w, f), r, n)
  BY ReachesAppend DEF Channelled
<1>4. Bounded(Append(w, f), n, a)
  BY <1>1, BoundedAppend DEF Channelled
<1> QED  BY <1>2, <1>3, <1>4 DEF Channelled

(* A message that is sent joins the replay buffer. *)
LEMMA BufferAppend ==
  ASSUME NEW u \in Seq(Frame), NEW f \in Frame, NEW n \in Nat, NEW r \in Nat,
         Buffer(u, n, r), IsMsg(f), f.id = n + 1
  PROVE  Buffer(Append(u, f), n + 1, r)
<1> DEFINE v == Append(u, f)
<1>1. /\ Len(v) = Len(u) + 1 /\ v[Len(u) + 1] = f /\ Len(u) \in Nat
      /\ \A k \in 1..Len(u) : v[k] = u[k]
  OBVIOUS
<1>2. \A k \in 1..Len(u) : IsMsg(v[k]) /\ v[k].id = (n + 1) - Len(v) + k
  BY <1>1 DEF Buffer
<1>3. IsMsg(v[Len(v)]) /\ v[Len(v)].id = (n + 1) - Len(v) + Len(v)
  BY <1>1
<1>4. Len(v) <= n + 1 /\ n + 1 <= r + Len(v)
  BY <1>1 DEF Buffer
<1> HIDE DEF v
<1>5. \A k \in 1..Len(v) : k \in 1..Len(u) \/ k = Len(v)
  BY <1>1
<1> QED  BY <1>2, <1>3, <1>4, <1>5 DEF Buffer, v

-----------------------------------------------------------------------------
(* What a step writes.                                                     *)

(* The frames a peer makes are frames with its acknowledgement. *)
LEMMA Made ==
  ASSUME TypeOK, NEW p \in Peer
  PROVE  /\ Regular(p) \in Frame /\ IsMsg(Regular(p))
         /\ Regular(p).id = outgoingMsgId[p] + 1 /\ Regular(p).ack = incomingAckId[p]
         /\ KeepAlive(p) \in Frame /\ ~IsMsg(KeepAlive(p))
         /\ KeepAlive(p).ack = incomingAckId[p]
         /\ Disconnect(p) \in Frame /\ ~IsMsg(Disconnect(p))
         /\ Disconnect(p).ack = incomingAckId[p]
  BY DEF TypeOK, Regular, KeepAlive, Disconnect, Frame, IsMsg

(* A write goes to the socket the writer is bound to, if to any. *)
LEMMA WriteEffect ==
  ASSUME TypeOK, NEW p \in Peer, NEW frames \in Seq(Frame), Write(p, frames)
  PROVE  /\ wire' \in [Socket -> [Peer -> Seq(Frame)]]
         /\ \A s \in Socket, q \in Peer :
              wire'[s][q] = IF q = p /\ s = socket[p] /\ ~Unread(p, s)
                            THEN wire[s][q] \o frames ELSE wire[s][q]
<1>1. socket[p] \in Socket /\ wire \in [Socket -> [Peer -> Seq(Frame)]]
  BY DEF TypeOK
<1>2. CASE Unread(p, socket[p])
  BY <1>1, <1>2 DEF Write
<1>3. CASE ~Unread(p, socket[p])
  <2>1. wire' = [wire EXCEPT ![socket[p]][p] = wire[socket[p]][p] \o frames]
    BY <1>3 DEF Write
  <2>2. wire[socket[p]][p] \o frames \in Seq(Frame)
    BY <1>1
  <2> QED  BY <1>1, <1>3, <2>1, <2>2
<1> QED  BY <1>2, <1>3

(* A socket a peer takes has its whole buffer, unless nobody will read it, *)
(* and what was still to be read on those gone for it is lost.              *)
LEMMA ReplaceEffect ==
  ASSUME TypeOK, NEW p \in Peer, NEW s \in Socket, NEW gone \in SUBSET Socket,
         ReplaceSocket(p, s, gone)
  PROVE  /\ wire' \in [Socket -> [Peer -> Seq(Frame)]]
         /\ socket' \in [Peer -> Socket] /\ socket'[p] = s
         /\ left' \in [Peer -> SUBSET Socket] /\ left'[p] = left[p] \cup gone
         /\ \A q \in Peer : q # p => socket'[q] = socket[q] /\ left'[q] = left[q]
         /\ \A t \in Socket : wire'[t][p] = IF t = s /\ ~Unread(p, s)
                                            THEN outgoingUnackMsg[p] ELSE wire[t][p]
         /\ \A t \in Socket, q \in Peer :
              q # p => wire'[t][q] = IF t \in gone THEN <<>> ELSE wire[t][q]
<1>1. /\ wire \in [Socket -> [Peer -> Seq(Frame)]]
      /\ outgoingUnackMsg \in [Peer -> Seq(Frame)] /\ socket \in [Peer -> Socket]
      /\ left \in [Peer -> SUBSET Socket] /\ <<>> \in Seq(Frame)
  BY DEF TypeOK
<1> DEFINE W(t, q) == CASE q = p /\ t = s /\ ~Unread(p, s) -> outgoingUnackMsg[p]
                        [] q # p /\ t \in gone               -> <<>>
                        [] OTHER                            -> wire[t][q]
<1>2. \A t \in Socket, q \in Peer :
        /\ q = p => W(t, q) = IF t = s /\ ~Unread(p, s) THEN outgoingUnackMsg[p] ELSE wire[t][p]
        /\ q # p => W(t, q) = IF t \in gone THEN <<>> ELSE wire[t][q]
  OBVIOUS
<1>3. \A t \in Socket, q \in Peer : W(t, q) \in Seq(Frame)
  BY <1>1, <1>2
<1>4. wire' = [t \in Socket |-> [q \in Peer |-> W(t, q)]]
  BY DEF ReplaceSocket
<1> HIDE DEF W
<1>5. \A t \in Socket, q \in Peer : wire'[t][q] = W(t, q)
  BY <1>4
<1>6. wire' \in [Socket -> [Peer -> Seq(Frame)]]
  BY <1>3, <1>4
<1> QED  BY <1>1, <1>2, <1>5, <1>6 DEF ReplaceSocket

-----------------------------------------------------------------------------
(* Each action preserves the invariant.                                    *)

(* What the invariant says of one peer, spelled out. *)
LEMMA Facts ==
  ASSUME IInv, NEW p \in Peer
  PROVE  /\ outgoingMsgId[p] \in Nat /\ incomingAckId[p] \in Nat /\ received[p] \in Nat
         /\ received[Other(p)] \in Nat
         /\ outgoingUnackMsg[p] \in Seq(Frame) /\ socket[p] \in Socket
         /\ \A s \in Socket : wire[s][p] \in Seq(Frame)
         /\ received[Other(p)] <= outgoingMsgId[p] /\ incomingAckId[p] <= received[p]
         /\ Buffer(outgoingUnackMsg[p], outgoingMsgId[p], received[Other(p)])
         /\ Bounded(outgoingUnackMsg[p], outgoingMsgId[p], received[p])
         /\ \A s \in Socket : /\ InOrder(wire[s][p], received[Other(p)])
                              /\ Bounded(wire[s][p], outgoingMsgId[p], received[p])
         /\ ~Unread(p, socket[p]) =>
              Reaches(wire[socket[p]][p], received[Other(p)], outgoingMsgId[p])
<1>1. Other(p) \in Peer /\ TypeOK /\ Direction(p)
  BY OtherPeer DEF IInv
<1> QED  BY <1>1 DEF TypeOK, Direction

(* At the start nothing was sent. *)
LEMMA InitInv == Init => IInv
<1> SUFFICES ASSUME Init PROVE IInv
  OBVIOUS
<1>1. <<>> \in Seq(Frame) /\ <<>> \in Seq(Chain) /\ 1 \in Socket
  BY DEF Socket
<1>2. TypeOK
  BY <1>1 DEF Init, TypeOK
<1>3. ASSUME NEW p \in Peer PROVE Direction(p)
  <2>1. Other(p) \in Peer
    BY OtherPeer
  <2>2. InOrder(<<>>, 0) /\ Bounded(<<>>, 0, 0) /\ Reaches(<<>>, 0, 0) /\ Buffer(<<>>, 0, 0)
    BY DEF InOrder, Bounded, Reaches, Buffer
  <2>3. \A s \in Socket : wire[s][p] = <<>>
    BY DEF Init
  <2>4. wire[socket[p]][p] = <<>>
    BY <1>1, <2>3 DEF Init
  <2> QED  BY <2>1, <2>2, <2>3, <2>4 DEF Init, Direction
<1> QED  BY <1>2, <1>3 DEF IInv

(* A direction whose sender wrote nothing to its socket, and whose receiver  *)
(* read nothing, is kept when sockets die or are left by the other peer.     *)
LEMMA Undisturbed ==
  ASSUME IInv, NEW p \in Peer,
         outgoingMsgId'[p] = outgoingMsgId[p], incomingAckId'[p] = incomingAckId[p],
         outgoingUnackMsg'[p] = outgoingUnackMsg[p],
         received'[p] = received[p], received'[Other(p)] = received[Other(p)],
         \A s \in Socket : wire'[s][p] = wire[s][p] \/ wire'[s][p] = <<>>,
         socket'[p] = socket[p],
         Unread(p, socket[p])' \/ (~Unread(p, socket[p]) /\ wire'[socket[p]][p] = wire[socket[p]][p])
  PROVE  Direction(p)'
<1>1. \A r, n, a : InOrder(<<>>, r) /\ Bounded(<<>>, n, a)
  BY DEF InOrder, Bounded
<1>2. \A s \in Socket : /\ InOrder(wire'[s][p], received[Other(p)])
                        /\ Bounded(wire'[s][p], outgoingMsgId[p], received[p])
  BY <1>1, Facts
<1>3. ~Unread(p, socket[p])' => Reaches(wire'[socket[p]][p], received[Other(p)], outgoingMsgId[p])
  BY Facts
<1> QED  BY <1>2, <1>3, Facts DEF Direction

(* A direction is also kept when its sender writes frames that continue it. *)
LEMMA Written ==
  ASSUME IInv, NEW p \in Peer, NEW n \in Nat, outgoingMsgId[p] <= n,
         NEW frames \in Seq(Frame), Write(p, frames),
         \A w \in Seq(Frame) :
           Channelled(w, received[Other(p)], outgoingMsgId[p], received[p]) =>
             Channelled(w \o frames, received[Other(p)], n, received[p])
  PROVE  /\ \A s \in Socket : /\ InOrder(wire'[s][p], received[Other(p)])
                              /\ Bounded(wire'[s][p], n, received[p])
         /\ ~Unread(p, socket[p]) =>
              Reaches(wire'[socket[p]][p], received[Other(p)], n)
<1> DEFINE r == received[Other(p)]
<1>1. \A s \in Socket : wire'[s][p] = IF s = socket[p] /\ ~Unread(p, s)
                                      THEN wire[s][p] \o frames ELSE wire[s][p]
  BY WriteEffect DEF IInv
<1>2. ASSUME NEW s \in Socket PROVE InOrder(wire[s][p], r) /\ Bounded(wire[s][p], n, received[p])
  <2>1. Bounded(wire[s][p], n, received[p])
    BY Facts, BoundedMono
  <2> QED  BY <2>1, Facts
<1>3. ~Unread(p, socket[p]) => Channelled(wire[socket[p]][p] \o frames, r, n, received[p])
  <2>1. SUFFICES ASSUME ~Unread(p, socket[p])
                 PROVE  Channelled(wire[socket[p]][p], r, outgoingMsgId[p], received[p])
    BY Facts
  <2> QED  BY <2>1, Facts DEF Channelled
<1>4. socket[p] \in Socket
  BY Facts
<1> QED  BY <1>1, <1>2, <1>3, <1>4 DEF Channelled

(* The other direction is not disturbed by a write. *)
LEMMA OtherDirection ==
  ASSUME IInv, NEW p \in Peer, NEW frames \in Seq(Frame), Write(p, frames),
         UNCHANGED <<incomingAckId, received, link>>,
         outgoingMsgId'[Other(p)] = outgoingMsgId[Other(p)],
         outgoingUnackMsg'[Other(p)] = outgoingUnackMsg[Other(p)]
  PROVE  Direction(Other(p))'
<1>1. Other(p) \in Peer /\ Other(p) # p
  BY OtherPeer
<1>2. \A s \in Socket : wire'[s][Other(p)] = wire[s][Other(p)]
  BY <1>1, WriteEffect DEF IInv
<1>3. socket' = socket /\ left' = left /\ broken' = broken /\ socket[Other(p)] \in Socket
  BY <1>1, Facts DEF link
<1>4. Unread(Other(p), socket[Other(p)])' <=> Unread(Other(p), socket[Other(p)])
  BY <1>3 DEF Unread
<1>5. wire'[socket[Other(p)]][Other(p)] = wire[socket[Other(p)]][Other(p)]
  BY <1>2, <1>3
<1> QED  BY <1>1, <1>2, <1>3, <1>4, <1>5, Undisturbed

(* A peer that writes a heartbeat, or a Disconnect, and no message. *)
LEMMA ControlInv ==
  ASSUME IInv, NEW p \in Peer, NEW f \in Frame, ~IsMsg(f), f.ack = incomingAckId[p],
         Write(p, <<f>>), overflowed' \in [Peer -> BOOLEAN],
         UNCHANGED <<outgoingMsgId, outgoingUnackMsg, incomingAckId, saturated,
                     received, link>>
  PROVE  IInv'
<1>1. <<f>> \in Seq(Frame)
  OBVIOUS
<1>2. TypeOK'
  BY <1>1, WriteEffect DEF IInv, TypeOK, link
<1>3. f.ack <= received[p]
  BY Facts
<1>4. \A w \in Seq(Frame) :
        Channelled(w, received[Other(p)], outgoingMsgId[p], received[p]) =>
          Channelled(w \o <<f>>, received[Other(p)], outgoingMsgId[p], received[p])
  <2> SUFFICES ASSUME NEW w \in Seq(Frame),
                      Channelled(w, received[Other(p)], outgoingMsgId[p], received[p])
               PROVE  Channelled(Append(w, f), received[Other(p)], outgoingMsgId[p], received[p])
    BY Concatenated
  <2>1. /\ outgoingMsgId[p] \in Nat /\ received[p] \in Nat /\ received[Other(p)] \in Nat
    BY Facts
  <2> QED  BY <1>3, <2>1, ControlWritten
<1>5. Unread(p, socket[p])' <=> Unread(p, socket[p])
  BY DEF Unread, link
<1>6. outgoingMsgId[p] \in Nat /\ outgoingMsgId[p] <= outgoingMsgId[p]
  BY Facts
<1>7. Direction(p)'
  <2>1. /\ \A s \in Socket : /\ InOrder(wire'[s][p], received[Other(p)])
                             /\ Bounded(wire'[s][p], outgoingMsgId[p], received[p])
        /\ ~Unread(p, socket[p]) =>
             Reaches(wire'[socket[p]][p], received[Other(p)], outgoingMsgId[p])
    BY <1>1, <1>4, <1>6, Written
  <2> QED  BY <2>1, <1>5, Facts DEF Direction, link
<1>8. Direction(Other(p))'
  BY <1>1, OtherDirection
<1> QED  BY <1>2, <1>7, <1>8, OtherPeer DEF IInv

LEMMA SendKeepAliveInv == ASSUME IInv, NEW p \in Peer, SendKeepAlive(p) PROVE IInv'
<1>1. TypeOK /\ overflowed' \in [Peer -> BOOLEAN]
  BY DEF IInv, TypeOK, SendKeepAlive
<1>2. KeepAlive(p) \in Frame /\ ~IsMsg(KeepAlive(p)) /\ KeepAlive(p).ack = incomingAckId[p]
  BY <1>1, Made
<1>3. /\ Write(p, <<KeepAlive(p)>>)
      /\ UNCHANGED <<outgoingMsgId, outgoingUnackMsg, incomingAckId, saturated, received, link>>
  BY DEF SendKeepAlive
<1> QED  BY <1>1, <1>2, <1>3, ControlInv

LEMMA GraceExpiresInv == ASSUME IInv, NEW p \in Peer, GraceExpires(p) PROVE IInv'
<1>1. TypeOK /\ overflowed' \in [Peer -> BOOLEAN]
  BY DEF IInv, TypeOK, GraceExpires
<1>2. Disconnect(p) \in Frame /\ ~IsMsg(Disconnect(p)) /\ Disconnect(p).ack = incomingAckId[p]
  BY <1>1, Made
<1>3. /\ Write(p, <<Disconnect(p)>>)
      /\ UNCHANGED <<outgoingMsgId, outgoingUnackMsg, incomingAckId, saturated, received, link>>
  BY DEF GraceExpires
<1> QED  BY <1>1, <1>2, <1>3, ControlInv

(* What Send writes: the message, and a Disconnect if it breaks the limit. *)
LEMMA SendWrites ==
  ASSUME IInv, NEW p \in Peer, Send(p)
  PROVE  /\ outgoingMsgId' = [outgoingMsgId EXCEPT ![p] = outgoingMsgId[p] + 1]
         /\ outgoingUnackMsg' = [outgoingUnackMsg EXCEPT ![p] = Append(@, Regular(p))]
         /\ Write(p, <<Regular(p)>>) \/ Write(p, <<Regular(p), Disconnect(p)>>)
         /\ UNCHANGED <<incomingAckId, received, link>>
         /\ overflowed' \in [Peer -> BOOLEAN] /\ saturated' \in [Peer -> BOOLEAN]
<1>1. TypeOK
  BY DEF IInv
<1>2. Regular(p).id = outgoingMsgId[p] + 1
  BY <1>1, Made
<1>3. Write(p, <<Regular(p)>>) \/ Write(p, <<Regular(p), Disconnect(p)>>)
  BY DEF Send
<1>4. overflowed' \in [Peer -> BOOLEAN] /\ saturated' \in [Peer -> BOOLEAN]
  BY <1>1 DEF TypeOK, Send
<1> QED  BY <1>2, <1>3, <1>4 DEF Send

LEMMA SendInv == ASSUME IInv, NEW p \in Peer, Send(p) PROVE IInv'
<1> DEFINE n == outgoingMsgId[p]
           r == received[Other(p)]
           a == received[p]
           m == Regular(p)
           d == Disconnect(p)
<1>1. TypeOK /\ Other(p) \in Peer /\ Other(p) # p
  BY OtherPeer DEF IInv
<1>2. /\ m \in Frame /\ IsMsg(m) /\ m.id = n + 1 /\ m.ack = incomingAckId[p]
      /\ d \in Frame /\ ~IsMsg(d) /\ d.ack = incomingAckId[p]
  BY <1>1, Made
<1>3. /\ n \in Nat /\ a \in Nat /\ r \in Nat /\ incomingAckId[p] <= a /\ incomingAckId[p] \in Nat
      /\ outgoingUnackMsg[p] \in Seq(Frame) /\ socket[p] \in Socket /\ r <= n
  BY Facts
<1>4. n + 1 \in Nat /\ n <= n + 1 /\ m.ack <= a /\ d.ack <= a
  BY <1>2, <1>3
<1>5. PICK frames : (frames = <<m>> \/ frames = <<m, d>>) /\ Write(p, frames)
  BY SendWrites
<1>6. frames \in Seq(Frame)
  <2>1. <<m>> \in Seq(Frame) /\ <<m, d>> \in Seq(Frame)
    BY <1>2
  <2> QED  BY <1>5, <2>1
<1>sends. /\ outgoingMsgId' = [outgoingMsgId EXCEPT ![p] = n + 1]
          /\ outgoingUnackMsg' = [outgoingUnackMsg EXCEPT ![p] = Append(outgoingUnackMsg[p], m)]
          /\ UNCHANGED <<incomingAckId, received, link>>
          /\ overflowed' \in [Peer -> BOOLEAN] /\ saturated' \in [Peer -> BOOLEAN]
          /\ outgoingMsgId \in [Peer -> Nat] /\ outgoingUnackMsg \in [Peer -> Seq(Frame)]
  <2>1. outgoingMsgId \in [Peer -> Nat] /\ outgoingUnackMsg \in [Peer -> Seq(Frame)]
    BY <1>1 DEF TypeOK
  <2> QED  BY <2>1, SendWrites
<1> HIDE DEF n, r, a, m, d
<1>7. ASSUME NEW w \in Seq(Frame), Channelled(w, r, n, a)
      PROVE  Channelled(w \o frames, r, n + 1, a)
  <2>1. Append(w, m) \in Seq(Frame) /\ Channelled(Append(w, m), r, n + 1, a)
    BY <1>2, <1>3, <1>4, <1>7, MessageWritten
  <2>2. Channelled(Append(Append(w, m), d), r, n + 1, a)
    BY <1>2, <1>3, <1>4, <2>1, ControlWritten
  <2>3. w \o <<m>> = Append(w, m) /\ w \o <<m, d>> = Append(Append(w, m), d)
    BY <1>2, Concatenated
  <2>4. CASE frames = <<m>>
    BY <2>1, <2>3, <2>4
  <2>5. CASE frames = <<m, d>>
    BY <2>2, <2>3, <2>5
  <2> QED  BY <1>5, <2>4, <2>5
<1>8. /\ \A s \in Socket : InOrder(wire'[s][p], r) /\ Bounded(wire'[s][p], n + 1, a)
      /\ ~Unread(p, socket[p]) => Reaches(wire'[socket[p]][p], r, n + 1)
  BY <1>4, <1>5, <1>6, <1>7, Written DEF n, r, a
<1>9. /\ Buffer(Append(outgoingUnackMsg[p], m), n + 1, r)
      /\ Bounded(Append(outgoingUnackMsg[p], m), n + 1, a)
  <2>1. Buffer(outgoingUnackMsg[p], n, r) /\ Bounded(outgoingUnackMsg[p], n, a)
    BY Facts DEF n, r, a
  <2>2. m.id <= n + 1 /\ a <= a
    BY <1>2, <1>3
  <2>3. Buffer(Append(outgoingUnackMsg[p], m), n + 1, r)
    BY <1>2, <1>3, <2>1, BufferAppend
  <2>4. Bounded(Append(outgoingUnackMsg[p], m), n + 1, a)
    BY <1>2, <1>3, <1>4, <2>1, <2>2, BoundedAppend
  <2> QED  BY <2>3, <2>4
<1>10. /\ outgoingMsgId'[p] = n + 1
       /\ outgoingUnackMsg'[p] = Append(outgoingUnackMsg[p], m)
       /\ outgoingMsgId'[Other(p)] = outgoingMsgId[Other(p)]
       /\ outgoingUnackMsg'[Other(p)] = outgoingUnackMsg[Other(p)]
       /\ incomingAckId' = incomingAckId /\ received' = received /\ UNCHANGED link
  BY <1>1, <1>sends
<1>11. Direction(p)'
  <2>1. Unread(p, socket[p])' <=> Unread(p, socket[p])
    BY <1>10 DEF Unread, link
  <2>2. r <= n + 1
    BY <1>3
  <2> QED  BY <1>3, <1>8, <1>9, <1>10, <2>1, <2>2 DEF Direction, link, n, r, a
<1>12. Direction(Other(p))'
  BY <1>5, <1>6, <1>10, OtherDirection
<1>13. TypeOK'
  <2>1. wire' \in [Socket -> [Peer -> Seq(Frame)]]
    BY <1>1, <1>5, <1>6, WriteEffect
  <2>2. outgoingMsgId' \in [Peer -> Nat]
    BY <1>4, <1>sends
  <2>3. outgoingUnackMsg' \in [Peer -> Seq(Frame)]
    <3>1. Append(outgoingUnackMsg[p], m) \in Seq(Frame)
      BY <1>2, <1>3
    <3> QED  BY <1>sends, <3>1
  <2> QED  BY <1>1, <1>sends, <2>1, <2>2, <2>3 DEF TypeOK, link
<1> QED  BY <1>11, <1>12, <1>13, OtherPeer DEF IInv

(* What Read changes, and what the frame it reads may be. *)
LEMMA ReadEffect ==
  ASSUME IInv, NEW p \in Peer, Read(p)
  PROVE  LET q == Other(p)
             w == wire[socket[p]][q]
             f == Head(w)
             u == outgoingUnackMsg[p]
         IN /\ w \in Seq(Frame) /\ w # <<>> /\ f \in Frame
            /\ f.ack \in Nat /\ f.ack <= received[q]
            /\ IsMsg(f) => f.id \in Nat /\ f.id <= outgoingMsgId[q] /\ f.id <= received[p] + 1
            /\ wire' = [wire EXCEPT ![socket[p]][q] = Tail(w)]
            /\ outgoingUnackMsg' =
                 [outgoingUnackMsg EXCEPT ![p] = SubSeq(u, Covered(u, f.ack) + 1, Len(u))]
            /\ saturated' = [saturated EXCEPT ![p] = saturated'[p]] /\ saturated'[p] \in BOOLEAN
            /\ incomingAckId' = [incomingAckId EXCEPT ![p] = IF IsMsg(f) THEN f.id ELSE @]
            /\ received' = [received EXCEPT ![p] = IF IsMsg(f) /\ f.id > @ THEN f.id ELSE @]
            /\ UNCHANGED <<outgoingMsgId, overflowed, link>>
<1> DEFINE q == Other(p)
           w == wire[socket[p]][q]
           f == Head(w)
           u == outgoingUnackMsg[p]
<1>1. q \in Peer /\ Other(q) = p /\ socket[p] \in Socket /\ TypeOK
  BY OtherPeer, Facts DEF IInv
<1>2. w \in Seq(Frame) /\ w # <<>>
  BY <1>1, Facts DEF Read
<1>3. f \in Frame /\ f = w[1] /\ 1 \in 1..Len(w)
  BY <1>2
<1>4. InOrder(w, received[p]) /\ Bounded(w, outgoingMsgId[q], received[q])
  BY <1>1, Facts
<1>5. f.ack \in Nat /\ f.id \in Nat
  BY <1>3 DEF Frame
<1>6. f.ack <= received[q] /\ (IsMsg(f) => f.id <= outgoingMsgId[q])
  BY <1>3, <1>4 DEF Bounded
<1>7. IsMsg(f) => f.id <= received[p] + 1
  BY <1>3, <1>4 DEF InOrder
<1>8. /\ wire' = [wire EXCEPT ![socket[p]][q] = Tail(w)]
      /\ outgoingUnackMsg' =
           [outgoingUnackMsg EXCEPT ![p] = SubSeq(u, Covered(u, f.ack) + 1, Len(u))]
      /\ UNCHANGED <<outgoingMsgId, overflowed, link>>
  BY DEF Read, ProcessAck
<1>9. saturated' = [saturated EXCEPT ![p] = saturated'[p]] /\ saturated'[p] \in BOOLEAN
  <2>1. \E c : saturated' = [saturated EXCEPT ![p] = saturated[p] /\ c]
    BY DEF Read, ProcessAck
  <2>2. PICK c : saturated' = [saturated EXCEPT ![p] = saturated[p] /\ c]
    BY <2>1
  <2> QED  BY <1>1, <2>2 DEF TypeOK
<1>10. /\ incomingAckId' = [incomingAckId EXCEPT ![p] = IF IsMsg(f) THEN f.id ELSE @]
       /\ received' = [received EXCEPT ![p] = IF IsMsg(f) /\ f.id > @ THEN f.id ELSE @]
  <2>1. incomingAckId \in [Peer -> Nat] /\ received \in [Peer -> Nat]
    BY <1>1 DEF TypeOK
  <2>2. CASE IsMsg(f)
    <3>1. /\ incomingAckId' = [incomingAckId EXCEPT ![p] = f.id]
          /\ received' = [received EXCEPT ![p] = IF f.id > @ THEN f.id ELSE @]
      BY <2>2 DEF Read, IsMsg
    <3> QED  BY <2>1, <2>2, <3>1
  <2>3. CASE ~IsMsg(f)
    <3>1. incomingAckId' = incomingAckId /\ received' = received
      BY <2>3 DEF Read, IsMsg
    <3> QED  BY <2>1, <2>3, <3>1
  <2> QED  BY <2>2, <2>3
<1> HIDE DEF q, w, f, u
<1>11. /\ w \in Seq(Frame) /\ w # <<>> /\ f \in Frame
       /\ f.ack \in Nat /\ f.ack <= received[q]
       /\ IsMsg(f) => f.id \in Nat /\ f.id <= outgoingMsgId[q] /\ f.id <= received[p] + 1
  BY <1>2, <1>3, <1>5, <1>6, <1>7
<1> QED  BY <1>8, <1>9, <1>10, <1>11 DEF q, w, f, u

LEMMA ReadInv == ASSUME IInv, NEW p \in Peer, Read(p) PROVE IInv'
<1> DEFINE q == Other(p)
           w == wire[socket[p]][q]
           f == Head(w)
           u == outgoingUnackMsg[p]
           v == SubSeq(u, Covered(u, f.ack) + 1, Len(u))
           r2 == received'[p]
<1>1. q \in Peer /\ q # p /\ Other(q) = p /\ TypeOK /\ socket[p] \in Socket
  BY OtherPeer, Facts DEF IInv
<1>2. /\ w \in Seq(Frame) /\ w # <<>> /\ f \in Frame
      /\ f.ack \in Nat /\ f.ack <= received[q]
      /\ IsMsg(f) => f.id \in Nat /\ f.id <= outgoingMsgId[q] /\ f.id <= received[p] + 1
  BY ReadEffect
<1>3. /\ wire' = [wire EXCEPT ![socket[p]][q] = Tail(w)]
      /\ outgoingUnackMsg' = [outgoingUnackMsg EXCEPT ![p] = v]
      /\ saturated' = [saturated EXCEPT ![p] = saturated'[p]] /\ saturated'[p] \in BOOLEAN
      /\ incomingAckId' = [incomingAckId EXCEPT ![p] = IF IsMsg(f) THEN f.id ELSE @]
      /\ received' = [received EXCEPT ![p] = IF IsMsg(f) /\ f.id > @ THEN f.id ELSE @]
      /\ UNCHANGED <<outgoingMsgId, overflowed, link>>
  BY ReadEffect
<1>4. v \in Seq(Frame) /\ Buffer(v, outgoingMsgId[p], received[q])
      /\ Bounded(v, outgoingMsgId[p], received[p])
  BY <1>1, <1>2, Facts, Acknowledged
<1> HIDE DEF q, w, f, u, v, r2
<1>5. /\ wire \in [Socket -> [Peer -> Seq(Frame)]] /\ outgoingUnackMsg \in [Peer -> Seq(Frame)]
      /\ saturated \in [Peer -> BOOLEAN] /\ incomingAckId \in [Peer -> Nat]
      /\ received \in [Peer -> Nat] /\ outgoingMsgId \in [Peer -> Nat]
      /\ overflowed \in [Peer -> BOOLEAN]
  BY <1>1 DEF TypeOK
<1>6. /\ r2 \in Nat /\ received[p] <= r2 /\ r2 <= outgoingMsgId[q]
      /\ IsMsg(f) => f.id <= r2
      /\ received'[q] = received[q] /\ incomingAckId'[q] = incomingAckId[q]
      /\ incomingAckId'[p] <= r2 /\ incomingAckId'[p] \in Nat
  <2>1. received[p] <= outgoingMsgId[q] /\ incomingAckId[p] <= received[p]
    BY <1>1, Facts
  <2>2. r2 = IF IsMsg(f) /\ f.id > received[p] THEN f.id ELSE received[p]
    BY <1>3, <1>5 DEF r2
  <2>3. incomingAckId'[p] = IF IsMsg(f) THEN f.id ELSE incomingAckId[p]
    BY <1>3, <1>5
  <2>4. received[p] \in Nat /\ incomingAckId[p] \in Nat /\ outgoingMsgId[q] \in Nat
    BY <1>1, <1>5
  <2>5. received'[q] = received[q] /\ incomingAckId'[q] = incomingAckId[q]
    BY <1>1, <1>3, <1>5
  <2> QED  BY <1>2, <2>1, <2>2, <2>3, <2>4, <2>5
<1>7. /\ \A s \in Socket : wire'[s][p] = wire[s][p]
      /\ \A s \in Socket : s # socket[p] => wire'[s][q] = wire[s][q]
      /\ wire'[socket[p]][q] = Tail(w)
      /\ outgoingUnackMsg'[p] = v /\ outgoingUnackMsg'[q] = outgoingUnackMsg[q]
      /\ outgoingMsgId' = outgoingMsgId /\ socket' = socket
      /\ \A x \in Peer : Unread(x, socket[x])' <=> Unread(x, socket[x])
  BY <1>1, <1>3, <1>5 DEF link, Unread
<1>8. Tail(w) \in Seq(Frame)
  BY <1>2
<1>9. Direction(p)'
  <2>1. Bounded(v, outgoingMsgId[p], r2)
    BY <1>4, <1>6, Facts, BoundedMono
  <2>2. ASSUME NEW s \in Socket
        PROVE  InOrder(wire[s][p], received[q]) /\ Bounded(wire[s][p], outgoingMsgId[p], r2)
    BY <1>6, Facts, BoundedMono DEF q
  <2>3. ~Unread(p, socket[p]) => Reaches(wire[socket[p]][p], received[q], outgoingMsgId[p])
    BY Facts DEF q
  <2>4. received[q] <= outgoingMsgId[p]
    BY Facts DEF q
  <2> QED  BY <1>1, <1>4, <1>6, <1>7, <2>1, <2>2, <2>3, <2>4 DEF Direction, q, r2
<1>10. Direction(q)'
  <2>1. /\ outgoingMsgId[q] \in Nat /\ received[p] \in Nat /\ received[q] \in Nat
        /\ incomingAckId[q] <= received[q] /\ socket[q] \in Socket
        /\ Bounded(outgoingUnackMsg[q], outgoingMsgId[q], received[q])
    BY <1>1, Facts
  <2>2. Buffer(outgoingUnackMsg[q], outgoingMsgId[q], r2)
    <3>1. Buffer(outgoingUnackMsg[q], outgoingMsgId[q], received[p])
      BY <1>1, Facts
    <3>2. Len(outgoingUnackMsg[q]) \in Nat
      BY <1>1, Facts
    <3> QED  BY <1>6, <2>1, <3>1, <3>2 DEF Buffer
  <2>3. ASSUME NEW s \in Socket
        PROVE  InOrder(wire'[s][q], r2) /\ Bounded(wire'[s][q], outgoingMsgId[q], received[q])
    <3>1. wire[s][q] \in Seq(Frame) /\ InOrder(wire[s][q], received[p])
          /\ Bounded(wire[s][q], outgoingMsgId[q], received[q])
      BY <1>1, Facts
    <3>2. CASE s = socket[p]
      <4>1. InOrder(Tail(w), r2)
        BY <1>2, <1>6, <2>1, <3>1, <3>2, InOrderTail DEF w, f
      <4>2. Bounded(Tail(w), outgoingMsgId[q], received[q])
        BY <1>2, <3>1, <3>2, BoundedTail DEF w
      <4> QED  BY <1>7, <3>2, <4>1, <4>2
    <3>3. CASE s # socket[p]
      BY <1>6, <1>7, <2>1, <3>1, <3>3, InOrderMono
    <3> QED  BY <3>2, <3>3
  <2>4. ASSUME ~Unread(q, socket[q]) PROVE Reaches(wire'[socket[q]][q], r2, outgoingMsgId[q])
    <3>1. Reaches(wire[socket[q]][q], received[p], outgoingMsgId[q])
      BY <1>1, <2>4, Facts
    <3>2. CASE socket[q] = socket[p]
      BY <1>2, <1>6, <1>7, <2>1, <3>1, <3>2, ReachesTail DEF w, f
    <3>3. CASE socket[q] # socket[p]
      BY <1>6, <1>7, <2>1, <3>1, <3>3, ReachesMono
    <3> QED  BY <3>2, <3>3
  <2> QED  BY <1>1, <1>6, <1>7, <2>1, <2>2, <2>3, <2>4 DEF Direction, r2
<1>11. TypeOK'
  <2>1. wire' \in [Socket -> [Peer -> Seq(Frame)]]
    BY <1>1, <1>3, <1>5, <1>8
  <2>2. outgoingUnackMsg' \in [Peer -> Seq(Frame)]
    BY <1>3, <1>4, <1>5
  <2>3. saturated' \in [Peer -> BOOLEAN]
    BY <1>3, <1>5
  <2>4. incomingAckId' \in [Peer -> Nat]
    BY <1>2, <1>3, <1>5
  <2>5. received' \in [Peer -> Nat]
    BY <1>2, <1>3, <1>5
  <2> QED  BY <1>1, <1>3, <1>5, <2>1, <2>2, <2>3, <2>4, <2>5 DEF TypeOK, link
<1> QED  BY <1>9, <1>10, <1>11, OtherPeer DEF IInv, q

(* A peer moves to a socket, and some are gone for it. *)
LEMMA ReplaceInv ==
  ASSUME IInv, NEW p \in Peer, NEW s \in Socket, NEW gone \in SUBSET Socket,
         ReplaceSocket(p, s, gone), reconnects' \in Seq(Chain),
         UNCHANGED <<outgoingMsgId, outgoingUnackMsg, incomingAckId, saturated, overflowed,
                     received, dialled, broken, noticed, begun, disconnected>>
  PROVE  IInv'
<1> DEFINE q == Other(p)
<1>1. q \in Peer /\ q # p /\ Other(q) = p /\ TypeOK
  BY OtherPeer DEF IInv
<1>2. /\ wire' \in [Socket -> [Peer -> Seq(Frame)]]
      /\ socket' \in [Peer -> Socket] /\ socket'[p] = s /\ socket'[q] = socket[q]
      /\ left' \in [Peer -> SUBSET Socket]
      /\ left'[p] = left[p] \cup gone /\ left'[q] = left[q]
      /\ \A t \in Socket : wire'[t][p] = IF t = s /\ ~Unread(p, s)
                                         THEN outgoingUnackMsg[p] ELSE wire[t][p]
      /\ \A t \in Socket : wire'[t][q] = IF t \in gone THEN <<>> ELSE wire[t][q]
  BY <1>1, ReplaceEffect
<1>3. TypeOK'
  BY <1>1, <1>2 DEF TypeOK
<1>4. Direction(p)'
  <2>1. /\ InOrder(outgoingUnackMsg[p], received[q])
        /\ Reaches(outgoingUnackMsg[p], received[q], outgoingMsgId[p])
    BY Facts, Replay
  <2>2. \A t \in Socket : InOrder(wire'[t][p], received[q])
                         /\ Bounded(wire'[t][p], outgoingMsgId[p], received[p])
    BY <1>2, <2>1, Facts
  <2>3. Unread(p, s)' <=> Unread(p, s)
    BY <1>1, <1>2 DEF Unread
  <2>4. ~Unread(p, s) => Reaches(wire'[s][p], received[q], outgoingMsgId[p])
    BY <1>2, <2>1
  <2>5. (~Unread(p, socket[p]))' => Reaches(wire'[s][p], received[q], outgoingMsgId[p])
    BY <1>2, <2>3, <2>4 DEF Unread
  <2> QED  BY <1>2, <2>2, <2>5, Facts DEF Direction
<1>5. Direction(q)'
  <2>1. socket[q] \in Socket
    BY <1>1, Facts
  <2>2. Unread(q, socket[q])' <=> Unread(q, socket[q]) \/ socket[q] \in gone
    BY <1>1, <1>2 DEF Unread
  <2>3. Unread(q, socket[q])'
          \/ (~Unread(q, socket[q]) /\ wire'[socket[q]][q] = wire[socket[q]][q])
    BY <1>2, <2>1, <2>2
  <2>4. \A t \in Socket : wire'[t][q] = wire[t][q] \/ wire'[t][q] = <<>>
    BY <1>2
  <2> HIDE DEF q
  <2> QED  BY <1>1, <1>2, <2>3, <2>4, Undisturbed
<1> QED  BY <1>3, <1>4, <1>5, OtherPeer DEF IInv

(* Steps that only kill sockets, report it, open one, or move a reconnect. *)
LEMMA SocketInv ==
  ASSUME IInv, broken \subseteq broken', broken' \subseteq Socket,
         noticed' \subseteq broken', reconnects' \in Seq(Chain), dialled' \in Socket,
         begun' \in Nat, disconnected' \in BOOLEAN,
         wire' \in [Socket -> [Peer -> Seq(Frame)]],
         \A s \in Socket : wire'[s] = wire[s]
                           \/ (s \in broken' /\ \A x \in Peer : wire'[s][x] = <<>>),
         UNCHANGED <<outgoingMsgId, outgoingUnackMsg, incomingAckId, saturated, overflowed,
                     received, socket, left>>
  PROVE  IInv'
<1>1. TypeOK'
  BY DEF IInv, TypeOK
<1>2. ASSUME NEW p \in Peer PROVE Direction(p)'
  <2>1. socket[p] \in Socket /\ Other(p) \in Peer
    BY Facts, OtherPeer
  <2>2. \A s \in Socket : wire'[s][p] = wire[s][p] \/ wire'[s][p] = <<>>
    OBVIOUS
  <2>3. Unread(p, socket[p]) => Unread(p, socket[p])'
    BY DEF Unread
  <2>4. wire'[socket[p]][p] = wire[socket[p]][p] \/ Unread(p, socket[p])'
    BY <2>1 DEF Unread
  <2> QED  BY <2>1, <2>2, <2>3, <2>4, Undisturbed
<1> QED  BY <1>1, <1>2 DEF IInv

LEMMA SocketFailsInv == ASSUME IInv, NEW s \in Socket, SocketFails(s) PROVE IInv'
<1>1. TypeOK
  BY DEF IInv
<1>2. wire' = [wire EXCEPT ![s] = [x \in Peer |-> <<>>]] /\ broken' = broken \cup {s}
  BY DEF SocketFails
<1>3. <<>> \in Seq(Frame) /\ wire \in [Socket -> [Peer -> Seq(Frame)]]
  BY <1>1 DEF TypeOK
<1>4. wire' \in [Socket -> [Peer -> Seq(Frame)]]
  BY <1>2, <1>3
<1>5. \A t \in Socket : wire'[t] = wire[t]
                        \/ (t \in broken' /\ \A x \in Peer : wire'[t][x] = <<>>)
  BY <1>2, <1>3
<1>6. /\ broken \subseteq Socket /\ noticed \subseteq broken /\ reconnects \in Seq(Chain)
      /\ dialled \in Socket /\ begun \in Nat /\ disconnected \in BOOLEAN
  BY <1>1 DEF TypeOK
<1>7. UNCHANGED <<outgoingMsgId, outgoingUnackMsg, incomingAckId, saturated, overflowed,
                  received, socket, left, dialled, noticed, reconnects, begun, disconnected>>
  BY DEF SocketFails
<1> QED  BY <1>2, <1>4, <1>5, <1>6, <1>7, SocketInv

(* A reconnect begins, an attempt opens a socket, or it fails. *)
LEMMA ReconnectsInv ==
  ASSUME IInv, reconnects' \in Seq(Chain), noticed' \subseteq broken, dialled' \in Socket,
         begun' \in Nat, disconnected' \in BOOLEAN,
         UNCHANGED <<outgoingMsgId, outgoingUnackMsg, incomingAckId, saturated, overflowed,
                     wire, received, socket, left, broken>>
  PROVE  IInv'
<1>1. broken \subseteq Socket /\ wire \in [Socket -> [Peer -> Seq(Frame)]]
  BY DEF IInv, TypeOK
<1>2. broken' = broken /\ wire' = wire
  OBVIOUS
<1> QED  BY <1>1, <1>2, SocketInv

(* What the invariant says of the reconnects. *)
LEMMA ReconnectTypes ==
  ASSUME IInv
  PROVE  /\ broken \subseteq Socket /\ noticed \subseteq broken /\ reconnects \in Seq(Chain)
         /\ dialled \in Socket /\ begun \in Nat /\ begun + 1 \in Nat
         /\ disconnected \in BOOLEAN
  BY DEF IInv, TypeOK

LEMMA Begun == ASSUME IInv, BeginReconnect PROVE reconnects' \in Seq(Chain) /\ begun' \in Nat
<1>1. [attempt |-> 0, opened |-> NoSocket] \in Chain
  BY DEF Chain
<1> QED  BY <1>1, ReconnectTypes DEF BeginReconnect

(* What is left of the reconnects when one has ended. *)
LEMMA Ended ==
  ASSUME NEW S, NEW t \in Seq(S), NEW i \in 1..Len(t)
  PROVE  Seqs!RemoveAt(t, i) \in Seq(S)
<1>1. SubSeq(t, 1, i - 1) \in Seq(S) /\ SubSeq(t, i + 1, Len(t)) \in Seq(S)
  OBVIOUS
<1> QED  BY <1>1 DEF Seqs!RemoveAt

LEMMA NoticeCloseInv == ASSUME IInv, NoticeClose PROVE IInv'
<1>1. socket[Client] \in broken /\ noticed' \subseteq broken
  BY ReconnectTypes DEF NoticeClose
<1>2. reconnects' \in Seq(Chain) /\ begun' \in Nat
  BY Begun DEF NoticeClose
<1> QED  BY <1>1, <1>2, ReconnectTypes, ReconnectsInv DEF NoticeClose

LEMMA AckTimeoutInv == ASSUME IInv, AckTimeout PROVE IInv'
<1>1. reconnects' \in Seq(Chain) /\ begun' \in Nat
  BY Begun DEF AckTimeout
<1> QED  BY <1>1, ReconnectTypes, ReconnectsInv DEF AckTimeout

LEMMA DialInv == ASSUME IInv, NEW i \in 1..Len(reconnects), Dial(i) PROVE IInv'
<1>1. reconnects[i] \in Chain /\ dialled' \in Socket /\ dialled' = dialled + 1
  BY ReconnectTypes DEF Dial
<1>2. [reconnects[i] EXCEPT !.opened = dialled + 1] \in Chain
  BY <1>1 DEF Chain
<1>3. reconnects' \in Seq(Chain)
  BY <1>2, ReconnectTypes DEF Dial
<1> QED  BY <1>1, <1>3, ReconnectTypes, ReconnectsInv DEF Dial

LEMMA ReconnectFailsInv ==
  ASSUME IInv, NEW i \in 1..Len(reconnects), ReconnectFails(i)
  PROVE  IInv'
<1>1. reconnects[i] \in Chain
  BY ReconnectTypes
<1>2. CASE reconnects[i].attempt + 1 < Attempts
  <2>1. [attempt |-> reconnects[i].attempt + 1, opened |-> NoSocket] \in Chain
    BY <1>1, <1>2 DEF Chain
  <2>2. /\ reconnects' = [reconnects EXCEPT
               ![i] = [attempt |-> reconnects[i].attempt + 1, opened |-> NoSocket]]
        /\ disconnected' = disconnected
    BY <1>2 DEF ReconnectFails
  <2>3. reconnects' \in Seq(Chain)
    <3>1. reconnects \in Seq(Chain)
      BY ReconnectTypes
    <3> QED  BY <2>1, <2>2, <3>1
  <2> QED  BY <2>2, <2>3, ReconnectTypes, ReconnectsInv DEF ReconnectFails
<1>3. CASE ~(reconnects[i].attempt + 1 < Attempts)
  <2>1. reconnects' \in Seq(Chain) /\ disconnected' \in BOOLEAN
    BY <1>3, ReconnectTypes, Ended DEF ReconnectFails
  <2> QED  BY <2>1, ReconnectTypes, ReconnectsInv DEF ReconnectFails
<1> QED  BY <1>2, <1>3

LEMMA ReconnectInv ==
  ASSUME IInv, NEW i \in 1..Len(reconnects), Reconnect(i)
  PROVE  IInv'
<1>1. reconnects' \in Seq(Chain)
  BY ReconnectTypes, Ended DEF Reconnect
<1>2. Client \in Peer /\ socket[Client] \in Socket
  BY Facts DEF Peer
<1>3. /\ reconnects[i].opened \in Socket /\ {socket[Client]} \in SUBSET Socket
      /\ ReplaceSocket(Client, reconnects[i].opened, {socket[Client]})
  BY <1>2 DEF Reconnect
<1> QED  BY <1>1, <1>2, <1>3, ReplaceInv DEF Reconnect

LEMMA AcceptInv == ASSUME IInv, NEW s \in Socket, Accept(s) PROVE IInv'
<1>1. 1..(s - 1) \in SUBSET Socket
  BY DEF Socket
<1>2. Server \in Peer /\ ReplaceSocket(Server, s, 1..(s - 1)) /\ reconnects' = reconnects
  BY DEF Accept, Peer
<1> QED  BY <1>1, <1>2, ReconnectTypes, ReplaceInv DEF Accept

(* Every step preserves the invariant. *)
LEMMA NextInv == IInv /\ [Next]_vars => IInv'
<1> SUFFICES ASSUME IInv, [Next]_vars PROVE IInv'
  OBVIOUS
<1>1. CASE Peers
  BY <1>1, SendInv, SendKeepAliveInv, GraceExpiresInv, ReadInv DEF Peers
<1>2. CASE Sockets
  BY <1>2, SocketFailsInv, AcceptInv, NoticeCloseInv, AckTimeoutInv, DialInv, ReconnectInv,
     ReconnectFailsInv DEF Sockets
<1>3. CASE UNCHANGED vars
  <2>1. TypeOK'
    BY <1>3 DEF IInv, TypeOK, vars, link
  <2>2. ASSUME NEW p \in Peer PROVE Direction(p)'
    <3>1. Unread(p, socket[p])' <=> Unread(p, socket[p])
      BY <1>3 DEF vars, link, Unread
    <3>2. Direction(p)
      BY DEF IInv
    <3> QED  BY <1>3, <3>1, <3>2 DEF Direction, vars, link
  <2> QED  BY <2>1, <2>2 DEF IInv
<1> QED  BY <1>1, <1>2, <1>3 DEF Next

-----------------------------------------------------------------------------
(* The theorems.                                                           *)

(* The invariant holds in every reachable state. *)
THEOREM InvariantHolds == Spec => []IInv
  BY InitInv, NextInv, PTL DEF Spec

(* The variables keep their types: sockets, frames, acknowledgements and the *)
(* state of every reconnect (send, readMessages, replaceSocket, reconnect).  *)
THEOREM TypeCorrect == Spec => []TypeOK
<1>1. IInv => TypeOK
  BY DEF IInv
<1> QED  BY <1>1, InvariantHolds, PTL

(* A message the other peer has not had is in the replay buffer: no          *)
(* acknowledgement, repeated, late or from before a reconnect, removes one   *)
(* that was not read (processAck).                                           *)
THEOREM NothingIsForgotten == Spec => []NothingForgotten
<1>1. IInv => NothingForgotten
  <2> SUFFICES ASSUME IInv, NEW p \in Peer, NEW id \in (received[Other(p)] + 1)..outgoingMsgId[p]
               PROVE  \E i \in 1..Len(outgoingUnackMsg[p]) : outgoingUnackMsg[p][i].id = id
    BY DEF NothingForgotten
  <2> DEFINE u == outgoingUnackMsg[p]
             n == outgoingMsgId[p]
             r == received[Other(p)]
  <2>1. u \in Seq(Frame) /\ n \in Nat /\ r \in Nat /\ Buffer(u, n, r)
    BY Facts
  <2> HIDE DEF u, n, r
  <2>2. Len(u) \in Nat /\ n <= r + Len(u) /\ \A k \in 1..Len(u) : u[k].id = n - Len(u) + k
    BY <2>1 DEF Buffer
  <2>3. id \in (r + 1)..n
    BY DEF r, n
  <2>4. id - (n - Len(u)) \in 1..Len(u) /\ n - Len(u) + (id - (n - Len(u))) = id
    BY <2>1, <2>2, <2>3
  <2>5. u[id - (n - Len(u))].id = id
    BY <2>2, <2>4
  <2> QED  BY <2>4, <2>5 DEF u
<1> QED  BY <1>1, InvariantHolds, PTL

-----------------------------------------------------------------------------
(* The byte count.                                                         *)

\* f adds up the sizes of the first n entries of a buffer u of p.
Adds(p, u, n, f) ==
  /\ f \in [0..n -> Nat]
  /\ f[0] = 0
  /\ \A i \in 1..n : f[i] = f[i - 1] + Size(p, u[i].id)

\* The entries of u are messages that p sends.
Sized(p, u) == \A i \in 1..Len(u) : Size(p, u[i].id) \in Nat

\* The first m entries of v are those of u after the c-th, and have a size.
Continues(p, u, v, c, m) ==
  \A k \in 1..m : v[k] = u[c + k] /\ Size(p, v[k].id) \in Nat

(* There is such an f for every n. *)
LEMMA AddsExists ==
  ASSUME NEW p \in Peer, NEW u \in Seq(Frame), Sized(p, u), NEW n \in 0..Len(u)
  PROVE  \E f : Adds(p, u, n, f)
<1> DEFINE Bad == {m \in 0..Len(u) : ~\E f : Adds(p, u, m, f)}
<1>0. Len(u) \in Nat
  OBVIOUS
<1> SUFFICES ASSUME Bad # {} PROVE FALSE
  OBVIOUS
<1>1. PICK m \in Bad : \A k \in Bad : m <= k
  <2>1. Bad \subseteq Nat
    BY <1>0
  <2> HIDE DEF Bad
  <2> QED  BY <2>1, LeastNat
<1>2. m \in 0..Len(u) /\ ~\E f : Adds(p, u, m, f)
  BY <1>1
<1>3. m # 0
  <2>1. Adds(p, u, 0, [i \in 0..0 |-> 0])
    BY DEF Adds
  <2> QED  BY <1>2, <2>1
<1>4. m - 1 \in 0..Len(u) /\ m - 1 \notin Bad /\ m \in 1..Len(u) /\ m \in Nat
  <2>1. m - 1 \in 0..Len(u) /\ ~(m <= m - 1) /\ m \in 1..Len(u)
    BY <1>0, <1>2, <1>3
  <2> HIDE DEF Bad
  <2> QED  BY <1>0, <1>1, <2>1
<1>5. PICK f : Adds(p, u, m - 1, f)
  BY <1>4
<1> DEFINE g == [i \in 0..m |-> IF i = m THEN f[m - 1] + Size(p, u[m].id) ELSE f[i]]
<1>6. Size(p, u[m].id) \in Nat
  BY <1>4 DEF Sized
<1>7. f \in [0..(m - 1) -> Nat] /\ f[0] = 0
      /\ \A i \in 1..(m - 1) : f[i] = f[i - 1] + Size(p, u[i].id)
  BY <1>5 DEF Adds
<1> HIDE DEF Bad
<1>8. \A i \in 0..m : i # m => i \in 0..(m - 1)
  BY <1>4
<1>9. f[m - 1] \in Nat
  BY <1>4, <1>7
<1>10. g \in [0..m -> Nat]
  BY <1>6, <1>7, <1>8, <1>9
<1>11. g[0] = 0
  BY <1>3, <1>4, <1>7
<1>12. ASSUME NEW i \in 1..m PROVE g[i] = g[i - 1] + Size(p, u[i].id)
  <2>1. i \in 0..m /\ i - 1 \in 0..m /\ i - 1 # m
    BY <1>4
  <2>2. g[i - 1] = f[i - 1]
    BY <2>1
  <2>3. CASE i = m
    BY <2>1, <2>2, <2>3
  <2>4. CASE i # m
    <3>1. i \in 1..(m - 1)
      BY <1>4, <2>4
    <3> QED  BY <1>7, <2>1, <2>2, <2>4, <3>1
  <2> QED  BY <2>3, <2>4
<1> HIDE DEF g
<1>13. Adds(p, u, m, g)
  BY <1>10, <1>11, <1>12 DEF Adds
<1> QED  BY <1>2, <1>13

(* Adding up entries from the c-th on gives what they add to the first c. *)
LEMMA AddsFrom ==
  ASSUME NEW p \in Peer, NEW u, NEW v, NEW n \in Nat, NEW m \in Nat, NEW c \in Nat, c + m <= n,
         NEW f, Adds(p, u, n, f), NEW g, Adds(p, v, m, g),
         Continues(p, u, v, c, m)
  PROVE  f[c + m] = f[c] + g[m]
<1>0. \A k \in 1..m : v[k] = u[c + k] /\ Size(p, v[k].id) \in Nat
  BY DEF Continues
<1> DEFINE Bad == {k \in 0..m : f[c + k] # f[c] + g[k]}
<1> SUFFICES ASSUME Bad # {} PROVE FALSE
  OBVIOUS
<1>1. PICK k \in Bad : \A j \in Bad : k <= j
  <2>1. Bad \subseteq Nat
    OBVIOUS
  <2> HIDE DEF Bad
  <2> QED  BY <2>1, LeastNat
<1>2. k \in 0..m /\ f[c + k] # f[c] + g[k]
  BY <1>1
<1>3. /\ f \in [0..n -> Nat] /\ \A i \in 1..n : f[i] = f[i - 1] + Size(p, u[i].id)
      /\ g \in [0..m -> Nat] /\ g[0] = 0
      /\ \A i \in 1..m : g[i] = g[i - 1] + Size(p, v[i].id)
  BY DEF Adds
<1>4. k # 0
  <2>1. f[c] \in Nat
    BY <1>3
  <2> QED  BY <1>2, <1>3, <2>1
<1>5. k - 1 \in 0..m /\ k - 1 \notin Bad /\ k \in 1..m /\ c + k \in 1..n /\ (c + k) - 1 = c + (k - 1)
  <2>1. k - 1 \in 0..m /\ ~(k <= k - 1) /\ k \in 1..m /\ c + k \in 1..n
        /\ (c + k) - 1 = c + (k - 1)
    BY <1>2, <1>4
  <2> HIDE DEF Bad
  <2> QED  BY <1>1, <2>1
<1>6. f[c + (k - 1)] = f[c] + g[k - 1]
  BY <1>5
<1> HIDE DEF Bad
<1>7. f[c + k] = f[c + (k - 1)] + Size(p, u[c + k].id)
  BY <1>3, <1>5
<1>8. g[k] = g[k - 1] + Size(p, u[c + k].id)
  BY <1>0, <1>3, <1>5
<1>9. f[c] \in Nat /\ g[k - 1] \in Nat /\ Size(p, u[c + k].id) \in Nat
  <2>1. c \in 0..n /\ v[k] = u[c + k] /\ Size(p, v[k].id) \in Nat
    BY <1>0, <1>5
  <2> QED  BY <1>3, <1>5, <2>1
<1> QED  BY <1>2, <1>6, <1>7, <1>8, <1>9

(* Bytes is what the entries add up to. *)
LEMMA BytesAdds ==
  ASSUME NEW p \in Peer, NEW u \in Seq(Frame), Sized(p, u)
  PROVE  \E f : Adds(p, u, Len(u), f) /\ Bytes(p, u) = f[Len(u)]
<1> DEFINE IsSum(f) == f = [n \in 0..Len(u) |-> IF n = 0 THEN 0 ELSE f[n - 1] + Size(p, u[n].id)]
           upTo == CHOOSE f : IsSum(f)
<1>0. Len(u) \in Nat /\ Len(u) \in 0..Len(u)
  OBVIOUS
<1>1. PICK g : Adds(p, u, Len(u), g)
  BY <1>0, AddsExists
<1>2. IsSum(g)
  <2>1. g \in [0..Len(u) -> Nat] /\ g[0] = 0
        /\ \A i \in 1..Len(u) : g[i] = g[i - 1] + Size(p, u[i].id)
    BY <1>1 DEF Adds
  <2>2. \A i \in 0..Len(u) : i # 0 => i \in 1..Len(u)
    BY <1>0
  <2> QED  BY <2>1, <2>2
<1>3. IsSum(upTo)
  <2> HIDE DEF IsSum
  <2> QED  BY <1>2
<1>4. Bytes(p, u) = upTo[Len(u)]
  BY DEF Bytes
<1> HIDE DEF upTo
<1>5. Adds(p, u, Len(u), upTo)
  <2>1. \A i \in 0..Len(u) : upTo[i] = IF i = 0 THEN 0 ELSE upTo[i - 1] + Size(p, u[i].id)
    BY <1>3
  <2>2. /\ upTo[0] = 0
        /\ \A i \in 1..Len(u) : upTo[i] = upTo[i - 1] + Size(p, u[i].id)
    BY <1>0, <2>1
  <2>3. \A i \in 0..Len(u) : upTo[i] = g[i]
    <3> DEFINE Bad == {k \in 0..Len(u) : upTo[k] # g[k]}
    <3> SUFFICES ASSUME Bad # {} PROVE FALSE
      OBVIOUS
    <3>1. PICK k \in Bad : \A j \in Bad : k <= j
      <4>1. Bad \subseteq Nat
        BY <1>0
      <4> HIDE DEF Bad
      <4> QED  BY <4>1, LeastNat
    <3>2. k \in 0..Len(u) /\ upTo[k] # g[k]
      BY <3>1
    <3>3. k # 0
      BY <1>1, <2>2, <3>2 DEF Adds
    <3>4. k \in 1..Len(u) /\ k - 1 \notin Bad /\ k - 1 \in 0..Len(u)
      <4>1. k \in 1..Len(u) /\ k - 1 \in 0..Len(u) /\ ~(k <= k - 1)
        BY <1>0, <3>2, <3>3
      <4> HIDE DEF Bad
      <4> QED  BY <3>1, <4>1
    <3>5. upTo[k - 1] = g[k - 1]
      BY <3>4
    <3> HIDE DEF Bad
    <3> QED  BY <1>1, <2>2, <3>2, <3>4, <3>5 DEF Adds
  <2>4. g \in [0..Len(u) -> Nat] /\ upTo = [i \in 0..Len(u) |-> upTo[i]]
    BY <1>1, <1>3 DEF Adds
  <2>5. upTo \in [0..Len(u) -> Nat]
    <3>1. \A i \in 0..Len(u) : upTo[i] \in Nat
      BY <2>3, <2>4
    <3> HIDE DEF IsSum
    <3> QED  BY <2>4, <3>1
  <2> QED  BY <2>2, <2>5 DEF Adds
<1> QED  BY <1>4, <1>5

(* An empty buffer has no bytes, any other a number of them. *)
LEMMA BytesNat ==
  ASSUME NEW p \in Peer, NEW u \in Seq(Frame), Sized(p, u)
  PROVE  Bytes(p, u) \in Nat /\ (u = <<>> => Bytes(p, u) = 0)
<1>1. PICK f : Adds(p, u, Len(u), f) /\ Bytes(p, u) = f[Len(u)]
  BY BytesAdds
<1>2. f \in [0..Len(u) -> Nat] /\ f[0] = 0 /\ Len(u) \in 0..Len(u)
  BY <1>1 DEF Adds
<1>3. u = <<>> => Len(u) = 0
  OBVIOUS
<1> QED  BY <1>1, <1>2, <1>3

(* A message that joins the buffer adds its bytes. *)
LEMMA BytesAppend ==
  ASSUME NEW p \in Peer, NEW u \in Seq(Frame), Sized(p, u), NEW e \in Frame, Size(p, e.id) \in Nat
  PROVE  Bytes(p, Append(u, e)) = Bytes(p, u) + Size(p, e.id)
<1> DEFINE v == Append(u, e)
           n == Len(u)
<1>1. v \in Seq(Frame) /\ Len(v) = n + 1 /\ v[n + 1] = e /\ n \in Nat
      /\ \A k \in 1..n : u[k] = v[k]
  OBVIOUS
<1> HIDE DEF v
<1>2. Sized(p, v)
  BY <1>1 DEF Sized
<1>3. PICK f : Adds(p, v, n + 1, f) /\ Bytes(p, v) = f[n + 1]
  BY <1>1, <1>2, BytesAdds
<1>4. PICK g : Adds(p, u, n, g) /\ Bytes(p, u) = g[n]
  BY BytesAdds
<1> HIDE DEF n
<1>5. 0 \in Nat /\ 0 + n <= n + 1 /\ n + 1 \in Nat /\ Continues(p, v, u, 0, n)
  <2>1. \A k \in 1..n : k \in Int /\ 0 + k = k /\ Size(p, u[k].id) \in Nat
    BY DEF Sized, n
  <2> QED  BY <1>1, <2>1 DEF Continues
<1>6. f[0 + n] = f[0] + g[n]
  BY <1>1, <1>3, <1>4, <1>5, AddsFrom
<1>7. f \in [0..(n + 1) -> Nat] /\ f[0] = 0 /\ f[n + 1] = f[n] + Size(p, v[n + 1].id)
  <2>1. n + 1 \in 1..(n + 1) /\ (n + 1) - 1 = n
    BY <1>1
  <2> QED  BY <1>3, <2>1 DEF Adds
<1>8. g[n] \in Nat
  BY <1>1, <1>4 DEF Adds
<1>9. f[n] = g[n]
  BY <1>1, <1>6, <1>7, <1>8
<1> QED  BY <1>1, <1>3, <1>4, <1>7, <1>9 DEF v

(* Bytes of a buffer are those of its first entries and of the rest. *)
LEMMA BytesSplit ==
  ASSUME NEW p \in Peer, NEW u \in Seq(Frame), Sized(p, u), NEW c \in 0..Len(u)
  PROVE  LET front == SubSeq(u, 1, c)
             rest  == SubSeq(u, c + 1, Len(u))
         IN /\ Sized(p, front) /\ Sized(p, rest)
            /\ Bytes(p, front) \in Nat /\ Bytes(p, rest) \in Nat
            /\ Bytes(p, u) = Bytes(p, front) + Bytes(p, rest)
<1> DEFINE front == SubSeq(u, 1, c)
           rest  == SubSeq(u, c + 1, Len(u))
           n == Len(u)
           m == Len(u) - c
<1>1. /\ front \in Seq(Frame) /\ Len(front) = c
      /\ \A k \in 1..c : front[k] = u[k]
  OBVIOUS
<1>2. /\ rest \in Seq(Frame) /\ Len(rest) = m
      /\ \A k \in 1..m : rest[k] = u[c + k]
  OBVIOUS
<1>3. c \in Nat /\ m \in Nat /\ n \in Nat /\ c + m = n /\ c <= n
  OBVIOUS
<1> HIDE DEF front, rest, n, m
<1>4. Sized(p, front) /\ Sized(p, rest)
  <2>1. \A k \in 1..n : Size(p, u[k].id) \in Nat
    BY DEF Sized, n
  <2>2. (\A k \in 1..c : k \in 1..n) /\ (\A k \in 1..m : c + k \in 1..n)
    BY <1>3
  <2> QED  BY <1>1, <1>2, <2>1, <2>2 DEF Sized
<1>5. PICK f : Adds(p, u, n, f) /\ Bytes(p, u) = f[n]
  BY BytesAdds DEF n
<1>6. PICK g : Adds(p, front, c, g) /\ Bytes(p, front) = g[c]
  BY <1>1, <1>4, BytesAdds
<1>7. PICK h : Adds(p, rest, m, h) /\ Bytes(p, rest) = h[m]
  BY <1>2, <1>4, BytesAdds
<1>8. f[0 + c] = f[0] + g[c]
  <2>1. 0 \in Nat /\ 0 + c <= n
    BY <1>3
  <2>2. \A k \in 1..c : front[k] = u[0 + k] /\ Size(p, front[k].id) \in Nat
    <3>1. \A k \in 1..c : 0 + k = k
      BY <1>3
    <3> QED  BY <1>1, <1>4, <3>1 DEF Sized
  <2>3. Continues(p, u, front, 0, c)
    BY <2>2 DEF Continues
  <2> QED  BY <1>3, <1>5, <1>6, <2>1, <2>3, AddsFrom
<1>9. f[c + m] = f[c] + h[m]
  <2>1. c + m <= n /\ Continues(p, u, rest, c, m)
    BY <1>2, <1>3, <1>4 DEF Sized, Continues
  <2> QED  BY <1>2, <1>3, <1>5, <1>7, <2>1, AddsFrom
<1>10. f[0] = 0 /\ g[c] \in Nat /\ h[m] \in Nat
  BY <1>3, <1>5, <1>6, <1>7 DEF Adds
<1>11. Bytes(p, u) = g[c] + h[m]
  BY <1>3, <1>5, <1>8, <1>9, <1>10
<1> QED  BY <1>4, <1>6, <1>7, <1>10, <1>11 DEF front, rest

-----------------------------------------------------------------------------
(* The flow signal.                                                        *)

\* What a peer's count and signal say of its buffer.
Flow(p) ==
  /\ outgoingMsgId[p] <= MaxSent(p)
  /\ unackBytes[p] = Bytes(p, outgoingUnackMsg[p])
  /\ saturated[p] => unackBytes[p] > LowWater
  /\ ~saturated[p] => unackBytes[p] <= HighWater \/ overflowed[p]

FInv == unackBytes \in [Peer -> Nat] /\ \A p \in Peer : Flow(p)

(* Every entry of a replay buffer has a size. *)
LEMMA BufferSized ==
  ASSUME IInv, NEW p \in Peer, outgoingMsgId[p] <= MaxSent(p)
  PROVE  Sized(p, outgoingUnackMsg[p])
<1> DEFINE u == outgoingUnackMsg[p]
           n == outgoingMsgId[p]
<1>1. n \in Nat /\ u \in Seq(Frame) /\ Len(u) \in Nat /\ Len(u) <= n
      /\ \A k \in 1..Len(u) : u[k].id = n - Len(u) + k
  BY Facts DEF Buffer
<1>2. MaxSent(p) \in Nat /\ \A i \in 1..MaxSent(p) : Size(p, i) \in Nat
  BY SizesAreNumbers
<1>3. n <= MaxSent(p)
  OBVIOUS
<1> HIDE DEF u, n
<1>4. \A k \in 1..Len(u) : u[k].id \in 1..MaxSent(p)
  <2>1. \A k \in 1..Len(u) : n - Len(u) + k \in 1..MaxSent(p)
    BY <1>1, <1>2, <1>3
  <2> QED  BY <1>1, <2>1
<1> QED  BY <1>2, <1>4 DEF Sized, u

(* At the start the buffers are empty. *)
LEMMA FlowInit == Init => FInv
<1> SUFFICES ASSUME Init PROVE FInv
  OBVIOUS
<1>1. ASSUME NEW p \in Peer PROVE Flow(p)
  <2>1. <<>> \in Seq(Frame) /\ Sized(p, <<>>)
    BY DEF Sized
  <2>2. Bytes(p, <<>>) = 0
    BY <2>1, BytesNat
  <2>3. MaxSent(p) \in Nat
    BY SizesAreNumbers
  <2> QED  BY <2>2, <2>3, MarksInOrder DEF Init, Flow
<1> QED  BY <1>1 DEF FInv, Init

(* A step that leaves buffer and count alone, and abandons at most. *)
LEMMA FlowKept ==
  ASSUME FInv, TypeOK, overflowed' \in [Peer -> BOOLEAN],
         \A p \in Peer : overflowed[p] => overflowed'[p],
         UNCHANGED <<outgoingMsgId, outgoingUnackMsg, unackBytes, saturated>>
  PROVE  FInv'
BY DEF FInv, Flow

(* A message that is sent. *)
LEMMA FlowSend == ASSUME IInv, FInv, NEW p \in Peer, Send(p) PROVE FInv'
<1> DEFINE u == outgoingUnackMsg[p]
           m == Regular(p)
           b == unackBytes[p] + Size(p, m.id)
<1>1. /\ TypeOK /\ Flow(p) /\ unackBytes \in [Peer -> Nat] /\ u \in Seq(Frame)
      /\ outgoingMsgId[p] \in Nat /\ MaxSent(p) \in Nat /\ LowWater \in Nat /\ HighWater \in Nat
  BY Facts, SizesAreNumbers, MarksInOrder DEF IInv, FInv
<1>2. m \in Frame /\ m.id = outgoingMsgId[p] + 1
  BY <1>1, Made
<1>3. /\ outgoingMsgId \in [Peer -> Nat] /\ outgoingUnackMsg \in [Peer -> Seq(Frame)]
      /\ saturated \in [Peer -> BOOLEAN] /\ overflowed \in [Peer -> BOOLEAN]
  BY <1>1 DEF TypeOK
<1>4. outgoingMsgId[p] + 1 <= MaxSent(p) /\ Size(p, m.id) \in Nat
  <2>1. outgoingMsgId[p] < MaxSent(p)
    BY DEF Send
  <2>2. outgoingMsgId[p] + 1 \in 1..MaxSent(p)
    BY <1>1, <2>1
  <2> QED  BY <1>2, <2>2, SizesAreNumbers
<1>5. /\ outgoingMsgId' = [outgoingMsgId EXCEPT ![p] = m.id]
      /\ outgoingUnackMsg' = [outgoingUnackMsg EXCEPT ![p] = Append(u, m)]
      /\ unackBytes' = [unackBytes EXCEPT ![p] = b]
      /\ overflowed' = [overflowed EXCEPT ![p] = @ \/ ((b > MaxBuffer) /\ ~overflowed[p])]
      /\ saturated' = [saturated EXCEPT ![p] = @ \/ (~(b > MaxBuffer) /\ b > HighWater)]
  BY DEF Send
<1>6. Sized(p, u) /\ unackBytes[p] = Bytes(p, u)
  BY <1>1, BufferSized DEF Flow
<1>7. Bytes(p, Append(u, m)) = b
  BY <1>1, <1>2, <1>4, <1>6, BytesAppend
<1> HIDE DEF u, m
<1>8. b \in Nat /\ unackBytes[p] <= b
  BY <1>1, <1>4
<1> HIDE DEF b
<1>9. /\ outgoingMsgId'[p] = m.id /\ outgoingUnackMsg'[p] = Append(u, m) /\ unackBytes'[p] = b
      /\ overflowed'[p] <=> overflowed[p] \/ (b > MaxBuffer /\ ~overflowed[p])
      /\ saturated'[p] <=> saturated[p] \/ (~(b > MaxBuffer) /\ b > HighWater)
  BY <1>1, <1>3, <1>5
<1>10. Flow(p)'
  <2>1. saturated'[p] => b > LowWater
    BY <1>1, <1>8, <1>9, MarksInOrder DEF Flow
  <2>2. ~saturated'[p] => b <= HighWater \/ overflowed'[p]
    BY <1>1, <1>8, <1>9
  <2>3. outgoingMsgId'[p] <= MaxSent(p)
    BY <1>2, <1>4, <1>9
  <2> QED  BY <1>7, <1>9, <2>1, <2>2, <2>3 DEF Flow
<1>11. ASSUME NEW q \in Peer, q # p PROVE Flow(q)'
  <2>1. /\ outgoingMsgId'[q] = outgoingMsgId[q] /\ outgoingUnackMsg'[q] = outgoingUnackMsg[q]
        /\ unackBytes'[q] = unackBytes[q] /\ overflowed'[q] = overflowed[q]
        /\ saturated'[q] = saturated[q]
    BY <1>1, <1>3, <1>5, <1>11
  <2>2. Flow(q)
    BY DEF FInv
  <2> QED  BY <2>1, <2>2 DEF Flow
<1>12. unackBytes' \in [Peer -> Nat]
  BY <1>1, <1>5, <1>8
<1> QED  BY <1>10, <1>11, <1>12 DEF FInv

(* A frame that is read: what its acknowledgement covers leaves buffer and  *)
(* count together.                                                          *)
LEMMA FlowRead == ASSUME IInv, FInv, NEW p \in Peer, Read(p) PROVE FInv'
<1> DEFINE u == outgoingUnackMsg[p]
           f == Head(wire[socket[p]][Other(p)])
           c == Covered(u, f.ack)
           v == SubSeq(u, c + 1, Len(u))
           b == unackBytes[p] - Bytes(p, SubSeq(u, 1, c))
<1>1. /\ TypeOK /\ Flow(p) /\ unackBytes \in [Peer -> Nat] /\ u \in Seq(Frame)
      /\ outgoingMsgId[p] \in Nat /\ received[Other(p)] \in Nat
      /\ Buffer(u, outgoingMsgId[p], received[Other(p)])
      /\ LowWater \in Nat /\ HighWater \in Nat
  BY Facts, MarksInOrder DEF IInv, FInv
<1>2. f.ack \in Nat
  BY ReadEffect
<1>3. /\ outgoingMsgId \in [Peer -> Nat] /\ outgoingUnackMsg \in [Peer -> Seq(Frame)]
      /\ saturated \in [Peer -> BOOLEAN] /\ overflowed \in [Peer -> BOOLEAN]
  BY <1>1 DEF TypeOK
<1>4. /\ outgoingUnackMsg' = [outgoingUnackMsg EXCEPT ![p] = v]
      /\ unackBytes' = [unackBytes EXCEPT ![p] = b]
      /\ saturated' = [saturated EXCEPT ![p] = @ /\ b > LowWater]
      /\ outgoingMsgId' = outgoingMsgId /\ overflowed' = overflowed
  BY DEF Read, ProcessAck
<1> HIDE DEF f
<1>5. c \in 0..Len(u)
  BY <1>1, <1>2, CoveredPart
<1>6. Sized(p, u) /\ unackBytes[p] = Bytes(p, u)
  BY <1>1, BufferSized DEF Flow
<1>7. /\ Bytes(p, SubSeq(u, 1, c)) \in Nat /\ Bytes(p, v) \in Nat
      /\ Bytes(p, u) = Bytes(p, SubSeq(u, 1, c)) + Bytes(p, v)
  <2> HIDE DEF c, u
  <2> QED  BY <1>1, <1>5, <1>6, BytesSplit
<1>8. b = Bytes(p, v) /\ b \in Nat /\ b <= unackBytes[p]
  <2> HIDE DEF c, u, v
  <2> QED  BY <1>6, <1>7
<1> HIDE DEF u, c, v, b
<1>9. /\ outgoingUnackMsg'[p] = v /\ unackBytes'[p] = b
      /\ saturated'[p] <=> saturated[p] /\ b > LowWater
  BY <1>1, <1>3, <1>4
<1>10. Flow(p)'
  <2>1. ~saturated'[p] => b <= HighWater \/ overflowed[p]
    <3>1. unackBytes[p] \in Nat
      BY <1>1
    <3>2. CASE saturated[p]
      BY <1>1, <1>8, <1>9, <3>2, MarksInOrder
    <3>3. CASE ~saturated[p]
      BY <1>1, <1>8, <3>1, <3>3 DEF Flow
    <3> QED  BY <3>2, <3>3
  <2>2. saturated'[p] => b > LowWater
    BY <1>9
  <2>3. outgoingMsgId[p] <= MaxSent(p)
    BY <1>1 DEF Flow
  <2> QED  BY <1>4, <1>8, <1>9, <2>1, <2>2, <2>3 DEF Flow
<1>11. ASSUME NEW q \in Peer, q # p PROVE Flow(q)'
  <2>1. /\ outgoingUnackMsg'[q] = outgoingUnackMsg[q]
        /\ unackBytes'[q] = unackBytes[q] /\ saturated'[q] = saturated[q]
    BY <1>1, <1>3, <1>4, <1>11
  <2>2. Flow(q)
    BY DEF FInv
  <2> QED  BY <1>4, <2>1, <2>2 DEF Flow
<1>12. unackBytes' \in [Peer -> Nat]
  BY <1>1, <1>4, <1>8
<1> QED  BY <1>10, <1>11, <1>12 DEF FInv

(* Every step keeps the count and the signal right. *)
LEMMA FlowNext == IInv /\ FInv /\ [Next]_vars => FInv'
<1> SUFFICES ASSUME IInv, FInv, [Next]_vars PROVE FInv'
  OBVIOUS
<1>0. TypeOK
  BY DEF IInv
<1>1. ASSUME NEW p \in Peer, Send(p) \/ SendKeepAlive(p) \/ GraceExpires(p) \/ Read(p)
      PROVE  FInv'
  <2>1. CASE Send(p)
    BY <2>1, FlowSend
  <2>2. CASE SendKeepAlive(p)
    BY <1>0, <2>2, FlowKept DEF SendKeepAlive, TypeOK
  <2>3. CASE GraceExpires(p)
    <3>1. overflowed \in [Peer -> BOOLEAN] /\ overflowed' = [overflowed EXCEPT ![p] = TRUE]
          /\ UNCHANGED <<outgoingMsgId, outgoingUnackMsg, unackBytes, saturated>>
      BY <1>0, <2>3 DEF GraceExpires, TypeOK
    <3> QED  BY <1>0, <3>1, FlowKept
  <2>4. CASE Read(p)
    BY <2>4, FlowRead
  <2> QED  BY <1>1, <2>1, <2>2, <2>3, <2>4
<1>2. CASE Peers
  BY <1>1, <1>2 DEF Peers
<1>3. CASE Sockets
  <2>1. UNCHANGED <<outgoingMsgId, outgoingUnackMsg, unackBytes, saturated, overflowed>>
    BY <1>3 DEF Sockets, SocketFails, Accept, NoticeClose, AckTimeout, Dial, Reconnect,
                ReconnectFails
  <2> QED  BY <1>0, <2>1, FlowKept DEF TypeOK
<1>4. CASE UNCHANGED vars
  BY <1>0, <1>4, FlowKept DEF vars, TypeOK
<1> QED  BY <1>2, <1>3, <1>4 DEF Next

(* The flow signal is about what is in the buffer (send, processAck): the    *)
(* count is that of its entries, whatever their sizes and however many an    *)
(* acknowledgement covers, a peer told to pause has more than the low mark   *)
(* left, and one not told no more than the high mark or no session.          *)
THEOREM FlowSignalIsTrue == Spec => []FlowSignalTrue
<1>1. FInv => FlowSignalTrue
  BY DEF FInv, Flow, FlowSignalTrue
<1>2. Init => FInv
  BY FlowInit
<1>3. IInv /\ FInv /\ [Next]_vars => FInv'
  BY FlowNext
<1> QED  BY <1>1, <1>2, <1>3, InvariantHolds, PTL DEF Spec

-----------------------------------------------------------------------------
(* The refinement.                                                         *)

(* A peer that sends does so in the channel. *)
LEMMA SendRefines == ASSUME IInv, NEW p \in Peer, Send(p) PROVE Channel!Send(p)
<1>1. outgoingMsgId' = [outgoingMsgId EXCEPT ![p] = outgoingMsgId[p] + 1] /\ received' = received
  BY SendWrites
<1> QED  BY <1>1 DEF Channel!Send

(* A peer that reads the next message of the other one delivers it; one that *)
(* reads a heartbeat, or a message it has had, does nothing in the channel.  *)
LEMMA ReadRefines ==
  ASSUME IInv, NEW p \in Peer, Read(p)
  PROVE  Channel!Deliver(Other(p)) \/ UNCHANGED Channel!vars
<1> DEFINE q == Other(p)
           f == Head(wire[socket[p]][q])
           delivered == [x \in Peer |-> received[Other(x)]]
<1>1. q \in Peer /\ q # p /\ Other(q) = p /\ TypeOK
  BY OtherPeer DEF IInv
<1>2. /\ IsMsg(f) => f.id \in Nat /\ f.id <= outgoingMsgId[q] /\ f.id <= received[p] + 1
      /\ received' = [received EXCEPT ![p] = IF IsMsg(f) /\ f.id > @ THEN f.id ELSE @]
      /\ outgoingMsgId' = outgoingMsgId
  BY ReadEffect
<1>3. received \in [Peer -> Nat] /\ outgoingMsgId[q] \in Nat
  BY <1>1 DEF TypeOK
<1> HIDE DEF f
<1>4. CASE IsMsg(f) /\ f.id > received[p]
  <2>1. f.id = received[p] + 1 /\ received[p] < outgoingMsgId[q]
    BY <1>2, <1>3, <1>4
  <2>2. received' = [received EXCEPT ![p] = received[p] + 1]
    BY <1>2, <1>4, <2>1
  <2>3. \A x \in Peer : received'[Other(x)] = IF x = q THEN received[p] + 1 ELSE received[Other(x)]
    <3>1. \A x \in Peer : Other(x) \in Peer /\ (Other(x) = p <=> x = q)
      BY OtherPeer
    <3> QED  BY <1>3, <2>2, <3>1
  <2>4. delivered' = [delivered EXCEPT ![q] = @ + 1]
    BY <1>1, <2>3
  <2>5. delivered[q] < outgoingMsgId[q]
    BY <1>1, <2>1
  <2> QED  BY <1>2, <2>4, <2>5 DEF Channel!Deliver
<1>5. CASE ~(IsMsg(f) /\ f.id > received[p])
  <2>1. received' = received
    BY <1>2, <1>3, <1>5
  <2> QED  BY <1>2, <2>1 DEF Channel!vars
<1> QED  BY <1>4, <1>5

(* The other steps do nothing in the channel. *)
LEMMA StepRefines == IInv /\ [Next]_vars => [Channel!Next]_(Channel!vars)
<1> SUFFICES ASSUME IInv, [Next]_vars
             PROVE  Channel!Next \/ UNCHANGED Channel!vars
  OBVIOUS
<1>1. ASSUME NEW p \in Peer, Send(p) \/ SendKeepAlive(p) \/ GraceExpires(p) \/ Read(p)
      PROVE  Channel!Next \/ UNCHANGED Channel!vars
  <2>1. CASE Send(p)
    BY <2>1, SendRefines DEF Channel!Next
  <2>2. CASE SendKeepAlive(p)
    BY <2>2 DEF SendKeepAlive, Channel!vars
  <2>3. CASE GraceExpires(p)
    BY <2>3 DEF GraceExpires, Channel!vars
  <2>4. CASE Read(p)
    BY <2>4, ReadRefines, OtherPeer DEF Channel!Next
  <2> QED  BY <1>1, <2>1, <2>2, <2>3, <2>4
<1>2. CASE Peers
  BY <1>1, <1>2 DEF Peers
<1>3. CASE Sockets
  <2>1. UNCHANGED <<outgoingMsgId, received>>
    BY <1>3 DEF Sockets, SocketFails, Accept, NoticeClose, AckTimeout, Dial, Reconnect,
                ReconnectFails
  <2> QED  BY <2>1 DEF Channel!vars
<1>4. CASE UNCHANGED vars
  BY <1>4 DEF vars, Channel!vars
<1> QED  BY <1>2, <1>3, <1>4 DEF Next

(* The protocol implements the channel: over any number of lost sockets and  *)
(* replays, each peer is handed the other's messages in the order they were  *)
(* sent and without a gap (send, readMessages, replaceSocket).               *)
THEOREM ChannelImplemented == Spec => ImplementsChannel
<1>1. Init => Channel!Init
  <2> SUFFICES ASSUME Init PROVE Channel!Init
    OBVIOUS
  <2>1. \A p \in Peer : received[Other(p)] = 0
    BY OtherPeer DEF Init
  <2> QED  BY <2>1 DEF Init, Channel!Init
<1> QED  BY <1>1, StepRefines, InvariantHolds, PTL DEF Spec, ImplementsChannel, Channel!Spec
=============================================================================
