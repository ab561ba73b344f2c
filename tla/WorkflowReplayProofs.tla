------------------------ MODULE WorkflowReplayProofs ------------------------
(***************************************************************************)
(* Theorems about WorkflowReplay.tla, for any script, any number of lives  *)
(* and whatever interrupts them.                                           *)
(***************************************************************************)
EXTENDS WorkflowReplay, OnceSequencesProofs

-----------------------------------------------------------------------------
(* The invariant.                                                          *)

(* The asks the engine has taken and not yet answered, as pairs of an      *)
(* instance and its call: those in W have a row, the fresh ones do not.    *)
Asked(rs, W, ff) == {<<n, rs[n].call>> : n \in W} \cup UNION {Elems(ff[a]) : a \in Actor}

Waiting == held \cup Elems(live) \cup parked \cup Elems(due)

(* Each branch waits for one thing: its next call to arrive, or the answer *)
(* to the one that arrived last.                                           *)
ScriptFits(Q, po, an, pp) ==
  /\ po \in [Branch -> Nat] /\ an \in [Branch -> Nat]
  /\ \A b \in Branch : an[b] <= po[b] /\ po[b] <= Len(Plan[b])
  /\ pp \in Seq(Branch) /\ Once(pp)
  /\ \A b \in Elems(pp) : po[b] = an[b] /\ an[b] < Len(Plan[b])
  /\ \A q \in Q : q[2] \in Call /\ q[2][2] = po[q[2][1]] /\ po[q[2][1]] = an[q[2][1]] + 1
  /\ \A q, r \in Q : q[2][1] = r[2][1] => q = r

(* An ordinal counts the calls of its site that have arrived.              *)
CallsOf(s, po) == {c \in Call : Target(c).site = s /\ c[2] <= po[c[1]]}

Counted(ord, po) ==
  /\ ord \in [Site -> Nat]
  /\ \A s \in Site : ord[s] = Cardinality(CallsOf(s, po))

(* What waits has arrived, and waits in one place.                         *)
Placed(H, ff, ord) ==
  /\ H \subseteq Instance
  /\ ff \in [Actor -> Seq(Instance \X Call)]
  /\ H \cap Elems(live) = {} /\ H \cap parked = {} /\ H \cap Elems(due) = {}
  /\ \A n \in H : rows[n].status # "none"
  /\ \A n \in H \cup Elems(live) \cup parked \cup Elems(due) : n[2] <= ord[n[1]]
  /\ \A a \in Actor : \A i \in DOMAIN ff[a] :
       /\ rows[ff[a][i][1]].status = "none"
       /\ ff[a][i][1][2] <= ord[ff[a][i][1][1]]
       /\ Target(ff[a][i][2]).actor = a
  /\ \A a \in Actor : \A i, j \in DOMAIN ff[a] : ff[a][i][1] = ff[a][j][1] => i = j
  /\ \A a, d \in Actor : \A i \in DOMAIN ff[a], j \in DOMAIN ff[d] :
       ff[a][i][1] = ff[d][j][1] => a = d

Apart ==
  /\ live \in Seq(Instance) /\ Once(live)
  /\ due \in Seq(Instance) /\ Once(due)
  /\ parked \subseteq Instance
  /\ Elems(live) \cap parked = {} /\ Elems(live) \cap Elems(due) = {}
  /\ parked \cap Elems(due) = {}
  /\ \A n \in Elems(live) : rows[n].status = "running"
  /\ \A n \in parked \cup Elems(due) : rows[n].status = "completed"

RowType == [call: Call \cup {<<>>}, seq: Nat, result: 0..MaxLives,
            status: {"none", "running", "completed"}]

Rows ==
  /\ rows \in [Instance -> RowType]
  /\ \A n \in Instance : IF rows[n].status = "none" THEN rows[n] = NoRow
                                                    ELSE rows[n].call \in Call

Gate ==
  /\ log \in Seq(Instance) /\ Once(log)
  /\ order \in Seq(Instance) /\ Once(order)
  /\ cursor \in 0..Len(order)

History ==
  /\ life \in 1..MaxLives /\ stopped \in BOOLEAN /\ course \in {"kept", "left"}
  /\ told \in [Call -> 0..MaxLives]
  /\ status \in {"running", "completed", "errored"}

(* The rows of an actor are numbered from 0 up to the next number that is  *)
(* given out, settled ones first.                                          *)
Mine(rs, a) == {n \in Instance : rs[n].status # "none" /\ Target(rs[n].call).actor = a}

Top(a) == IF admitSeq[a] <= recorded[a] THEN recorded[a] ELSE admitSeq[a]

NumberedTo(rs, a, top) ==
  /\ \A n \in Mine(rs, a) : rs[n].seq < top
  /\ \A s \in 0..(top - 1) : \E n \in Mine(rs, a) : rs[n].seq = s
  /\ \A m, n \in Mine(rs, a) : rs[m].seq = rs[n].seq => m = n
  /\ \A m, n \in Mine(rs, a) : rs[m].status = "running" /\ rs[n].status = "completed"
                               => rs[m].seq > rs[n].seq

(* The live asks of an actor are its unsettled rows that were admitted, in *)
(* the order of their numbers.                                             *)
Before(rs, m, n) ==
  Target(rs[m].call).actor = Target(rs[n].call).actor => rs[m].seq < rs[n].seq

Ascending(rs, l) == \A i, j \in DOMAIN l : i < j => Before(rs, l[i], l[j])

LiveFits(rs, l, adm) ==
  /\ \A n \in Elems(l) : rs[n].seq < adm[Target(rs[n].call).actor]
  /\ \A n \in Instance :
       rs[n].status = "running" /\ rs[n].seq < adm[Target(rs[n].call).actor] => n \in Elems(l)
  /\ Ascending(rs, l)

Numbers ==
  /\ admitSeq \in [Actor -> Nat] /\ recorded \in [Actor -> Nat]
  /\ \A a \in Actor : NumberedTo(rows, a, Top(a))
  /\ LiveFits(rows, live, admitSeq)

IInv ==
  /\ History /\ Rows /\ Gate /\ Apart /\ Numbers
  /\ Placed(held, fresh, ordinal)
  /\ Counted(ordinal, pos)
  /\ ScriptFits(Asked(rows, Waiting, fresh), pos, answered, pipe)

-----------------------------------------------------------------------------
(* The script.                                                             *)

(* The elements of a sequence are what it is a sequence of.                 *)
LEMMA SeqElems ==
  ASSUME NEW S, NEW s \in Seq(S)
  PROVE  /\ Elems(s) \subseteq S
         /\ DOMAIN s = 1..Len(s) /\ Len(s) \in Nat
         /\ \A T : Elems(s) \subseteq T => s \in Seq(T)
<1>1. DOMAIN s = 1..Len(s) /\ Len(s) \in Nat /\ s \in [1..Len(s) -> S]
  BY LenProperties
<1>2. Elems(s) \subseteq S  BY <1>1 DEF Elems
<1>3. ASSUME NEW T, Elems(s) \subseteq T  PROVE s \in Seq(T)
  <2>1. s \in [1..Len(s) -> T]  BY <1>1, <1>3 DEF Elems
  <2> QED  BY <2>1, <1>1, SeqDef
<1> QED  BY <1>1, <1>2, <1>3

(* A call is a place in a branch's plan.                                    *)
LEMMA CallIsPlace ==
  ASSUME NEW c
  PROVE  /\ c \in Call => /\ c = <<c[1], c[2]>>
                          /\ c[1] \in Branch /\ c[2] \in 1..Len(Plan[c[1]])
                          /\ c[2] \in Nat /\ c # <<>>
                          /\ Target(c).site \in Site /\ Target(c).actor \in Actor
         /\ \A b \in Branch : \A i \in 1..Len(Plan[b]) : <<b, i>> \in Call
<1>1. \A b \in Branch : DOMAIN Plan[b] = 1..Len(Plan[b]) /\ Len(Plan[b]) \in Nat
  BY ScriptAssumption, LenProperties
<1>2. \A b \in Branch : \A i \in 1..Len(Plan[b]) : <<b, i>> \in Call
  BY <1>1 DEF Call
<1>3. ASSUME c \in Call
      PROVE  c = <<c[1], c[2]>> /\ c[1] \in Branch /\ c[2] \in 1..Len(Plan[c[1]])
  BY <1>1, <1>3 DEF Call
<1>4. ASSUME c \in Call  PROVE Target(c).site \in Site /\ Target(c).actor \in Actor
  BY <1>4 DEF Site, Actor
<1>5. c \in Call => c # <<>> /\ c[2] \in Nat  BY <1>1, <1>3
<1> QED  BY <1>2, <1>3, <1>4, <1>5

(* An instance is an ordinal of a site.                                     *)
LEMMA InstanceIsOrdinal ==
  ASSUME NEW n
  PROVE  /\ n \in Instance => /\ n = <<n[1], n[2]>>
                              /\ n[1] \in Site /\ n[2] \in Nat
         /\ \A s \in Site : \A o \in 1..Cardinality({c \in Call : Target(c).site = s}) :
              <<s, o>> \in Instance
<1> DEFINE of(s) == {s} \X (1..Cardinality({c \in Call : Target(c).site = s}))
<1>1. Instance = UNION {of(s) : s \in Site}  BY DEF Instance
<1>2. ASSUME n \in Instance
      PROVE  n = <<n[1], n[2]>> /\ n[1] \in Site /\ n[2] \in Nat
  <2>1. PICK s \in Site : n \in of(s)  BY <1>1, <1>2
  <2>2. n = <<n[1], n[2]>> /\ n[1] = s  BY <2>1
  <2>3. n[2] \in 1..Cardinality({c \in Call : Target(c).site = s})  BY <2>1
  <2> QED  BY <2>2, <2>3
<1>3. ASSUME NEW s \in Site, NEW o \in 1..Cardinality({c \in Call : Target(c).site = s})
      PROVE  <<s, o>> \in Instance
  <2>1. <<s, o>> \in of(s)  OBVIOUS
  <2> QED  BY <1>1, <2>1
<1> QED  BY <1>2, <1>3

(* A script is finite.                                                      *)
LEMMA CallsFinite == IsFiniteSet(Call)
<1>1. IsFiniteSet(Branch)
  <2> DEFINE D == 1..Len(Branches)
  <2>1. DOMAIN Branches = D /\ Len(Branches) \in Nat /\ Branches \in [D -> Branch]
    BY ScriptAssumption, LenProperties
  <2>2. Branches \in Surjection(D, Branch)
    <3>1. \A b \in Branch : \E i \in D : Branches[i] = b  BY <2>1 DEF Branch, Elems
    <3> QED  BY <2>1, <3>1 DEF Surjection
  <2>3. Len(Branches) \in Int /\ 1 \in Int  BY <2>1
  <2>4. IsFiniteSet(D)  BY ONLY <2>3, FS_Interval
  <2> QED  BY <2>2, <2>4, FS_Surjection
<1> DEFINE of == [b \in Branch |-> {<<b, i>> : i \in DOMAIN Plan[b]}]
           T == {of[b] : b \in Branch}
<1>2. \A b \in Branch : IsFiniteSet(of[b])
  <2> TAKE b \in Branch
  <2> DEFINE D == 1..Len(Plan[b])
             f == [i \in D |-> <<b, i>>]
  <2>1. DOMAIN Plan[b] = D /\ Len(Plan[b]) \in Nat
    BY ScriptAssumption, LenProperties
  <2>2. f \in Surjection(D, of[b])  BY <2>1 DEF Surjection
  <2>3. Len(Plan[b]) \in Int /\ 1 \in Int  BY <2>1
  <2>4. IsFiniteSet(D)  BY ONLY <2>3, FS_Interval
  <2> HIDE DEF of, f
  <2> QED  BY <2>2, <2>4, FS_Surjection
<1>3. IsFiniteSet(T)
  <2>1. of \in Surjection(Branch, T)  BY DEF Surjection
  <2> HIDE DEF of, T
  <2> QED  BY <1>1, <2>1, FS_Surjection
<1>4. IsFiniteSet(UNION T)  BY <1>2, <1>3, FS_UNION
<1>5. Call = UNION T  BY DEF Call
<1> QED  BY <1>4, <1>5

-----------------------------------------------------------------------------
(* Answers.                                                                *)

(* Those who are answered go on: they no longer wait for the engine, and    *)
(* their next calls are under way.                                          *)
LEMMA AnswerFits ==
  ASSUME NEW rs, NEW Q, NEW po, NEW p, NEW ns \in Seq(Instance), Once(ns),
         ScriptFits(Q, po, answered, p),
         \A n \in Elems(ns) : <<n, rs[n].call>> \in Q /\ rs[n].result \in 0..MaxLives,
         told \in [Call -> 0..MaxLives],
         Answer(ns, rs, p)
  PROVE  /\ ScriptFits(Q \ {<<n, rs[n].call>> : n \in Elems(ns)}, po, answered', pipe')
         /\ told' \in [Call -> 0..MaxLives]
<1> DEFINE D == 1..Len(ns)
           branches == [i \in DOMAIN ns |-> rs[ns[i]].call[1]]
           calls == [i \in DOMAIN ns |-> rs[ns[i]].call]
           B == {b \in Branch : answered[b] + 1 < Len(Plan[b])}
           gone == {<<n, rs[n].call>> : n \in Elems(ns)}
           more == Those(branches, B)
<1>1. DOMAIN ns = D /\ Len(ns) \in Nat /\ \A i \in D : ns[i] \in Elems(ns)
  BY LenProperties DEF Elems
<1>2. \A b \in Branch : Len(Plan[b]) \in Nat
  BY ScriptAssumption, LenProperties
<1>3. \A i \in D : /\ <<ns[i], rs[ns[i]].call>> \in Q
                   /\ rs[ns[i]].call \in Call
                   /\ branches[i] = rs[ns[i]].call[1] /\ branches[i] \in Branch
                   /\ po[branches[i]] = answered[branches[i]] + 1
  <2> TAKE i \in D
  <2>1. <<ns[i], rs[ns[i]].call>> \in Q  BY <1>1
  <2>2. <<ns[i], rs[ns[i]].call>>[2] = rs[ns[i]].call  OBVIOUS
  <2>3. rs[ns[i]].call \in Call
        /\ po[rs[ns[i]].call[1]] = answered[rs[ns[i]].call[1]] + 1
    BY <2>1, <2>2 DEF ScriptFits
  <2>4. rs[ns[i]].call[1] \in Branch  BY <2>3, CallIsPlace
  <2> QED  BY <1>1, <2>1, <2>3, <2>4
<1>4. \A i, j \in D : branches[i] = branches[j] => i = j
  <2> SUFFICES ASSUME NEW i \in D, NEW j \in D, branches[i] = branches[j]  PROVE i = j
    OBVIOUS
  <2> DEFINE q == <<ns[i], rs[ns[i]].call>>
             r == <<ns[j], rs[ns[j]].call>>
  <2>1. q \in Q /\ r \in Q /\ q[2][1] = r[2][1]  BY <1>3
  <2>2. q = r  BY <2>1 DEF ScriptFits
  <2>3. ns[i] = ns[j]  BY <2>2
  <2> QED  BY <2>3, <1>1 DEF Once
<1>5. branches \in Seq(Branch) /\ Once(branches) /\ DOMAIN branches = D
  <2>1. DOMAIN branches = D  BY <1>1
  <2>2. branches \in [D -> Branch]  BY <1>1, <1>3
  <2> HIDE DEF branches
  <2>3. branches \in Seq(Branch)  BY <2>2, <1>1, SeqDef
  <2> QED  BY <2>1, <2>3, <1>4 DEF Once
<1>6. Elems(branches) = {rs[n].call[1] : n \in Elems(ns)}
  <2>1. Elems(branches) = {branches[i] : i \in D}  BY <1>5 DEF Elems
  <2>2. Elems(ns) = {ns[i] : i \in D}  BY <1>1 DEF Elems
  <2> QED  BY <2>1, <2>2, <1>3
<1>7. \A b \in Branch : answered'[b] = IF b \in Elems(branches) THEN answered[b] + 1
                                                               ELSE answered[b]
  <2> TAKE b \in Branch
  <2> DEFINE I == {i \in DOMAIN ns : branches[i] = b}
  <2>1. answered'[b] = answered[b] + Cardinality(I)  BY DEF Answer
  <2>2. answered[b] \in Nat  BY DEF ScriptFits
  <2>3. CASE b \in Elems(branches)
    <3>1. PICK i \in D : branches[i] = b  BY <2>3, <1>5 DEF Elems
    <3> HIDE DEF branches
    <3>2. I = {i}  BY <3>1, <1>1, <1>4
    <3>3. Cardinality(I) = 1  BY <3>2, FS_Singleton
    <3> QED  BY <2>1, <2>3, <3>3
  <2>4. CASE b \notin Elems(branches)
    <3> HIDE DEF branches
    <3>1. I = {}  BY <2>4, <1>1, <1>5 DEF Elems
    <3>2. Cardinality(I) = 0  BY <3>1, FS_EmptySet
    <3> QED  BY <2>1, <2>2, <2>4, <3>2
  <2> QED  BY <2>3, <2>4
<1>8. answered' \in [Branch -> Nat]
  <2>1. answered' = [b \in Branch |-> answered'[b]]  BY DEF Answer
  <2>2. \A b \in Branch : answered'[b] \in Nat
    <3> HIDE DEF branches
    <3> QED  BY <1>7 DEF ScriptFits
  <2> QED  BY <2>1, <2>2
<1>9. \A b \in Elems(branches) : b \in Branch /\ po[b] = answered[b] + 1
  <2> TAKE b \in Elems(branches)
  <2>1. PICK i \in D : branches[i] = b  BY <1>5 DEF Elems
  <2> QED  BY <2>1, <1>3
<1>10. pipe' = p \o more  BY DEF Answer
<1> HIDE DEF branches
<1>11. more \in Seq(Branch) /\ Elems(more) = Elems(branches) \cap B /\ Once(more)
  BY <1>5, ThoseElems
<1> HIDE DEF more
<1>12. Elems(p) \cap Elems(more) = {}
  <2>1. \A b \in Elems(p) : b \in Branch /\ po[b] = answered[b] /\ answered[b] \in Nat
    BY SeqElems DEF ScriptFits
  <2> QED  BY <2>1, <1>9, <1>11
<1>13. /\ pipe' \in Seq(Branch) /\ Once(pipe')
       /\ Elems(pipe') = Elems(p) \cup (Elems(branches) \cap B)
  BY <1>10, <1>11, <1>12, ConcatOnce DEF ScriptFits
<1>14. ScriptFits(Q \ gone, po, answered', pipe')
  <2>1. \A b \in Branch : answered'[b] <= po[b] /\ po[b] <= Len(Plan[b])
    <3> TAKE b \in Branch
    <3>1. /\ answered[b] \in Nat /\ po[b] \in Nat
          /\ answered[b] <= po[b] /\ po[b] <= Len(Plan[b])
      BY DEF ScriptFits
    <3>2. CASE b \in Elems(branches)
      <4>1. answered'[b] = answered[b] + 1 /\ po[b] = answered[b] + 1  BY <3>2, <1>7, <1>9
      <4> QED  BY <4>1, <3>1
    <3>3. CASE b \notin Elems(branches)
      <4>1. answered'[b] = answered[b]  BY <3>3, <1>7
      <4> QED  BY <4>1, <3>1
    <3> QED  BY <3>2, <3>3
  <2>2. ASSUME NEW b \in Elems(pipe')
        PROVE  po[b] = answered'[b] /\ answered'[b] < Len(Plan[b])
    <3>1. CASE b \in Elems(p)
      <4>1. b \in Branch /\ po[b] = answered[b] /\ answered[b] < Len(Plan[b])
            /\ answered[b] \in Nat
        BY <3>1, SeqElems DEF ScriptFits
      <4>2. b \notin Elems(branches)  BY <4>1, <1>9
      <4> QED  BY <4>1, <4>2, <1>7
    <3>2. CASE b \in Elems(branches) \cap B
      BY <3>2, <1>7, <1>9
    <3> QED  BY <3>1, <3>2, <2>2, <1>13
  <2>3. ASSUME NEW q \in Q \ gone
        PROVE  po[q[2][1]] = answered'[q[2][1]] + 1
    <3>1. q[2] \in Call /\ po[q[2][1]] = answered[q[2][1]] + 1  BY DEF ScriptFits
    <3>2. q[2][1] \in Branch  BY <3>1, CallIsPlace
    <3>3. q[2][1] \notin Elems(branches)
      <4> SUFFICES ASSUME q[2][1] \in Elems(branches)  PROVE FALSE
        OBVIOUS
      <4>1. PICK n \in Elems(ns) : rs[n].call[1] = q[2][1]  BY <1>6
      <4> DEFINE r == <<n, rs[n].call>>
      <4>2. r \in Q /\ r[2][1] = q[2][1] /\ r \in gone  BY <4>1
      <4>3. q = r  BY <4>2 DEF ScriptFits
      <4> QED  BY <4>2, <4>3
    <3> QED  BY <3>1, <3>2, <3>3, <1>7
  <2> QED  BY <2>1, <2>2, <2>3, <1>8, <1>13 DEF ScriptFits
<1>15. told' \in [Call -> 0..MaxLives]
  <2>1. ASSUME NEW c \in Elems(calls)
        PROVE  rs[CHOOSE n \in Elems(ns) : rs[n].call = c].result \in 0..MaxLives
    <3>1. \E n \in Elems(ns) : rs[n].call = c  BY <1>1 DEF Elems
    <3> QED  BY <3>1
  <2> QED  BY <2>1 DEF Answer
<1> QED  BY <1>14, <1>15

-----------------------------------------------------------------------------
(* A life begins.                                                          *)

(* As many rows as numbers.                                                 *)
LEMMA NumberedCount ==
  ASSUME NEW rs, NEW a, NEW top \in Nat, NumberedTo(rs, a, top),
         \A n \in Mine(rs, a) : rs[n].seq \in Nat
  PROVE  /\ IsFiniteSet(Mine(rs, a)) /\ Cardinality(Mine(rs, a)) = top
         /\ {rs[n].seq : n \in Mine(rs, a)} = 0..(top - 1)
<1> DEFINE S == Mine(rs, a)
           T == 0..(top - 1)
           f == [n \in S |-> rs[n].seq]
<1> HIDE DEF S
<1>1. /\ \A n \in S : rs[n].seq \in T
      /\ \A t \in T : \E n \in S : rs[n].seq = t
      /\ \A m, n \in S : rs[m].seq = rs[n].seq => m = n
  BY DEF NumberedTo, S
<1>2. f \in Injection(S, T)  BY <1>1 DEF Injection, IsInjective
<1>3. f \in Surjection(S, T)  BY <1>1 DEF Surjection
<1>4. IsFiniteSet(T) /\ Cardinality(T) = top
  <2>1. 0 \in Int /\ top - 1 \in Int  OBVIOUS
  <2>2. IsFiniteSet(T) /\ Cardinality(T) = IF 0 > top - 1 THEN 0 ELSE top - 1 - 0 + 1
    BY <2>1, FS_Interval
  <2> HIDE DEF T
  <2> QED  BY <2>2
<1>5. {rs[n].seq : n \in S} = T  BY <1>1
<1> HIDE DEF f, T
<1> QED  BY <1>2, <1>3, <1>4, <1>5, FS_Injection DEF S, T

(* What Init and Begin set up.                                              *)
Begun ==
  /\ pos = [b \in Branch |-> 0]
  /\ answered = [b \in Branch |-> 0]
  /\ pipe = Branches
  /\ ordinal = [s \in Site |-> 0]
  /\ admitSeq = [a \in Actor |-> 0]
  /\ recorded \in [Actor -> Nat]
  /\ \A a \in Actor : NumberedTo(rows, a, recorded[a])
  /\ held = {}
  /\ fresh = [a \in Actor |-> <<>>]
  /\ live = <<>>
  /\ log \in Seq(Instance) /\ Once(log)
  /\ order \in Seq(Instance) /\ Once(order)
  /\ cursor = 0
  /\ parked = {}
  /\ due = <<>>

(* A life that begins satisfies the invariant if what it inherits does.     *)
LEMMA BegunFits == Begun /\ History /\ Rows => IInv
<1> SUFFICES ASSUME Begun, History, Rows  PROVE IInv
  OBVIOUS
<1>1. Waiting = {} /\ Elems(live) = {} /\ Elems(due) = {} /\ held = {} /\ parked = {}
  BY EmptyOnce DEF Begun, Waiting
<1>2. \A a \in Actor : fresh[a] = <<>> /\ Elems(fresh[a]) = {} /\ DOMAIN fresh[a] = {}
  BY EmptyOnce DEF Begun
<1>3. Asked(rows, Waiting, fresh) = {}  BY <1>1, <1>2 DEF Asked
<1>4. Apart
  <2>1. live \in Seq(Instance) /\ due \in Seq(Instance)  BY DEF Begun
  <2> QED  BY <2>1, <1>1, EmptyOnce DEF Begun, Apart
<1>5. Gate
  <2>1. Len(order) \in Nat  BY LenProperties DEF Begun
  <2> QED  BY <2>1 DEF Begun, Gate
<1>6. Numbers
  <2>1. admitSeq \in [Actor -> Nat] /\ recorded \in [Actor -> Nat]  BY DEF Begun
  <2>2. \A a \in Actor : NumberedTo(rows, a, Top(a))
    <3> TAKE a \in Actor
    <3>1. admitSeq[a] = 0 /\ recorded[a] \in Nat  BY DEF Begun
    <3>2. Top(a) = recorded[a]  BY <3>1 DEF Top
    <3> QED  BY <3>2 DEF Begun
  <2>3. LiveFits(rows, live, admitSeq)
    <3>1. ASSUME NEW n \in Instance, rows[n].status = "running",
                 rows[n].seq < admitSeq[Target(rows[n].call).actor]
          PROVE  FALSE
      <4>1. rows[n].call \in Call /\ rows[n].seq \in Nat  BY <3>1 DEF Rows, RowType
      <4>2. Target(rows[n].call).actor \in Actor  BY <4>1, CallIsPlace
      <4>3. admitSeq[Target(rows[n].call).actor] = 0  BY <4>2 DEF Begun
      <4> QED  BY <4>1, <4>3, <3>1
    <3>2. DOMAIN live = {}  BY DEF Begun
    <3> QED  BY <3>1, <3>2, <1>1 DEF LiveFits, Ascending
  <2> QED  BY <2>1, <2>2, <2>3 DEF Numbers
<1>7. Placed(held, fresh, ordinal)
  <2>1. fresh \in [Actor -> Seq(Instance \X Call)]  BY DEF Begun
  <2> QED  BY <2>1, <1>1, <1>2 DEF Placed
<1>8. Counted(ordinal, pos)
  <2>1. ASSUME NEW s \in Site  PROVE Cardinality(CallsOf(s, pos)) = 0
    <3>1. ASSUME NEW c \in Call  PROVE ~(c[2] <= pos[c[1]])
      <4>1. c[1] \in Branch /\ c[2] \in 1..Len(Plan[c[1]])  BY CallIsPlace
      <4>2. pos[c[1]] = 0 /\ c[2] >= 1 /\ c[2] \in Int  BY <4>1 DEF Begun
      <4> QED  BY <4>2
    <3>2. CallsOf(s, pos) = {}  BY <3>1 DEF CallsOf
    <3> QED  BY <3>2, FS_EmptySet
  <2> QED  BY <2>1 DEF Counted, Begun
<1>9. ScriptFits(Asked(rows, Waiting, fresh), pos, answered, pipe)
  <2>1. pos \in [Branch -> Nat] /\ answered \in [Branch -> Nat]  BY DEF Begun
  <2>2. \A b \in Branch : Len(Plan[b]) \in Nat /\ 0 < Len(Plan[b])
    BY ScriptAssumption, EmptySeq
  <2>3. \A b \in Branch : pos[b] = 0 /\ answered[b] = 0  BY DEF Begun
  <2>4. pipe \in Seq(Branch) /\ Once(pipe) /\ Elems(pipe) = Branch
    BY ScriptAssumption DEF Begun, Branch
  <2> QED  BY <2>1, <2>2, <2>3, <2>4, <1>3 DEF ScriptFits
<1> QED  BY <1>4, <1>5, <1>6, <1>7, <1>8, <1>9 DEF IInv

(* The first life.                                                          *)
LEMMA InitFits == Init => IInv
<1> SUFFICES ASSUME Init  PROVE IInv
  OBVIOUS
<1>1. History
  <2>1. 1 \in 1..MaxLives /\ 0 \in 0..MaxLives  BY ReplayAssumption
  <2>2. told \in [Call -> 0..MaxLives]  BY <2>1 DEF Init
  <2> QED  BY <2>1, <2>2 DEF Init, History
<1>2. Rows
  <2>1. NoRow \in RowType /\ NoRow.status = "none"
    BY ReplayAssumption DEF NoRow, RowType
  <2> QED  BY <2>1 DEF Init, Rows
<1>3. Begun
  <2>1. ASSUME NEW a \in Actor  PROVE NumberedTo(rows, a, recorded[a])
    <3>1. Mine(rows, a) = {}  BY DEF Init, Mine, NoRow
    <3>2. recorded[a] = 0  BY DEF Init
    <3> QED  BY <3>1, <3>2 DEF NumberedTo
  <2>2. <<>> \in Seq(Instance)  OBVIOUS
  <2> QED  BY <2>1, <2>2, EmptyOnce DEF Init, Begun
<1> QED  BY <1>1, <1>2, <1>3, BegunFits

(* A later one: what it inherits is the journal.                            *)
LEMMA BeginFits ==
  ASSUME Begin(rows', log'), Rows', History', log' \in Seq(Instance), Once(log'),
         \A a \in Actor : Top(a) \in Nat /\ NumberedTo(rows', a, Top(a))
  PROVE  IInv'
<1>1. \A a \in Actor : recorded'[a] = Top(a)
  <2> TAKE a \in Actor
  <2>1. RecordedCount(rows', a) = Cardinality(Mine(rows', a))
    BY DEF RecordedCount, Mine
  <2>2. \A n \in Mine(rows', a) : rows'[n].seq \in Nat
    BY DEF Rows, RowType, Mine
  <2>3. Cardinality(Mine(rows', a)) = Top(a)  BY <2>2, NumberedCount
  <2> QED  BY <2>1, <2>3 DEF Begin
<1>2. order' \in Seq(Instance) /\ Once(order')
  BY ThoseElems DEF Begin, RecoverSettleOrder
<1>3. recorded' \in [Actor -> Nat]  BY <1>1 DEF Begin
<1>4. Begun'
  BY <1>1, <1>2, <1>3 DEF Begin, Begun
<1> QED  BY <1>4, BegunFits, PTL

-----------------------------------------------------------------------------
(* Admission.                                                              *)

(* What is appended comes later.                                            *)
LEMMA AscendingConcat ==
  ASSUME NEW rs, NEW s \in Seq(Instance), NEW t \in Seq(Instance),
         Ascending(rs, s), Ascending(rs, t),
         \A m \in Elems(s), n \in Elems(t) : Before(rs, m, n)
  PROVE  Ascending(rs, s \o t)
<1> DEFINE u == s \o t
<1>1. /\ u \in Seq(Instance) /\ Len(u) = Len(s) + Len(t)
      /\ \A i \in 1..(Len(s) + Len(t)) : u[i] = IF i <= Len(s) THEN s[i] ELSE t[i - Len(s)]
  BY ConcatProperties
<1>2. /\ DOMAIN s = 1..Len(s) /\ DOMAIN t = 1..Len(t) /\ DOMAIN u = 1..(Len(s) + Len(t))
      /\ Len(s) \in Nat /\ Len(t) \in Nat
  BY <1>1, LenProperties
<1> HIDE DEF u
<1> SUFFICES ASSUME NEW i \in DOMAIN u, NEW j \in DOMAIN u, i < j
             PROVE  Before(rs, u[i], u[j])
  BY DEF Ascending, u
<1>3. CASE j <= Len(s)
  <2>1. i \in DOMAIN s /\ j \in DOMAIN s /\ u[i] = s[i] /\ u[j] = s[j]
    BY <1>3, <1>1, <1>2
  <2> QED  BY <2>1 DEF Ascending
<1>4. CASE i > Len(s)
  <2>1. /\ i - Len(s) \in DOMAIN t /\ j - Len(s) \in DOMAIN t
        /\ i - Len(s) < j - Len(s)
        /\ u[i] = t[i - Len(s)] /\ u[j] = t[j - Len(s)]
    BY <1>4, <1>1, <1>2
  <2> QED  BY <2>1 DEF Ascending
<1>5. CASE i <= Len(s) /\ j > Len(s)
  <2>1. /\ i \in DOMAIN s /\ j - Len(s) \in DOMAIN t
        /\ u[i] = s[i] /\ u[j] = t[j - Len(s)]
    BY <1>5, <1>1, <1>2
  <2>2. u[i] \in Elems(s) /\ u[j] \in Elems(t)  BY <2>1 DEF Elems
  <2> QED  BY <2>2
<1> QED  BY <1>3, <1>4, <1>5, <1>2

(* Some in the order of all are in order.                                   *)
LEMMA AscendingThose ==
  ASSUME NEW rs, NEW s \in Seq(Instance), Ascending(rs, s), NEW P
  PROVE  Ascending(rs, Those(s, P))
<1> DEFINE t == Those(s, P)
<1>1. PICK at \in [1..Len(t) -> DOMAIN s] :
        /\ t \in Seq(Instance)
        /\ \A k \in 1..Len(t) : t[k] = s[at[k]] /\ t[k] \in P
        /\ \A k, l \in 1..Len(t) : k < l => at[k] < at[l]
        /\ \A i \in DOMAIN s : s[i] \in P => \E k \in 1..Len(t) : at[k] = i
  BY ThosePlaces
<1> HIDE DEF t
<1>2. DOMAIN t = 1..Len(t)  BY <1>1, LenProperties
<1>3. ASSUME NEW k \in 1..Len(t), NEW l \in 1..Len(t), k < l
      PROVE  Before(rs, t[k], t[l])
  <2>1. at[k] \in DOMAIN s /\ at[l] \in DOMAIN s /\ at[k] < at[l]  BY <1>1, <1>3
  <2>2. Before(rs, s[at[k]], s[at[l]])  BY <2>1 DEF Ascending
  <2> QED  BY <2>2, <1>1
<1> QED  BY <1>2, <1>3 DEF Ascending, t

(* The recorded asks that are released are the next ones by number, and the *)
(* numbers given out so far end where they end or where the journal does.   *)
LEMMA InTurnFits ==
  ASSUME Rows, Numbers, NEW a \in Actor, NEW H \in SUBSET Instance,
         \A n \in H : rows[n].status # "none"
  PROVE  LET s == InTurn(a, H)
             next == admitSeq[a] + Len(s)
         IN /\ s \in Seq(Instance) /\ Once(s) /\ Elems(s) \subseteq H
            /\ \A k \in 1..Len(s) : s[k] \in Mine(rows, a) /\ rows[s[k]].seq = admitSeq[a] + k - 1
            /\ Len(s) \in Nat /\ next \in Nat
            /\ Top(a) = IF next <= recorded[a] THEN recorded[a] ELSE next
<1> DEFINE base == admitSeq[a]
           N(u) == Numbered(a, H, u)
           T == {u \in base..(base + recorded[a]) : N(u) = {}}
           u == FirstMissing(a, H)
           s == InTurn(a, H)
<1>1. base \in Nat /\ recorded[a] \in Nat /\ Top(a) \in Nat
      /\ Top(a) <= base + recorded[a]
  BY DEF Numbers, Top
<1>2. \A v : \A n \in N(v) : n \in H /\ n \in Mine(rows, a) /\ rows[n].seq = v
  BY DEF Numbered, Mine, ActorOf
<1>3. \A n \in Mine(rows, a) : rows[n].seq \in Nat /\ rows[n].seq < Top(a)
  BY DEF Mine, Rows, RowType, Numbers, NumberedTo
<1> HIDE DEF base, N
<1>4. N(base + recorded[a]) = {}
  <2> SUFFICES ASSUME NEW n \in N(base + recorded[a])  PROVE FALSE
    OBVIOUS
  <2> QED  BY <1>1, <1>2, <1>3
<1>5. PICK m \in T : \A v \in T : m <= v
  <2>1. T \subseteq Nat  BY <1>1
  <2>2. base + recorded[a] \in T  BY <1>1, <1>4
  <2> HIDE DEF T
  <2> QED  BY <2>1, <2>2, LeastNat
<1>6. /\ u \in base..(base + recorded[a])
      /\ N(u) = {} /\ \A v \in base..(u - 1) : N(v) # {}
  <2>1. \E v \in base..(base + recorded[a]) :
          N(v) = {} /\ \A w \in base..(v - 1) : N(w) # {}
    <3>1. m \in base..(base + recorded[a]) /\ N(m) = {}  OBVIOUS
    <3>2. ASSUME NEW w \in base..(m - 1)  PROVE N(w) # {}
      <4>1. w \in base..(base + recorded[a]) /\ ~(m <= w)  BY <3>1, <1>1
      <4> QED  BY <4>1, <1>5
    <3> QED  BY <3>1, <3>2
  <2> QED  BY <2>1 DEF FirstMissing, N, base
<1> HIDE DEF T, u
<1> DEFINE len == u - base
<1>7. len \in Nat /\ base + len = u  BY <1>1, <1>6
<1>8. s = [k \in 1..len |-> CHOOSE n \in N(base + k - 1) : TRUE]
  BY DEF InTurn, N, u, base
<1> HIDE DEF s, len
<1>9. ASSUME NEW k \in 1..len
      PROVE  s[k] \in H /\ s[k] \in Mine(rows, a) /\ rows[s[k]].seq = base + k - 1
  <2>1. base + k - 1 \in base..(u - 1)  BY <1>1, <1>7
  <2>2. N(base + k - 1) # {}  BY <2>1, <1>6
  <2>3. s[k] \in N(base + k - 1)  BY <1>8, <2>2
  <2> QED  BY <2>3, <1>2
<1>10. s \in Seq(Instance) /\ Len(s) = len /\ DOMAIN s = 1..len
  <2>1. s \in [1..len -> Instance]  BY <1>8, <1>9
  <2>2. s \in Seq(Instance)  BY <2>1, <1>7, SeqDef
  <2> QED  BY <2>1, <2>2, <1>7, LenProperties
<1>11. Once(s)
  <2> SUFFICES ASSUME NEW k \in 1..len, NEW l \in 1..len, s[k] = s[l]  PROVE k = l
    BY <1>10 DEF Once
  <2>1. base + k - 1 = base + l - 1  BY <1>9
  <2> QED  BY <2>1, <1>1
<1>12. Elems(s) \subseteq H  BY <1>9, <1>10 DEF Elems
<1>13. Top(a) = IF u <= recorded[a] THEN recorded[a] ELSE u
  <2>1. CASE len = 0  BY <2>1, <1>1, <1>7 DEF Top, base
  <2>2. CASE len # 0
    <3>1. 1 \in 1..len /\ len \in 1..len  BY <2>2, <1>7
    <3>2. rows[s[1]].seq = base + 1 - 1 /\ rows[s[1]].seq < Top(a)  BY <3>1, <1>9, <1>3
    <3>3. rows[s[len]].seq = base + len - 1 /\ rows[s[len]].seq < Top(a)
      BY <3>1, <1>9, <1>3
    <3>4. base < Top(a) /\ u <= Top(a)  BY <3>2, <3>3, <1>1, <1>7
    <3>5. Top(a) = recorded[a]  BY <3>4, <1>1 DEF Top, base
    <3> QED  BY <3>4, <3>5, <1>1, <1>7
  <2> QED  BY <2>1, <2>2
<1>14. base + Len(s) = u  BY <1>7, <1>10
<1>15. \A k \in 1..Len(s) : s[k] \in Mine(rows, a) /\ rows[s[k]].seq = base + k - 1
  BY <1>9, <1>10
<1> QED  BY <1>1, <1>7, <1>10, <1>11, <1>12, <1>13, <1>14, <1>15 DEF s, base

(* The rows DrainAdmission writes: one for each fresh ask that is admitted. *)
NewRow(next, new, i) ==
  [call |-> new[i][2], seq |-> next + i - 1, status |-> "running", result |-> 0]

RowsWritten(next, new) ==
  /\ \A i \in DOMAIN new : /\ new[i][1] \in Instance /\ new[i][2] \in Call
                          /\ rows'[new[i][1]] = NewRow(next, new, i)
  /\ \A n \in Instance : rows[n].status # "none" => rows'[n] = rows[n]
  /\ \A n \in Instance : rows'[n] = rows[n] \/ \E i \in DOMAIN new : n = new[i][1]

(* Fresh asks have no row yet, and no instance waits twice.                 *)
AllNew(a, new) ==
  /\ \A i \in DOMAIN new : rows[new[i][1]].status = "none" /\ Target(new[i][2]).actor = a
  /\ \A i, j \in DOMAIN new : new[i][1] = new[j][1] => i = j

(* Rows are added, none is changed.                                         *)
LEMMA RowsAreWritten ==
  ASSUME Rows, NEW a, NEW next \in Nat, NEW new \in Seq(Instance \X Call), AllNew(a, new),
         rows' = [n \in Instance |->
                   IF \E i \in DOMAIN new : new[i][1] = n
                   THEN LET i == CHOOSE i \in DOMAIN new : new[i][1] = n
                        IN [call |-> new[i][2], seq |-> next + i - 1,
                            status |-> "running", result |-> 0]
                   ELSE rows[n]]
  PROVE  RowsWritten(next, new) /\ Rows'
<1>1. /\ DOMAIN new = 1..Len(new) /\ Len(new) \in Nat
      /\ \A i \in DOMAIN new : new[i] \in Instance \X Call
  BY LenProperties, ElementOfSeq
<1>2. \A i \in DOMAIN new : new[i][1] \in Instance /\ new[i][2] \in Call
  BY <1>1
<1>3. \A i \in DOMAIN new : rows'[new[i][1]] = NewRow(next, new, i)
  <2> TAKE i \in DOMAIN new
  <2>1. \E j \in DOMAIN new : new[j][1] = new[i][1]  OBVIOUS
  <2>2. (CHOOSE j \in DOMAIN new : new[j][1] = new[i][1]) = i  BY <2>1 DEF AllNew
  <2> QED  BY <1>2, <2>1, <2>2 DEF NewRow
<1>4. \A n \in Instance : rows'[n] = rows[n] \/ \E i \in DOMAIN new : n = new[i][1]
  OBVIOUS
<1>5. \A n \in Instance : rows[n].status # "none" => rows'[n] = rows[n]
  BY <1>4 DEF AllNew
<1>6. \A i \in DOMAIN new : /\ NewRow(next, new, i) \in RowType
                            /\ NewRow(next, new, i).call \in Call
                            /\ NewRow(next, new, i).status = "running"
  <2> TAKE i \in DOMAIN new
  <2>1. next + i - 1 \in Nat /\ 0 \in 0..MaxLives  BY <1>1, ReplayAssumption
  <2> QED  BY <2>1, <1>2 DEF RowType, NewRow
<1>7. ASSUME NEW n \in Instance
      PROVE  /\ rows'[n] \in RowType
             /\ IF rows'[n].status = "none" THEN rows'[n] = NoRow ELSE rows'[n].call \in Call
  <2>1. CASE rows'[n] = rows[n]  BY <2>1 DEF Rows
  <2>2. CASE \E i \in DOMAIN new : n = new[i][1]
    <3>1. PICK i \in DOMAIN new : n = new[i][1]  BY <2>2
    <3>2. rows'[n] = NewRow(next, new, i)  BY <3>1, <1>3
    <3>3. rows'[n].status = "running" /\ rows'[n].call \in Call  BY <3>2, <1>6
    <3> QED  BY <3>2, <3>3, <1>6
  <2> QED  BY <2>1, <2>2, <1>4
<1>8. rows' \in [Instance -> RowType]  BY <1>7
<1> QED  BY <1>2, <1>3, <1>4, <1>5, <1>7, <1>8 DEF RowsWritten, Rows

(* Fresh asks that are admitted continue the numbers of their actor.        *)
LEMMA NewRowsFit ==
  ASSUME Rows, Numbers, NEW a \in Actor, NEW next \in Nat, NEW new \in Seq(Instance \X Call),
         AllNew(a, new),
         RowsWritten(next, new),
         Top(a) = IF next <= recorded[a] THEN recorded[a] ELSE next,
         new # <<>> => next >= recorded[a],
         admitSeq' = [admitSeq EXCEPT ![a] = next + Len(new)],
         recorded' = recorded
  PROVE  /\ \A d \in Actor : NumberedTo(rows', d, Top(d)')
         /\ admitSeq' \in [Actor -> Nat] /\ recorded' \in [Actor -> Nat]
<1>1. DOMAIN new = 1..Len(new) /\ Len(new) \in Nat
  BY LenProperties
<1>3. \A i \in DOMAIN new : /\ rows'[new[i][1]].seq = next + i - 1
                            /\ rows'[new[i][1]].status = "running"
                            /\ Target(rows'[new[i][1]].call).actor = a
                            /\ new[i][1] \in Instance
  <2> TAKE i \in DOMAIN new
  <2>1. rows'[new[i][1]] = NewRow(next, new, i) /\ new[i][1] \in Instance
    BY DEF RowsWritten
  <2>2. Target(new[i][2]).actor = a  BY DEF AllNew
  <2>3. /\ NewRow(next, new, i).call = new[i][2] /\ NewRow(next, new, i).seq = next + i - 1
        /\ NewRow(next, new, i).status = "running"
    BY DEF NewRow
  <2> QED  BY <2>1, <2>2, <2>3
<1>10. \A d \in Actor : \A n \in Mine(rows', d) :
          n \in Mine(rows, d) \/ (d = a /\ \E i \in DOMAIN new : n = new[i][1])
  <2> SUFFICES ASSUME NEW d \in Actor, NEW n \in Mine(rows', d)
               PROVE  n \in Mine(rows, d) \/ (d = a /\ \E i \in DOMAIN new : n = new[i][1])
    OBVIOUS
  <2>0. n \in Instance /\ rows'[n].status # "none" /\ Target(rows'[n].call).actor = d
    BY DEF Mine
  <2>1. CASE rows'[n] = rows[n]  BY <2>0, <2>1 DEF Mine
  <2>2. CASE \E i \in DOMAIN new : n = new[i][1]
    <3>1. PICK i \in DOMAIN new : n = new[i][1]  BY <2>2
    <3>2. d = a  BY <3>1, <2>0, <1>3
    <3> QED  BY <3>1, <3>2
  <2> QED  BY <2>0, <2>1, <2>2 DEF RowsWritten
<1>11. \A d \in Actor : \A n \in Mine(rows, d) :
          /\ rows'[n] = rows[n] /\ rows[n].seq \in Nat /\ rows[n].seq < Top(d)
          /\ n \in Mine(rows', d)
  BY DEF Mine, Rows, RowType, Numbers, NumberedTo, RowsWritten
<1>2. \A i \in DOMAIN new : new[i][1] \in Mine(rows', a)
  BY <1>3 DEF Mine
<1>12. admitSeq' \in [Actor -> Nat] /\ recorded' \in [Actor -> Nat]
  BY <1>1 DEF Numbers
<1>13. ASSUME NEW d \in Actor, d # a \/ new = <<>>
       PROVE  NumberedTo(rows', d, Top(d)')
  <2>1. Mine(rows', d) = Mine(rows, d)
    <3>1. Mine(rows', d) \subseteq Mine(rows, d)
      <4>1. CASE d # a  BY <4>1, <1>10
      <4>2. CASE new = <<>>
        <5>1. DOMAIN new = {}  BY <4>2
        <5> QED  BY <5>1, <1>10
      <4> QED  BY <4>1, <4>2, <1>13
    <3> QED  BY <3>1, <1>11
  <2>2. Top(d)' = Top(d)
    <3>1. CASE d # a
      <4>1. admitSeq'[d] = admitSeq[d]  BY <3>1 DEF Numbers
      <4> QED  BY <4>1 DEF Top
    <3>2. CASE d = a
      <4>1. Len(new) = 0  BY <3>2, <1>13
      <4>2. admitSeq'[a] = next  BY <4>1 DEF Numbers
      <4> QED  BY <4>2, <3>2 DEF Top
    <3> QED  BY <3>1, <3>2
  <2>3. NumberedTo(rows, d, Top(d))  BY DEF Numbers
  <2> DEFINE M == Mine(rows, d)
             top == Top(d)
  <2>4. NumberedTo(rows', d, top)
    <3>1. \A n \in M : rows'[n] = rows[n]  BY <1>11
    <3> HIDE DEF M, top
    <3> QED  BY <2>1, <2>3, <3>1 DEF NumberedTo, M, top
  <2> QED  BY <2>2, <2>4
<1>14. ASSUME new # <<>>  PROVE NumberedTo(rows', a, Top(a)')
  <2>1. Top(a) = next /\ Len(new) \in Nat \ {0}
    <3>1. recorded[a] \in Nat  BY DEF Numbers
    <3>2. Len(new) \in Nat \ {0}  BY <1>14, EmptySeq
    <3> QED  BY <3>1, <3>2, <1>14
  <2>2. Top(a)' = next + Len(new)
    <3>1. admitSeq'[a] = next + Len(new) /\ recorded[a] \in Nat /\ next >= recorded[a]
      BY <1>14 DEF Numbers
    <3> QED  BY <3>1, <2>1 DEF Top
  <2>3. NumberedTo(rows, a, next)  BY <2>1 DEF Numbers
  <2>4. ASSUME NEW n \in Mine(rows', a)
        PROVE  \/ n \in Mine(rows, a) /\ rows'[n] = rows[n] /\ rows[n].seq \in 0..(next - 1)
               \/ \E i \in 1..Len(new) : /\ n = new[i][1] /\ rows'[n].seq = next + i - 1
                                         /\ rows'[n].status = "running"
    <3>1. CASE n \in Mine(rows, a)
      <4>1. rows'[n] = rows[n] /\ rows[n].seq \in Nat /\ rows[n].seq < next
        BY <3>1, <1>11, <2>1
      <4> QED  BY <3>1, <4>1
    <3>2. CASE \E i \in DOMAIN new : n = new[i][1]
      <4>1. PICK i \in DOMAIN new : n = new[i][1]  BY <3>2
      <4>2. rows'[n].seq = next + i - 1 /\ rows'[n].status = "running"  BY <4>1, <1>3
      <4> QED  BY <4>1, <4>2, <1>1
    <3> QED  BY <3>1, <3>2, <1>10
  <2>5. \A n \in Mine(rows', a) : rows'[n].seq < next + Len(new)
    <3> TAKE n \in Mine(rows', a)
    <3>1. CASE rows'[n] = rows[n] /\ rows[n].seq \in 0..(next - 1)  BY <3>1, <2>1
    <3>2. CASE \E i \in 1..Len(new) : rows'[n].seq = next + i - 1  BY <3>2, <2>1
    <3> QED  BY <3>1, <3>2, <2>4
  <2>6. ASSUME NEW s \in 0..(next + Len(new) - 1)
        PROVE  \E n \in Mine(rows', a) : rows'[n].seq = s
    <3>1. CASE s < next
      <4>1. s \in 0..(next - 1)  BY <3>1
      <4>2. PICK n \in Mine(rows, a) : rows[n].seq = s  BY <4>1, <2>3 DEF NumberedTo
      <4>3. n \in Mine(rows', a) /\ rows'[n].seq = s  BY <4>2, <1>11
      <4> QED  BY <4>3
    <3>2. CASE s >= next
      <4> DEFINE i == s - next + 1
      <4>1. i \in DOMAIN new /\ next + i - 1 = s  BY <3>2, <1>1
      <4> HIDE DEF i
      <4>2. new[i][1] \in Mine(rows', a) /\ rows'[new[i][1]].seq = s
        BY <4>1, <1>2, <1>3
      <4> QED  BY <4>2
    <3> QED  BY <3>1, <3>2
  <2>7. ASSUME NEW m \in Mine(rows', a), NEW n \in Mine(rows', a), rows'[m].seq = rows'[n].seq
        PROVE  m = n
    <3>1. CASE m \in Mine(rows, a) /\ n \in Mine(rows, a)
      BY <3>1, <2>7, <1>11, <2>3 DEF NumberedTo
    <3>2. CASE ~(m \in Mine(rows, a) /\ n \in Mine(rows, a))
      <4>1. ASSUME NEW x \in Mine(rows', a), NEW y \in Mine(rows', a),
                   x \notin Mine(rows, a), rows'[x].seq = rows'[y].seq
            PROVE  x = y
        <5>1. PICK i \in 1..Len(new) : x = new[i][1] /\ rows'[x].seq = next + i - 1
          BY <4>1, <2>4
        <5>2. CASE rows'[y] = rows[y] /\ rows[y].seq \in 0..(next - 1)
          BY <5>1, <5>2, <4>1
        <5>3. CASE \E j \in 1..Len(new) : y = new[j][1] /\ rows'[y].seq = next + j - 1
          <6>1. PICK j \in 1..Len(new) : y = new[j][1] /\ rows'[y].seq = next + j - 1
            BY <5>3
          <6>2. i = j  BY <6>1, <5>1, <4>1
          <6> QED  BY <6>1, <6>2, <5>1
        <5> QED  BY <5>2, <5>3, <2>4
      <4> QED  BY <4>1, <3>2, <2>7
    <3> QED  BY <3>1, <3>2
  <2>8. ASSUME NEW m \in Mine(rows', a), NEW n \in Mine(rows', a),
               rows'[m].status = "running", rows'[n].status = "completed"
        PROVE  rows'[m].seq > rows'[n].seq
    <3>1. n \in Mine(rows, a) /\ rows'[n] = rows[n] /\ rows[n].seq \in 0..(next - 1)
      BY <2>4, <2>8
    <3>2. CASE m \in Mine(rows, a)
      BY <3>1, <3>2, <2>8, <1>11, <2>3 DEF NumberedTo
    <3>3. CASE \E i \in 1..Len(new) : rows'[m].seq = next + i - 1
      BY <3>1, <3>3
    <3> QED  BY <3>2, <3>3, <2>4
  <2> QED  BY <2>2, <2>5, <2>6, <2>7, <2>8 DEF NumberedTo
<1> QED  BY <1>12, <1>13, <1>14

(* The order depends on the rows concerned only.                            *)
LEMMA AscendingSame ==
  ASSUME NEW rs, NEW rt, NEW s \in Seq(Instance), Ascending(rs, s),
         \A n \in Elems(s) : rs[n] = rt[n]
  PROVE  Ascending(rt, s)
<1>1. \A i \in DOMAIN s : s[i] \in Elems(s)  BY DEF Elems
<1>2. ASSUME NEW i \in DOMAIN s, NEW j \in DOMAIN s, i < j  PROVE Before(rt, s[i], s[j])
  <2>1. Before(rs, s[i], s[j])  BY <1>2 DEF Ascending
  <2>2. rs[s[i]] = rt[s[i]] /\ rs[s[j]] = rt[s[j]]  BY <1>1
  <2> QED  BY <2>1, <2>2 DEF Before
<1> QED  BY <1>2 DEF Ascending

LiveAppended(a, H, new) ==
  live' = live \o Those(InTurn(a, H), RunsAgain) \o [i \in DOMAIN new |-> new[i][1]]

(* What DrainAdmission appends to the live asks is what was admitted and    *)
(* has to run.                                                              *)
LEMMA LiveGoesOn ==
  ASSUME Rows, Numbers, Apart, NEW a \in Actor, NEW H \in SUBSET Instance,
         \A n \in H : rows[n].status # "none", H \cap Elems(live) = {},
         NEW next, next = admitSeq[a] + Len(InTurn(a, H)),
         NEW new \in Seq(Instance \X Call), AllNew(a, new),
         RowsWritten(next, new),
         new # <<>> => next >= recorded[a],
         admitSeq' = [admitSeq EXCEPT ![a] = next + Len(new)],
         LiveAppended(a, H, new)
  PROVE  /\ live' \in Seq(Instance) /\ Once(live')
         /\ Elems(live') = Elems(live) \cup (Elems(InTurn(a, H)) \cap RunsAgain)
                            \cup {new[i][1] : i \in DOMAIN new}
         /\ LiveFits(rows', live', admitSeq')
<1> DEFINE s == InTurn(a, H)
           base == admitSeq[a]
           again == Those(s, RunsAgain)
           old == live \o again
           news == [i \in DOMAIN new |-> new[i][1]]
<1>1. /\ s \in Seq(Instance) /\ Once(s) /\ Elems(s) \subseteq H
      /\ \A k \in 1..Len(s) : s[k] \in Mine(rows, a) /\ rows[s[k]].seq = admitSeq[a] + k - 1
      /\ Len(s) \in Nat /\ next \in Nat
      /\ Top(a) = IF next <= recorded[a] THEN recorded[a] ELSE next
  BY InTurnFits
<1>2. DOMAIN new = 1..Len(new) /\ Len(new) \in Nat /\ DOMAIN s = 1..Len(s)
  BY <1>1, LenProperties
<1>0. admitSeq[a] \in Nat /\ recorded[a] \in Nat  BY DEF Numbers
<1> HIDE DEF s
<1>3. /\ admitSeq[a] = base /\ base \in Nat /\ recorded[a] \in Nat
      /\ next \in Nat /\ Len(s) \in Nat
      /\ next = base + Len(s) /\ next >= base
      /\ \A k \in 1..Len(s) : s[k] \in Mine(rows, a) /\ rows[s[k]].seq = base + k - 1
  BY <1>0, <1>1 DEF s
<1> HIDE DEF base
<1>4. again \in Seq(Instance) /\ Elems(again) = Elems(s) \cap RunsAgain /\ Once(again)
  BY <1>1, ThoseElems
<1>5. news \in Seq(Instance) /\ Once(news) /\ Elems(news) = {new[i][1] : i \in DOMAIN new}
      /\ DOMAIN news = DOMAIN new
  <2>1. news \in [1..Len(new) -> Instance]  BY <1>2 DEF RowsWritten
  <2>2. news \in Seq(Instance)  BY <2>1, <1>2, SeqDef
  <2>3. Once(news)  BY DEF Once, AllNew
  <2>4. Elems(news) = {new[i][1] : i \in DOMAIN new}  BY DEF Elems
  <2> QED  BY <2>2, <2>3, <2>4
<1>6. \A n \in Elems(live) : /\ n \in Instance /\ rows[n].status = "running"
                             /\ rows'[n] = rows[n]
                             /\ rows[n].seq \in Nat
                             /\ Target(rows[n].call).actor \in Actor
                             /\ rows[n].seq < admitSeq[Target(rows[n].call).actor]
  <2> TAKE n \in Elems(live)
  <2>1. n \in Instance /\ rows[n].status = "running"  BY SeqElems DEF Apart
  <2>2. rows'[n] = rows[n]  BY <2>1 DEF RowsWritten
  <2>3. rows[n].seq \in Nat /\ rows[n].call \in Call  BY <2>1 DEF Rows, RowType
  <2>4. Target(rows[n].call).actor \in Actor  BY <2>3, CallIsPlace
  <2> QED  BY <2>1, <2>2, <2>3, <2>4 DEF Numbers, LiveFits
<1>7. \A n \in Elems(s) : /\ n \in Instance /\ n \in H /\ rows[n].status # "none"
                          /\ rows'[n] = rows[n]
                          /\ Target(rows[n].call).actor = a
                          /\ rows[n].seq \in base..(next - 1)
  <2> TAKE n \in Elems(s)
  <2>1. PICK k \in 1..Len(s) : s[k] = n  BY <1>2 DEF Elems
  <2>2. n \in Mine(rows, a) /\ rows[n].seq = base + k - 1  BY <2>1, <1>3
  <2>3. n \in Instance /\ rows[n].status # "none" /\ Target(rows[n].call).actor = a
    BY <2>2 DEF Mine
  <2>4. k \in 1..Len(s)  BY <2>1
  <2>5. rows[n].seq \in base..(next - 1)  BY <2>2, <2>4, <1>3
  <2>6. rows'[n] = rows[n]  BY <2>3 DEF RowsWritten
  <2> QED  BY <2>3, <2>5, <2>6, <1>1
<1>8. \A i \in DOMAIN new : /\ rows[new[i][1]].status = "none"
                            /\ rows'[new[i][1]].seq = next + i - 1
                            /\ rows'[new[i][1]].status = "running"
                            /\ Target(rows'[new[i][1]].call).actor = a
  <2> TAKE i \in DOMAIN new
  <2>1. rows'[new[i][1]] = NewRow(next, new, i)  BY DEF RowsWritten
  <2>2. Target(new[i][2]).actor = a /\ rows[new[i][1]].status = "none"  BY DEF AllNew
  <2>3. /\ NewRow(next, new, i).call = new[i][2] /\ NewRow(next, new, i).seq = next + i - 1
        /\ NewRow(next, new, i).status = "running"
    BY DEF NewRow
  <2> QED  BY <2>1, <2>2, <2>3
<1>9. live' = old \o news  BY DEF LiveAppended, s
<1> HIDE DEF again, news
<1>10. old \in Seq(Instance) /\ Elems(old) = Elems(live) \cup Elems(again) /\ Once(old)
  <2>1. Elems(live) \cap Elems(again) = {}  BY <1>4, <1>1
  <2> QED  BY <2>1, <1>4, ConcatOnce DEF Apart
<1> HIDE DEF old
<1>11. /\ live' \in Seq(Instance) /\ Once(live')
       /\ Elems(live') = Elems(live) \cup Elems(again) \cup Elems(news)
  <2>1. \A n \in Elems(old) : rows[n].status # "none"  BY <1>10, <1>4, <1>6, <1>7
  <2>2. \A n \in Elems(news) : rows[n].status = "none"  BY <1>5, <1>8
  <2>3. Elems(old) \cap Elems(news) = {}  BY <2>1, <2>2
  <2> QED  BY <2>3, <1>5, <1>9, <1>10, ConcatOnce
<1>12. \A n \in Elems(old) : /\ rows'[n] = rows[n]
                             /\ rows[n].seq \in Nat
                             /\ Target(rows[n].call).actor = a => rows[n].seq < next
  <2> TAKE n \in Elems(old)
  <2>1. CASE n \in Elems(live)
    <3>1. Target(rows[n].call).actor = a => rows[n].seq < base  BY <2>1, <1>3, <1>6
    <3> QED  BY <3>1, <2>1, <1>6, <1>3, <1>1
  <2>2. CASE n \in Elems(again)
    <3>1. n \in Elems(s)  BY <2>2, <1>4
    <3>2. rows[n].seq \in base..(next - 1)  BY <3>1, <1>7
    <3>3. rows[n].seq \in Nat /\ rows[n].seq < next  BY <3>2, <1>3, <1>1
    <3> QED  BY <3>1, <3>3, <1>7
  <2> QED  BY <2>1, <2>2, <1>10
<1>13. Ascending(rows', live')
  <2>1. Ascending(rows, again)
    <3>1. ASSUME NEW k \in 1..Len(s), NEW l \in 1..Len(s), k < l  PROVE Before(rows, s[k], s[l])
      <4>1. rows[s[k]].seq = base + k - 1 /\ rows[s[l]].seq = base + l - 1
        BY <1>3
      <4> QED  BY <4>1, <3>1, <1>3 DEF Before
    <3>2. Ascending(rows, s)  BY <3>1, <1>2 DEF Ascending
    <3> QED  BY <3>2, <1>1, AscendingThose DEF again
  <2>2. Ascending(rows, old)
    <3>1. ASSUME NEW m \in Elems(live), NEW n \in Elems(again)  PROVE Before(rows, m, n)
      <4>1. n \in Elems(s) /\ rows[n].seq \in base..(next - 1)
            /\ Target(rows[n].call).actor = a
        BY <1>4, <1>7
      <4>2. Target(rows[m].call).actor = a => rows[m].seq < base /\ rows[m].seq \in Nat
        BY <1>3, <1>6
      <4> QED  BY <4>1, <4>2, <1>3 DEF Before
    <3>2. Ascending(rows, live) /\ live \in Seq(Instance)  BY DEF Numbers, LiveFits, Apart
    <3> QED  BY <3>1, <3>2, <2>1, <1>4, AscendingConcat DEF old
  <2>3. Ascending(rows', old)
    <3>1. \A n \in Elems(old) : rows[n] = rows'[n]  BY <1>12
    <3> QED  BY <3>1, <2>2, <1>10, AscendingSame
  <2>4. Ascending(rows', news)
    <3>1. ASSUME NEW i \in DOMAIN new, NEW j \in DOMAIN new, i < j
          PROVE  Before(rows', news[i], news[j])
      <4>1. rows'[new[i][1]].seq = next + i - 1 /\ rows'[new[j][1]].seq = next + j - 1
        BY <1>8
      <4>2. news[i] = new[i][1] /\ news[j] = new[j][1]  BY DEF news
      <4> QED  BY <4>1, <4>2, <3>1, <1>1, <1>2 DEF Before
    <3> QED  BY <3>1, <1>5 DEF Ascending
  <2>5. ASSUME NEW m \in Elems(old), NEW n \in Elems(news)  PROVE Before(rows', m, n)
    <3>1. PICK i \in DOMAIN new : n = new[i][1]  BY <1>5
    <3>2. rows'[n].seq = next + i - 1 /\ Target(rows'[n].call).actor = a /\ i \in 1..Len(new)
      BY <3>1, <1>8, <1>2
    <3>3. rows'[m] = rows[m]  BY <1>12
    <3>4. Target(rows'[m].call).actor = a => rows'[m].seq < next /\ rows'[m].seq \in Nat
      BY <3>3, <1>12
    <3> QED  BY <3>2, <3>4, <1>3, <1>2 DEF Before
  <2> QED  BY <2>3, <2>4, <2>5, <1>5, <1>9, <1>10, AscendingConcat
<1>14. admitSeq'[a] = next + Len(new) /\ \A d \in Actor \ {a} : admitSeq'[d] = admitSeq[d]
  BY DEF Numbers
<1>15. ASSUME NEW n \in Elems(live')
       PROVE  rows'[n].seq < admitSeq'[Target(rows'[n].call).actor]
  <2>1. CASE n \in Elems(news)
    <3>1. PICK i \in DOMAIN new : n = new[i][1]  BY <2>1, <1>5
    <3>2. rows'[n].seq = next + i - 1 /\ Target(rows'[n].call).actor = a /\ i \in 1..Len(new)
      BY <3>1, <1>8, <1>2
    <3> QED  BY <3>2, <1>1, <1>2, <1>14
  <2>2. CASE n \in Elems(old) /\ Target(rows[n].call).actor = a
    <3>1. rows'[n] = rows[n] /\ rows[n].seq \in Nat /\ rows[n].seq < next  BY <2>2, <1>12
    <3>2. admitSeq'[a] = next + Len(new) /\ Len(new) \in Nat  BY <1>14, <1>2
    <3> QED  BY <3>1, <3>2, <2>2, <1>3
  <2>3. CASE n \in Elems(old) /\ Target(rows[n].call).actor # a
    <3>1. n \in Elems(live)  BY <2>3, <1>10, <1>4, <1>7
    <3> QED  BY <3>1, <2>3, <1>6, <1>14
  <2> QED  BY <2>1, <2>2, <2>3, <1>15, <1>10, <1>11
<1>16. ASSUME NEW n \in Instance, rows'[n].status = "running",
              rows'[n].seq < admitSeq'[Target(rows'[n].call).actor]
       PROVE  n \in Elems(live')
  <2>1. CASE \E i \in DOMAIN new : n = new[i][1]
    BY <2>1, <1>5, <1>11
  <2>2. CASE rows'[n] = rows[n]
    <3>1. rows[n].status = "running" /\ rows[n].seq \in Nat /\ rows[n].call \in Call
      BY <2>2, <1>16 DEF Rows, RowType
    <3>2. Target(rows[n].call).actor \in Actor  BY <3>1, CallIsPlace
    <3>3. CASE rows[n].seq < admitSeq[Target(rows[n].call).actor]
      BY <3>1, <3>3, <1>11 DEF Numbers, LiveFits
    <3>4. CASE ~(rows[n].seq < admitSeq[Target(rows[n].call).actor])
      <4>1. Target(rows[n].call).actor = a  BY <3>2, <3>4, <2>2, <1>14, <1>16
      <4>2. n \in Mine(rows, a)  BY <4>1, <3>1 DEF Mine
      <4>3. rows[n].seq < Top(a)  BY <4>2 DEF Numbers, NumberedTo
      <4>4. rows[n].seq >= base /\ rows[n].seq < next + Len(new)
        BY <4>1, <3>1, <3>4, <2>2, <1>3, <1>14, <1>16
      <4>5. rows[n].seq < next
        <5>1. CASE new = <<>>
          <6>1. Len(new) = 0  BY <5>1
          <6> QED  BY <6>1, <4>4, <1>1
        <5>2. CASE new # <<>>
          <6>1. Top(a) = next  BY <5>2, <1>1, <1>3
          <6> QED  BY <6>1, <4>3
        <5> QED  BY <5>1, <5>2
      <4> DEFINE k == rows[n].seq - base + 1
      <4>7. k \in 1..Len(s) /\ rows[n].seq = base + k - 1
        BY <4>4, <4>5, <3>1, <1>3
      <4> HIDE DEF k
      <4>8. s[k] \in Mine(rows, a) /\ rows[s[k]].seq = rows[n].seq  BY <4>7, <1>3
      <4>9. s[k] = n  BY <4>2, <4>8 DEF Numbers, NumberedTo
      <4>10. n \in Elems(s)  BY <4>7, <4>9, <1>2 DEF Elems
      <4>11. n \in RunsAgain  BY <3>1 DEF RunsAgain
      <4> QED  BY <4>10, <4>11, <1>4, <1>11
    <3> QED  BY <3>3, <3>4
  <2> QED  BY <2>1, <2>2 DEF RowsWritten
<1>17. LiveFits(rows', live', admitSeq')  BY <1>13, <1>15, <1>16 DEF LiveFits
<1> QED  BY <1>4, <1>5, <1>11, <1>17 DEF s

-----------------------------------------------------------------------------
(* The gate.                                                               *)

(* An instance has one first settlement.                                    *)
LEMMA RecordFits ==
  ASSUME log \in Seq(Instance), Once(log), NEW ns \in Seq(Instance), Once(ns), Record(ns)
  PROVE  log' \in Seq(Instance) /\ Once(log')
<1> DEFINE t == Those(ns, Instance \ Elems(log))
<1>1. t \in Seq(Instance) /\ Elems(t) = Elems(ns) \cap (Instance \ Elems(log)) /\ Once(t)
  BY ThoseElems
<1>2. log' = log \o t  BY DEF Record
<1> HIDE DEF t
<1>3. Elems(log) \cap Elems(t) = {}  BY <1>1
<1> QED  BY <1>1, <1>2, <1>3, ConcatOnce

(* pump stops at the first place whose answer is not there.                 *)
LEMMA ReachFits ==
  ASSUME Gate, NEW P
  PROVE  /\ Reach(P) \in cursor..Len(order)
         /\ \A i \in (cursor + 1)..Reach(P) : order[i] \in P
         /\ Reach(P) < Len(order) => order[Reach(P) + 1] \notin P
<1> DEFINE T == {k \in cursor..Len(order) : k < Len(order) => order[k + 1] \notin P}
<1>1. cursor \in Nat /\ Len(order) \in Nat /\ cursor <= Len(order)
  BY LenProperties DEF Gate
<1>2. PICK k \in T : \A m \in T : k <= m
  <2>1. T \subseteq Nat /\ Len(order) \in T  BY <1>1
  <2> HIDE DEF T
  <2> QED  BY <2>1, LeastNat
<1>3. \A i \in (cursor + 1)..k : order[i] \in P
  <2> SUFFICES ASSUME NEW i \in (cursor + 1)..k, order[i] \notin P  PROVE FALSE
    OBVIOUS
  <2>1. i - 1 \in cursor..Len(order) /\ (i - 1) + 1 = i /\ ~(k <= i - 1)  BY <1>1, <1>2
  <2>2. i - 1 \in T  BY <2>1
  <2> QED  BY <2>1, <2>2, <1>2
<1>4. \E r \in cursor..Len(order) :
        /\ \A i \in (cursor + 1)..r : order[i] \in P
        /\ r < Len(order) => order[r + 1] \notin P
  BY <1>2, <1>3
<1> QED  BY <1>4 DEF Reach

(* What pump releases is due, what it does not stays parked.                *)
LEMMA PumpFits ==
  ASSUME Gate, due \in Seq(Instance), Once(due), NEW P \in SUBSET Instance,
         P \cap Elems(due) = {}, Pump(P)
  PROVE  /\ order' = order /\ cursor' \in 0..Len(order)
         /\ due' \in Seq(Instance) /\ Once(due')
         /\ parked' \subseteq P
         /\ parked' \cap Elems(due') = {}
         /\ parked' \cup Elems(due') = P \cup Elems(due)
<1> DEFINE r == Reach(P)
           t == SubSeq(order, cursor + 1, r)
           R == {order[i] : i \in (cursor + 1)..r}
<1>1. r \in cursor..Len(order) /\ R \subseteq P  BY ReachFits
<1> HIDE DEF r
<1>2. cursor \in 0..Len(order) /\ Len(order) \in Nat /\ order \in Seq(Instance) /\ Once(order)
  BY LenProperties DEF Gate
<1>3. t \in Seq(Instance) /\ Once(t) /\ Elems(t) = R  BY <1>1, <1>2, SliceOnce
<1>4. cursor' = r /\ parked' = P \ R /\ due' = due \o t /\ order' = order
  BY DEF Pump, r
<1> HIDE DEF t, R
<1>5. /\ due' \in Seq(Instance) /\ Elems(due') = Elems(due) \cup R
      /\ Once(due')
  <2>1. Elems(due) \cap Elems(t) = {}  BY <1>1, <1>3
  <2> QED  BY <2>1, <1>3, <1>4, ConcatOnce
<1>6. cursor' \in 0..Len(order)  BY <1>1, <1>2, <1>4
<1>7. parked' \cap Elems(due') = {} /\ parked' \cup Elems(due') = P \cup Elems(due)
  BY <1>1, <1>4, <1>5
<1> QED  BY <1>4, <1>5, <1>6, <1>7

(* Fewer who wait fit as well.                                              *)
LEMMA FewerFit ==
  ASSUME NEW Q, NEW R \in SUBSET Q, NEW po, NEW an, NEW p, ScriptFits(Q, po, an, p)
  PROVE  ScriptFits(R, po, an, p)
BY DEF ScriptFits

(* After the call has arrived, the drain gives every ask its next place.    *)
LEMMA DrainFits ==
  ASSUME Rows, Numbers, Apart, Gate, told \in [Call -> 0..MaxLives],
         NEW a \in Actor, NEW H, NEW F, NEW p,
         NEW ff, ff = [fresh EXCEPT ![a] = F], fresh \in [Actor -> Seq(Instance \X Call)],
         Placed(H, ff, ordinal'),
         ScriptFits(Asked(rows, H \cup Elems(live) \cup parked \cup Elems(due), ff),
                    pos', answered, p),
         DrainAdmission(a, H, F, p), recorded' = recorded
  PROVE  /\ Rows' /\ Numbers' /\ Apart' /\ Gate' /\ told' \in [Call -> 0..MaxLives]
         /\ Placed(held, fresh, ordinal)'
         /\ ScriptFits(Asked(rows, Waiting, fresh), pos, answered, pipe)'
<1> DEFINE s == InTurn(a, H)
           cached == {n \in Elems(s) : rows[n].status = "completed"}
           atOnce == Those(s, {n \in cached : ~HasPlace(n)})
           next == admitSeq[a] + Len(s)
           new == IF FreshAdmissible(a, next) THEN F ELSE <<>>
           W == H \cup Elems(live) \cup parked \cup Elems(due)
           Q == Asked(rows, W, ff)
           gone == {<<n, rows[n].call>> : n \in Elems(atOnce)}
           P == parked \cup (cached \ Elems(atOnce))
<1>1. /\ admitSeq' = [admitSeq EXCEPT ![a] = next + Len(new)]
      /\ held' = H \ Elems(s)
      /\ fresh' = [fresh EXCEPT ![a] = IF new = <<>> THEN F ELSE <<>>]
      /\ LiveAppended(a, H, new)
      /\ rows' = [n \in Instance |->
                   IF \E i \in DOMAIN new : new[i][1] = n
                   THEN LET i == CHOOSE i \in DOMAIN new : new[i][1] = n
                        IN [call |-> new[i][2], seq |-> next + i - 1,
                            status |-> "running", result |-> 0]
                   ELSE rows[n]]
      /\ Record(atOnce)
      /\ Answer(atOnce, rows, p)
      /\ Pump(P)
  BY DEF DrainAdmission, LiveAppended
<1>2. H \in SUBSET Instance /\ (\A n \in H : rows[n].status # "none")
      /\ H \cap Elems(live) = {}
  BY DEF Placed
<1>3. /\ s \in Seq(Instance) /\ Once(s) /\ Elems(s) \subseteq H
      /\ Len(s) \in Nat /\ next \in Nat
      /\ Top(a) = IF next <= recorded[a] THEN recorded[a] ELSE next
  BY <1>2, InTurnFits
<1>4. F \in Seq(Instance \X Call) /\ new \in Seq(Instance \X Call) /\ ff[a] = F
      /\ \A d \in Actor \ {a} : ff[d] = fresh[d]
  <2>1. ff[a] = F /\ \A d \in Actor \ {a} : ff[d] = fresh[d]  OBVIOUS
  <2>2. F \in Seq(Instance \X Call)  BY <2>1 DEF Placed
  <2> QED  BY <2>1, <2>2
<1>5. AllNew(a, F) /\ AllNew(a, new)
  <2>1. AllNew(a, F)  BY <1>4 DEF Placed, AllNew
  <2> QED  BY <2>1 DEF AllNew
<1>6. new # <<>> => next >= recorded[a] /\ new = F
  BY DEF FreshAdmissible
<1> HIDE DEF next, new, s
<1>7. RowsWritten(next, new) /\ Rows'
  BY <1>1, <1>3, <1>4, <1>5, RowsAreWritten
<1>8. (\A d \in Actor : NumberedTo(rows', d, Top(d)'))
      /\ admitSeq' \in [Actor -> Nat] /\ recorded' \in [Actor -> Nat]
  BY <1>1, <1>3, <1>4, <1>5, <1>6, <1>7, NewRowsFit
<1>9. /\ live' \in Seq(Instance) /\ Once(live')
      /\ Elems(live') = Elems(live) \cup (Elems(s) \cap RunsAgain)
                         \cup {new[i][1] : i \in DOMAIN new}
      /\ LiveFits(rows', live', admitSeq')
  BY <1>1, <1>2, <1>4, <1>5, <1>6, <1>7, LiveGoesOn DEF next, s
<1>10. Numbers'
  BY <1>8, <1>9 DEF Numbers
<1>11. atOnce \in Seq(Instance) /\ Once(atOnce) /\ Elems(atOnce) \subseteq cached
  <2>1. Elems(atOnce) = Elems(s) \cap {n \in cached : ~HasPlace(n)}  BY <1>3, ThoseElems
  <2> QED  BY <2>1, <1>3, ThoseElems
<1> HIDE DEF atOnce
<1>12. /\ order' = order /\ cursor' \in 0..Len(order)
       /\ due' \in Seq(Instance) /\ Once(due')
       /\ parked' \cap Elems(due') = {}
       /\ parked' \cup Elems(due') = P \cup Elems(due)
  <2>1. P \in SUBSET Instance  BY <1>2, <1>3 DEF Apart
  <2>2. P \cap Elems(due) = {}  BY <1>3 DEF Apart, Placed
  <2> HIDE DEF P
  <2>3. due \in Seq(Instance) /\ Once(due) /\ Pump(P)  BY <1>1 DEF Apart
  <2> QED  BY <2>1, <2>2, <2>3, PumpFits
<1>13. Gate'
  <2>1. log' \in Seq(Instance) /\ Once(log')  BY <1>1, <1>11, RecordFits DEF Gate
  <2> QED  BY <2>1, <1>12 DEF Gate
<1>14. \A n \in W : n \in Instance /\ rows[n].status # "none" /\ rows'[n] = rows[n]
  <2>1. \A n \in W : n \in Instance /\ rows[n].status # "none"
    BY <1>2, SeqElems DEF Apart
  <2> QED  BY <2>1, <1>7 DEF RowsWritten
<1>15. \A n \in cached : n \in H /\ rows[n].status = "completed" /\ n \in Elems(s)
  BY <1>3
<1>16. \A i \in DOMAIN new : /\ rows[new[i][1]].status = "none" /\ new[i][1] \in Instance
                            /\ rows'[new[i][1]].status = "running"
                            /\ rows'[new[i][1]].call = new[i][2]
                            /\ new[i] = <<new[i][1], new[i][2]>> /\ new[i] \in Elems(new)
  <2> TAKE i \in DOMAIN new
  <2>1. rows'[new[i][1]] = NewRow(next, new, i) /\ new[i][1] \in Instance
    BY <1>7 DEF RowsWritten
  <2>2. NewRow(next, new, i).call = new[i][2] /\ NewRow(next, new, i).status = "running"
    BY DEF NewRow
  <2>3. rows[new[i][1]].status = "none"  BY <1>5 DEF AllNew
  <2>4. new[i] \in Elems(new)  BY DEF Elems
  <2>5. new[i] \in Instance \X Call  BY <1>4, <2>4, SeqElems
  <2> QED  BY <2>1, <2>2, <2>3, <2>4, <2>5
<1> HIDE DEF cached, P
<1>17. parked' \cup Elems(due') = parked \cup Elems(due) \cup (cached \ Elems(atOnce))
  BY <1>12 DEF P
<1>18. Apart'
  <2>1. \A n \in Elems(live') : rows'[n].status = "running"
    <3>1. \A n \in Elems(live) : rows'[n].status = "running"  BY <1>14 DEF Apart
    <3>2. \A n \in Elems(s) \cap RunsAgain : rows'[n].status = "running"
      BY <1>3, <1>14 DEF RunsAgain
    <3> QED  BY <3>1, <3>2, <1>9, <1>16
  <2>2. \A n \in parked' \cup Elems(due') : rows'[n].status = "completed" /\ n \in Instance
    BY <1>14, <1>15, <1>17 DEF Apart
  <2> QED  BY <2>1, <2>2, <1>9, <1>12 DEF Apart
<1>19. \A d \in Actor : \A i \in DOMAIN fresh'[d] :
         /\ i \in DOMAIN ff[d] /\ fresh'[d][i] = ff[d][i]
         /\ rows'[ff[d][i][1]].status = "none"
         /\ ff[d][i] \in Elems(ff[d])
  <2> SUFFICES ASSUME NEW d \in Actor, NEW i \in DOMAIN fresh'[d]
               PROVE  /\ i \in DOMAIN ff[d] /\ fresh'[d][i] = ff[d][i]
                      /\ rows'[ff[d][i][1]].status = "none"
                      /\ ff[d][i] \in Elems(ff[d])
    OBVIOUS
  <2>1. fresh'[d] = ff[d] /\ (d = a => new = <<>>)
    <3>1. CASE d = a
      <4>1. fresh'[a] = IF new = <<>> THEN F ELSE <<>>  BY <1>1
      <4> QED  BY <4>1, <3>1, <1>4
    <3>2. CASE d # a  BY <3>2, <1>1, <1>4
    <3> QED  BY <3>1, <3>2
  <2>2. ff[d][i][1] \in Instance /\ ff[d][i] \in Elems(ff[d])
    <3>1. ff[d] \in Seq(Instance \X Call) /\ i \in DOMAIN ff[d]  BY <2>1 DEF Placed
    <3>2. ff[d][i] \in Elems(ff[d])  BY <3>1 DEF Elems
    <3>3. ff[d][i] \in Instance \X Call  BY <3>1, <3>2, SeqElems
    <3> QED  BY <3>2, <3>3
  <2>3. rows[ff[d][i][1]].status = "none"  BY <2>1 DEF Placed
  <2>4. ASSUME NEW j \in DOMAIN new, ff[d][i][1] = new[j][1]  PROVE FALSE
    <3>1. new # <<>> /\ new = F  BY <1>6, <2>4
    <3>2. d = a
      <4>1. i \in DOMAIN ff[d] /\ j \in DOMAIN ff[a] /\ ff[d][i][1] = ff[a][j][1]
        BY <2>1, <2>4, <3>1, <1>4
      <4> QED  BY <4>1 DEF Placed
    <3> QED  BY <3>1, <3>2, <2>1
  <2>5. rows'[ff[d][i][1]] = rows[ff[d][i][1]]  BY <2>2, <2>4, <1>7 DEF RowsWritten
  <2> QED  BY <2>1, <2>2, <2>3, <2>5
<1>20. fresh' \in [Actor -> Seq(Instance \X Call)]
  <2>1. <<>> \in Seq(Instance \X Call)  OBVIOUS
  <2> QED  BY <2>1, <1>1, <1>4
<1>21. Elems(live') \cup parked' \cup Elems(due') \subseteq W \cup {new[i][1] : i \in DOMAIN new}
  BY <1>3, <1>9, <1>15, <1>17
<1>22. Placed(held, fresh, ordinal)'
  <2>1. held' \subseteq H  BY <1>1
  <2>2. held' \cap Elems(live') = {}
    <3>1. \A i \in DOMAIN new : new[i][1] \notin H  BY <1>2, <1>16
    <3> QED  BY <3>1, <1>1, <1>2, <1>9
  <2>3. held' \cap parked' = {} /\ held' \cap Elems(due') = {}
    <3>1. \A n \in held' : n \notin parked /\ n \notin Elems(due) /\ n \notin Elems(s)
      BY <1>1 DEF Placed
    <3> QED  BY <3>1, <1>15, <1>17
  <2>4. \A n \in held' : rows'[n].status # "none"  BY <2>1, <1>2, <1>14
  <2>5. \A n \in held' \cup Elems(live') \cup parked' \cup Elems(due') : n[2] <= ordinal'[n[1]]
    <3>1. \A n \in W : n[2] <= ordinal'[n[1]]  BY DEF Placed
    <3>2. \A i \in DOMAIN new : new[i][1][2] <= ordinal'[new[i][1][1]]
      <4> TAKE i \in DOMAIN new
      <4>1. new = F /\ i \in DOMAIN ff[a] /\ ff[a][i] = new[i]  BY <1>4, <1>6
      <4> QED  BY <4>1 DEF Placed
    <3> QED  BY <2>1, <3>1, <3>2, <1>21
  <2>6. \A d \in Actor : \A i \in DOMAIN fresh'[d] :
          /\ rows'[fresh'[d][i][1]].status = "none"
          /\ fresh'[d][i][1][2] <= ordinal'[fresh'[d][i][1][1]]
          /\ Target(fresh'[d][i][2]).actor = d
    <3> SUFFICES ASSUME NEW d \in Actor, NEW i \in DOMAIN fresh'[d]
                 PROVE  /\ rows'[ff[d][i][1]].status = "none"
                        /\ ff[d][i][1][2] <= ordinal'[ff[d][i][1][1]]
                        /\ Target(ff[d][i][2]).actor = d
      BY <1>19
    <3>1. i \in DOMAIN ff[d] /\ rows'[ff[d][i][1]].status = "none"  BY <1>19
    <3> QED  BY <3>1 DEF Placed
  <2>7. \A d \in Actor : \A i, j \in DOMAIN fresh'[d] :
          fresh'[d][i][1] = fresh'[d][j][1] => i = j
    <3> SUFFICES ASSUME NEW d \in Actor, NEW i \in DOMAIN fresh'[d], NEW j \in DOMAIN fresh'[d],
                        fresh'[d][i][1] = fresh'[d][j][1]
                 PROVE  i = j
      OBVIOUS
    <3>1. i \in DOMAIN ff[d] /\ j \in DOMAIN ff[d] /\ ff[d][i][1] = ff[d][j][1]  BY <1>19
    <3> QED  BY <3>1 DEF Placed
  <2>8. \A d, e \in Actor : \A i \in DOMAIN fresh'[d], j \in DOMAIN fresh'[e] :
          fresh'[d][i][1] = fresh'[e][j][1] => d = e
    <3> SUFFICES ASSUME NEW d \in Actor, NEW e \in Actor,
                        NEW i \in DOMAIN fresh'[d], NEW j \in DOMAIN fresh'[e],
                        fresh'[d][i][1] = fresh'[e][j][1]
                 PROVE  d = e
      OBVIOUS
    <3>1. i \in DOMAIN ff[d] /\ j \in DOMAIN ff[e] /\ ff[d][i][1] = ff[e][j][1]  BY <1>19
    <3> QED  BY <3>1 DEF Placed
  <2> QED  BY <2>1, <2>2, <2>3, <2>4, <2>5, <2>6, <2>7, <2>8, <1>2, <1>20 DEF Placed
<1>23. /\ ScriptFits(Q \ gone, pos', answered', pipe')
       /\ told' \in [Call -> 0..MaxLives]
  <2>1. \A n \in Elems(atOnce) : <<n, rows[n].call>> \in Q /\ rows[n].result \in 0..MaxLives
    <3> TAKE n \in Elems(atOnce)
    <3>1. n \in W  BY <1>11, <1>15
    <3>2. <<n, rows[n].call>> \in Q  BY <3>1 DEF Asked
    <3>3. rows[n] \in RowType  BY <3>1, <1>14 DEF Rows
    <3> QED  BY <3>2, <3>3 DEF RowType
  <2> HIDE DEF Q
  <2>2. ScriptFits(Q, pos', answered, p)  BY DEF Q
  <2> QED  BY <2>1, <2>2, <1>1, <1>11, AnswerFits
<1>24. Asked(rows, Waiting, fresh)' \subseteq Q \ gone
  <2>1. ASSUME NEW n \in Waiting'  PROVE <<n, rows'[n].call>> \in Q \ gone
    <3>1. CASE n \in W /\ n \notin Elems(atOnce)
      <4>1. <<n, rows'[n].call>> \in Q  BY <3>1, <1>14 DEF Asked
      <4> QED  BY <4>1, <3>1
    <3>2. CASE \E i \in DOMAIN new : n = new[i][1]
      <4>1. PICK i \in DOMAIN new : n = new[i][1]  BY <3>2
      <4>2. new = F /\ <<n, rows'[n].call>> = new[i] /\ new[i] \in Elems(new)
        BY <4>1, <1>6, <1>16
      <4>3. new[i] \in Q  BY <4>2, <1>4 DEF Asked
      <4>4. n \notin Elems(atOnce)  BY <4>1, <1>11, <1>15, <1>16
      <4> QED  BY <4>2, <4>3, <4>4
    <3>3. (n \in W /\ n \notin Elems(atOnce)) \/ \E i \in DOMAIN new : n = new[i][1]
      <4>1. CASE n \in held'
        BY <4>1, <1>1, <1>11, <1>15
      <4>2. CASE n \in Elems(live')
        <5>1. \A m \in Elems(atOnce) : rows[m].status = "completed" /\ m \in H
          BY <1>11, <1>15
        <5>2. \A m \in Elems(live) : rows[m].status = "running"  BY DEF Apart
        <5>3. \A m \in Elems(s) \cap RunsAgain : rows[m].status = "running"  BY DEF RunsAgain
        <5> QED  BY <4>2, <5>1, <5>2, <5>3, <1>3, <1>9
      <4>3. CASE n \in parked' \cup Elems(due')
        <5>1. \A m \in Elems(atOnce) : m \notin parked /\ m \notin Elems(due)
          BY <1>11, <1>15 DEF Placed
        <5> QED  BY <4>3, <5>1, <1>15, <1>17
      <4> QED  BY <2>1, <4>1, <4>2, <4>3 DEF Waiting
    <3> QED  BY <3>1, <3>2, <3>3
  <2>2. ASSUME NEW d \in Actor, NEW q \in Elems(fresh'[d])  PROVE q \in Q \ gone
    <3>1. PICK i \in DOMAIN fresh'[d] : fresh'[d][i] = q  BY <2>2 DEF Elems
    <3>2. q \in Elems(ff[d]) /\ rows'[q[1]].status = "none"  BY <3>1, <1>19
    <3>3. q \in Q  BY <3>2 DEF Asked
    <3>4. q \notin gone
      <4> SUFFICES ASSUME NEW n \in Elems(atOnce), q = <<n, rows[n].call>>  PROVE FALSE
        OBVIOUS
      <4>1. n \in W  BY <1>11, <1>15
      <4> QED  BY <4>1, <3>2, <1>14
    <3> QED  BY <3>3, <3>4
  <2> HIDE DEF Q, gone
  <2> QED  BY <2>1, <2>2 DEF Asked
<1>25. ScriptFits(Asked(rows, Waiting, fresh), pos, answered, pipe)'
  <2> HIDE DEF Q, gone
  <2> QED  BY <1>23, <1>24, FewerFit
<1> QED  BY <1>7, <1>10, <1>13, <1>18, <1>22, <1>23, <1>25

-----------------------------------------------------------------------------
(* Steps.                                                                  *)

(* The call that arrives is the next of its branch and takes an instance    *)
(* that nothing waits for.                                                  *)
LEMMA ArriveFits ==
  ASSUME IInv, Arrive
  PROVE  LET n == Arriving.instance
             c == Arriving.call
         IN /\ n \in Instance /\ c \in Call /\ n[2] = ordinal'[n[1]]
            /\ \A m \in Waiting : m # n
            /\ \A a \in Actor : \A i \in DOMAIN fresh[a] : fresh[a][i][1] # n
            /\ \A s \in Site : ordinal[s] \in Nat /\ ordinal'[s] \in Nat
                              /\ ordinal[s] <= ordinal'[s]
            /\ Counted(ordinal', pos')
            /\ ScriptFits(Asked(rows, Waiting, fresh) \cup {<<n, c>>}, pos', answered, Tail(pipe))
<1> DEFINE b == Head(pipe)
           c == <<b, pos[b] + 1>>
           s == Target(c).site
           n == <<s, ordinal[s] + 1>>
           Q == Asked(rows, Waiting, fresh)
<1>1. Arriving.instance = n /\ Arriving.call = c  BY DEF Arriving
<1>2. /\ pipe # <<>> /\ ordinal' = [ordinal EXCEPT ![s] = ordinal[s] + 1]
      /\ pos' = [pos EXCEPT ![b] = pos[b] + 1]
  BY <1>1 DEF Arrive
<1>3. ScriptFits(Q, pos, answered, pipe)  BY DEF IInv
<1>4. /\ b \in Branch /\ b \in Elems(pipe) /\ Tail(pipe) \in Seq(Branch) /\ Once(Tail(pipe))
      /\ Elems(Tail(pipe)) = Elems(pipe) \ {b}
  BY <1>2, <1>3, TailOnce DEF ScriptFits
<1>5. pos[b] = answered[b] /\ answered[b] < Len(Plan[b]) /\ pos[b] \in Nat
  BY <1>3, <1>4 DEF ScriptFits
<1>6. Len(Plan[b]) \in Nat  BY <1>4, ScriptAssumption, LenProperties
<1>7. c \in Call /\ s \in Site /\ c[1] = b /\ c[2] = pos[b] + 1
  <2>1. pos[b] + 1 \in 1..Len(Plan[b])  BY <1>5, <1>6
  <2>2. c \in Call  BY <1>4, <2>1, CallIsPlace
  <2>3. s \in Site
    <3> HIDE DEF c
    <3> QED  BY <2>2, CallIsPlace
  <2> QED  BY <2>2, <2>3
<1>8. ordinal \in [Site -> Nat] /\ pos \in [Branch -> Nat]  BY <1>3 DEF IInv, Counted, ScriptFits
<1> HIDE DEF b
<1>9. \A d \in Call : d[2] <= pos'[d[1]] <=> (d[2] <= pos[d[1]] \/ d = c)
  <2> TAKE d \in Call
  <2>1. d = <<d[1], d[2]>> /\ d[1] \in Branch /\ d[2] \in Nat  BY CallIsPlace
  <2>2. CASE d[1] = b
    <3>1. pos'[d[1]] = pos[b] + 1  BY <2>2, <1>2, <1>4, <1>8
    <3>2. d = c <=> d[2] = pos[b] + 1  BY <2>1, <2>2, <1>7
    <3> HIDE DEF c
    <3> QED  BY <2>1, <2>2, <3>1, <3>2, <1>5
  <2>3. CASE d[1] # b
    <3>1. pos'[d[1]] = pos[d[1]]  BY <2>1, <2>3, <1>2, <1>8
    <3>2. d # c  BY <2>3, <1>7
    <3> HIDE DEF c
    <3> QED  BY <3>1, <3>2
  <2> QED  BY <2>2, <2>3
<1> HIDE DEF c, s
<1>10. \A t \in Site : CallsOf(t, pos') = IF t = s THEN CallsOf(t, pos) \cup {c} ELSE CallsOf(t, pos)
  BY <1>7, <1>9 DEF CallsOf, s
<1>11. c \notin CallsOf(s, pos)  BY <1>5, <1>7 DEF CallsOf
<1>12. \A t \in Site : IsFiniteSet(CallsOf(t, pos)) /\ IsFiniteSet(CallsOf(t, pos'))
  <2> TAKE t \in Site
  <2>1. CallsOf(t, pos) \in SUBSET Call /\ CallsOf(t, pos') \in SUBSET Call  BY DEF CallsOf
  <2> QED  BY <2>1, CallsFinite, FS_Subset
<1>13. \A t \in Site : ordinal[t] = Cardinality(CallsOf(t, pos))  BY DEF IInv, Counted
<1>14. Counted(ordinal', pos')
  <2>1. ASSUME NEW t \in Site  PROVE ordinal'[t] = Cardinality(CallsOf(t, pos'))
    <3>1. CASE t = s
      <4>1. ordinal'[t] = ordinal[s] + 1  BY <3>1, <1>2, <1>7, <1>8
      <4>2. Cardinality(CallsOf(s, pos) \cup {c}) = Cardinality(CallsOf(s, pos)) + 1
        BY <1>7, <1>11, <1>12, FS_AddElement
      <4>3. CallsOf(t, pos') = CallsOf(s, pos) \cup {c}  BY <3>1, <1>7, <1>10
      <4> QED  BY <3>1, <4>1, <4>2, <4>3, <1>7, <1>13
    <3>2. CASE t # s
      <4>1. ordinal'[t] = ordinal[t]  BY <3>2, <1>2, <1>8
      <4>2. CallsOf(t, pos') = CallsOf(t, pos)  BY <3>2, <1>10
      <4> QED  BY <4>1, <4>2, <1>13
    <3> QED  BY <3>1, <3>2
  <2>2. ordinal' \in [Site -> Nat]  BY <1>2, <1>7, <1>8
  <2> QED  BY <2>1, <2>2 DEF Counted
<1>15. n \in Instance
  <2> DEFINE all == {d \in Call : Target(d).site = s}
  <2>1. CallsOf(s, pos') \in SUBSET all  BY DEF CallsOf
  <2>2. all \in SUBSET Call  OBVIOUS
  <2>3. IsFiniteSet(all)  BY <2>2, CallsFinite, FS_Subset
  <2>4. Cardinality(CallsOf(s, pos')) <= Cardinality(all)  BY <2>1, <2>3, FS_Subset
  <2>5. Cardinality(all) \in Nat  BY <2>3, FS_CardinalityType
  <2>6. ordinal'[s] = ordinal[s] + 1 /\ ordinal[s] \in Nat  BY <1>2, <1>7, <1>8
  <2>7. ordinal[s] + 1 \in 1..Cardinality(all)  BY <2>4, <2>5, <2>6, <1>7, <1>14 DEF Counted
  <2> QED  BY <2>7, <1>7, InstanceIsOrdinal
<1>16. n[1] = s /\ n[2] = ordinal[s] + 1 /\ ordinal[s] \in Nat /\ n[2] = ordinal'[n[1]]
  BY <1>2, <1>7, <1>8
<1>17. \A m \in Waiting : m # n
  <2> SUFFICES ASSUME NEW m \in Waiting, m = n  PROVE FALSE
    OBVIOUS
  <2>1. m[2] <= ordinal[m[1]]  BY DEF IInv, Placed, Waiting
  <2> HIDE DEF n
  <2> QED  BY <2>1, <1>16
<1>18. \A a \in Actor : \A i \in DOMAIN fresh[a] : fresh[a][i][1] # n
  <2> SUFFICES ASSUME NEW a \in Actor, NEW i \in DOMAIN fresh[a], fresh[a][i][1] = n
               PROVE  FALSE
    OBVIOUS
  <2>1. fresh[a][i][1][2] <= ordinal[fresh[a][i][1][1]]  BY DEF IInv, Placed
  <2> HIDE DEF n
  <2> QED  BY <2>1, <1>16
<1>19. \A t \in Site : ordinal[t] \in Nat /\ ordinal'[t] \in Nat /\ ordinal[t] <= ordinal'[t]
  BY <1>2, <1>7, <1>8
<1> HIDE DEF n
<1>20. ScriptFits(Q \cup {<<n, c>>}, pos', answered, Tail(pipe))
  <2>1. pos' \in [Branch -> Nat] /\ pos'[b] = pos[b] + 1
        /\ \A d \in Branch \ {b} : pos'[d] = pos[d]
    BY <1>2, <1>4, <1>5, <1>8
  <2>2. \A d \in Branch : answered[d] <= pos'[d] /\ pos'[d] <= Len(Plan[d])
    <3> TAKE d \in Branch
    <3>1. CASE d = b  BY <3>1, <2>1, <1>5, <1>6
    <3>2. CASE d # b  BY <3>2, <2>1, <1>3 DEF ScriptFits
    <3> QED  BY <3>1, <3>2
  <2>3. \A d \in Elems(Tail(pipe)) : pos'[d] = answered[d] /\ answered[d] < Len(Plan[d])
    <3> TAKE d \in Elems(Tail(pipe))
    <3>1. d \in Elems(pipe) /\ d # b /\ d \in Branch  BY <1>3, <1>4, SeqElems DEF ScriptFits
    <3> QED  BY <3>1, <2>1, <1>3 DEF ScriptFits
  <2>4. \A q \in Q : /\ q[2] \in Call /\ q[2][2] = pos[q[2][1]]
                     /\ pos[q[2][1]] = answered[q[2][1]] + 1
                     /\ q[2][1] \in Branch /\ q[2][1] # b
    <3> TAKE q \in Q
    <3>1. /\ q[2] \in Call /\ q[2][2] = pos[q[2][1]]
          /\ pos[q[2][1]] = answered[q[2][1]] + 1
      BY <1>3 DEF ScriptFits
    <3>2. q[2][1] \in Branch  BY <3>1, CallIsPlace
    <3>3. q[2][1] # b  BY <3>1, <1>5
    <3> QED  BY <3>1, <3>2, <3>3
  <2> DEFINE r == <<n, c>>
  <2>5. r[2] = c  OBVIOUS
  <2> HIDE DEF r
  <2>6. \A q \in Q \cup {r} : /\ q[2] \in Call /\ q[2][2] = pos'[q[2][1]]
                             /\ pos'[q[2][1]] = answered[q[2][1]] + 1
    <3> TAKE q \in Q \cup {r}
    <3>1. CASE q \in Q  BY <3>1, <2>1, <2>4
    <3>2. CASE q = r  BY <3>2, <2>1, <2>5, <1>5, <1>7
    <3> QED  BY <3>1, <3>2
  <2>7. \A q, x \in Q \cup {r} : q[2][1] = x[2][1] => q = x
    <3> SUFFICES ASSUME NEW q \in Q \cup {r}, NEW x \in Q \cup {r}, q[2][1] = x[2][1]
                 PROVE  q = x
      OBVIOUS
    <3>1. CASE q \in Q /\ x \in Q  BY <3>1, <1>3 DEF ScriptFits
    <3>2. \A y \in Q : y[2][1] # r[2][1]  BY <2>4, <2>5, <1>7
    <3> QED  BY <3>1, <3>2
  <2> HIDE DEF Q
  <2> QED  BY <2>1, <2>2, <2>3, <2>6, <2>7, <1>3, <1>4 DEF ScriptFits, r
<1> QED  BY <1>1, <1>7, <1>14, <1>15, <1>16, <1>17, <1>18, <1>19, <1>20

(* What waits has an instance; a higher ordinal leaves room for it.         *)
LEMMA PlacedLater ==
  ASSUME IInv, NEW ord,
         \A s \in Site : ordinal[s] \in Nat /\ ord[s] \in Nat /\ ordinal[s] <= ord[s]
  PROVE  /\ Placed(held, fresh, ord)
         /\ \A n \in Waiting : n \in Instance /\ rows[n].status # "none" /\ n[2] <= ord[n[1]]
<1>1. \A n \in Instance : n[2] <= ordinal[n[1]] => n[2] <= ord[n[1]]
  <2> TAKE n \in Instance
  <2>1. n[1] \in Site /\ n[2] \in Nat  BY InstanceIsOrdinal
  <2> QED  BY <2>1
<1>2. \A n \in Waiting : n \in Instance /\ rows[n].status # "none"
  BY SeqElems DEF IInv, Apart, Placed, Waiting
<1>3. \A n \in Waiting : n[2] <= ord[n[1]]
  BY <1>1, <1>2 DEF IInv, Placed, Waiting
<1>4. \A a \in Actor : \A i \in DOMAIN fresh[a] : fresh[a][i][1][2] <= ord[fresh[a][i][1][1]]
  <2> TAKE a \in Actor
  <2> TAKE i \in DOMAIN fresh[a]
  <2>1. fresh[a] \in Seq(Instance \X Call)  BY DEF IInv, Placed
  <2>2. fresh[a][i] \in Elems(fresh[a])  BY DEF Elems
  <2>3. fresh[a][i][1] \in Instance  BY <2>1, <2>2, SeqElems
  <2>4. fresh[a][i][1][2] <= ordinal[fresh[a][i][1][1]]  BY DEF IInv, Placed
  <2> QED  BY <2>3, <2>4, <1>1
<1> QED  BY <1>2, <1>3, <1>4 DEF IInv, Placed, Waiting

(* A call the journal has.                                                  *)
LEMMA AskRecordedKeeps == IInv /\ AskRecorded => IInv'
<1> SUFFICES ASSUME IInv, AskRecorded  PROVE IInv'
  OBVIOUS
<1> DEFINE n == Arriving.instance
           c == Arriving.call
           a == Target(c).actor
           H == held \cup {n}
<1>1. Arrive /\ rows[n] # NoRow  BY DEF AskRecorded
<1>2. /\ n \in Instance /\ c \in Call /\ n[2] = ordinal'[n[1]]
      /\ \A m \in Waiting : m # n
      /\ \A s \in Site : ordinal[s] \in Nat /\ ordinal'[s] \in Nat /\ ordinal[s] <= ordinal'[s]
      /\ Counted(ordinal', pos')
      /\ ScriptFits(Asked(rows, Waiting, fresh) \cup {<<n, c>>}, pos', answered, Tail(pipe))
  BY <1>1, ArriveFits
<1>3. /\ Placed(held, fresh, ordinal')
      /\ \A m \in Waiting : m \in Instance /\ rows[m].status # "none" /\ m[2] <= ordinal'[m[1]]
  BY <1>2, PlacedLater
<1>4. a \in Actor  BY <1>2, CallIsPlace
<1>5. rows[n].status # "none"  BY <1>1, <1>2 DEF IInv, Rows
<1> HIDE DEF n, c, a
<1>6. CASE rows[n].call # c
  <2>1. Mismatch  BY <1>6 DEF AskRecorded, n, c
  <2>2. /\ UNCHANGED <<rows, log, life, stopped, course, told, answered, admitSeq, recorded, held,
                       fresh, live, order, cursor, parked, due>>
        /\ status' = "errored" /\ pipe' = Tail(pipe)
    BY <2>1 DEF Mismatch, journal, history, gate
  <2>3. Waiting' = Waiting  BY <2>2 DEF Waiting
  <2>4. History'  BY <2>2 DEF IInv, History
  <2>5. Rows'  BY <2>2 DEF IInv, Rows
  <2>6. Gate'  BY <2>2 DEF IInv, Gate
  <2>7. Apart'  BY <2>2 DEF IInv, Apart
  <2>8. Numbers'  BY <2>2 DEF IInv, Numbers, Top
  <2>9. Placed(held, fresh, ordinal)'  BY <2>2, <1>3 DEF Placed
  <2>10. ScriptFits(Asked(rows, Waiting, fresh), pos, answered, pipe)'
    <3> DEFINE Q == Asked(rows, Waiting, fresh)
    <3>1. Asked(rows, Waiting, fresh)' = Q  BY <2>2, <2>3
    <3>2. ScriptFits(Q \cup {<<n, c>>}, pos', answered, Tail(pipe))  BY <1>2
    <3> HIDE DEF Q
    <3>3. ScriptFits(Q, pos', answered, Tail(pipe))  BY <3>2, FewerFit
    <3> QED  BY <3>1, <3>3, <2>2
  <2> QED  BY <2>4, <2>5, <2>6, <2>7, <2>8, <2>9, <2>10, <1>2 DEF IInv
<1>7. CASE rows[n].call = c
  <2>1. /\ DrainAdmission(a, H, fresh[a], Tail(pipe))
        /\ UNCHANGED <<life, stopped, course, status, recorded>>
    BY <1>7 DEF AskRecorded, n, c, a
  <2>2. fresh \in [Actor -> Seq(Instance \X Call)]
        /\ fresh = [fresh EXCEPT ![a] = fresh[a]]
    BY DEF IInv, Placed
  <2>3. Placed(H, fresh, ordinal')
    <3>1. n \notin Elems(live) /\ n \notin parked /\ n \notin Elems(due)  BY <1>2 DEF Waiting
    <3>2. n[2] <= ordinal'[n[1]]
      <4>1. n[1] \in Site /\ n[2] \in Nat  BY <1>2, InstanceIsOrdinal
      <4> QED  BY <4>1, <1>2
    <3>3. H \in SUBSET Instance /\ \A m \in H : rows[m].status # "none"
      BY <1>2, <1>3, <1>5 DEF Placed
    <3>4. \A m \in H \cup Elems(live) \cup parked \cup Elems(due) : m[2] <= ordinal'[m[1]]
      BY <3>2, <1>3 DEF Waiting
    <3> QED  BY <3>1, <3>3, <3>4, <1>3 DEF Placed
  <2>4. ScriptFits(Asked(rows, H \cup Elems(live) \cup parked \cup Elems(due), fresh),
                   pos', answered, Tail(pipe))
    <3>1. Asked(rows, H \cup Elems(live) \cup parked \cup Elems(due), fresh)
            = Asked(rows, Waiting, fresh) \cup {<<n, c>>}
      BY <1>7 DEF Asked, Waiting
    <3> QED  BY <3>1, <1>2
  <2>5. /\ Rows' /\ Numbers' /\ Apart' /\ Gate' /\ told' \in [Call -> 0..MaxLives]
        /\ Placed(held, fresh, ordinal)'
        /\ ScriptFits(Asked(rows, Waiting, fresh), pos, answered, pipe)'
    <3>1. Rows /\ Numbers /\ Apart /\ Gate /\ told \in [Call -> 0..MaxLives]
      BY DEF IInv, History
    <3>2. recorded' = recorded  BY <2>1
    <3> HIDE DEF H
    <3> QED  BY <3>1, <3>2, <2>1, <2>2, <2>3, <2>4, <1>4, DrainFits
  <2>6. History'  BY <2>1, <2>5 DEF IInv, History
  <2>7. Counted(ordinal, pos)'  BY <1>2
  <2> QED  BY <2>5, <2>6, <2>7 DEF IInv
<1> QED  BY <1>6, <1>7

(* A call the journal does not have.                                        *)
LEMMA AskFreshKeeps == IInv /\ AskFresh => IInv'
<1> SUFFICES ASSUME IInv, AskFresh  PROVE IInv'
  OBVIOUS
<1> DEFINE n == Arriving.instance
           c == Arriving.call
           a == Target(c).actor
           F == Append(fresh[a], <<n, c>>)
           ff == [fresh EXCEPT ![a] = F]
<1>1. Arrive /\ rows[n] = NoRow  BY DEF AskFresh
<1>2. /\ n \in Instance /\ c \in Call /\ n[2] = ordinal'[n[1]]
      /\ \A d \in Actor : \A i \in DOMAIN fresh[d] : fresh[d][i][1] # n
      /\ \A s \in Site : ordinal[s] \in Nat /\ ordinal'[s] \in Nat /\ ordinal[s] <= ordinal'[s]
      /\ Counted(ordinal', pos')
      /\ ScriptFits(Asked(rows, Waiting, fresh) \cup {<<n, c>>}, pos', answered, Tail(pipe))
  BY <1>1, ArriveFits
<1>3. /\ Placed(held, fresh, ordinal')
      /\ \A m \in Waiting : m \in Instance /\ rows[m].status # "none" /\ m[2] <= ordinal'[m[1]]
  BY <1>2, PlacedLater
<1>4. a \in Actor  BY <1>2, CallIsPlace
<1>5. rows[n].status = "none"  BY <1>1 DEF NoRow
<1>6. n[1] \in Site /\ n[2] \in Nat  BY <1>2, InstanceIsOrdinal
<1>7. /\ DrainAdmission(a, held, F, Tail(pipe))
      /\ UNCHANGED <<life, stopped, course, status, recorded>>
  BY DEF AskFresh
<1>8. fresh \in [Actor -> Seq(Instance \X Call)]  BY DEF IInv, Placed
<1>9. Target(c).actor = a  OBVIOUS
<1> HIDE DEF n, c, a
<1> DEFINE q == <<n, c>>
           k == Len(fresh[a])
<1>10. /\ F \in Seq(Instance \X Call) /\ DOMAIN F = 1..(k + 1)
       /\ DOMAIN fresh[a] = 1..k /\ k \in Nat
       /\ F[k + 1] = q /\ \A i \in 1..k : F[i] = fresh[a][i]
       /\ Elems(F) = Elems(fresh[a]) \cup {q}
  <2>1. fresh[a] \in Seq(Instance \X Call) /\ q \in Instance \X Call  BY <1>2, <1>4, <1>8
  <2> HIDE DEF q
  <2>2. /\ F \in Seq(Instance \X Call) /\ Len(F) = k + 1
        /\ F[k + 1] = q /\ \A i \in 1..k : F[i] = fresh[a][i]
    BY <2>1, AppendProperties DEF q
  <2>3. DOMAIN F = 1..(k + 1) /\ DOMAIN fresh[a] = 1..k /\ k \in Nat
    BY <2>1, <2>2, LenProperties
  <2> HIDE DEF F, k
  <2>4. Elems(F) = Elems(fresh[a]) \cup {q}
    <3>1. 1..(k + 1) = 1..k \cup {k + 1}  BY <2>3
    <3> QED  BY <3>1, <2>2, <2>3 DEF Elems
  <2> QED  BY <2>2, <2>3, <2>4
<1>11. q[1] = n /\ q[2] = c  OBVIOUS
<1>12. \A d \in Actor : ff[d] = IF d = a THEN F ELSE fresh[d]  BY <1>8
<1>13. ff \in [Actor -> Seq(Instance \X Call)]  BY <1>8, <1>10
<1> HIDE DEF F, ff, q, k
<1>14. \A d \in Actor : \A i \in DOMAIN ff[d] :
         \/ i \in DOMAIN fresh[d] /\ ff[d][i] = fresh[d][i] /\ fresh[d][i][1] # n
         \/ d = a /\ i = k + 1 /\ ff[d][i] = q
  <2> SUFFICES ASSUME NEW d \in Actor, NEW i \in DOMAIN ff[d]
               PROVE  \/ i \in DOMAIN fresh[d] /\ ff[d][i] = fresh[d][i] /\ fresh[d][i][1] # n
                      \/ d = a /\ i = k + 1 /\ ff[d][i] = q
    OBVIOUS
  <2>1. CASE d # a  BY <2>1, <1>2, <1>12
  <2>2. CASE d = a
    <3>1. i \in 1..(k + 1) /\ ff[d] = F  BY <2>2, <1>10, <1>12
    <3>2. i \in 1..k \/ i = k + 1  BY <3>1, <1>10
    <3> QED  BY <3>1, <3>2, <2>2, <1>2, <1>10
  <2> QED  BY <2>1, <2>2
<1>15. Placed(held, ff, ordinal')
  <2>1. \A d \in Actor : \A i \in DOMAIN ff[d] :
          /\ rows[ff[d][i][1]].status = "none"
          /\ ff[d][i][1][2] <= ordinal'[ff[d][i][1][1]]
          /\ Target(ff[d][i][2]).actor = d
    <3> SUFFICES ASSUME NEW d \in Actor, NEW i \in DOMAIN ff[d]
                 PROVE  /\ rows[ff[d][i][1]].status = "none"
                        /\ ff[d][i][1][2] <= ordinal'[ff[d][i][1][1]]
                        /\ Target(ff[d][i][2]).actor = d
      OBVIOUS
    <3>1. CASE i \in DOMAIN fresh[d] /\ ff[d][i] = fresh[d][i]
      <4>1. /\ rows[fresh[d][i][1]].status = "none"
            /\ fresh[d][i][1][2] <= ordinal'[fresh[d][i][1][1]]
            /\ Target(fresh[d][i][2]).actor = d
        BY <3>1, <1>3 DEF Placed
      <4> QED  BY <3>1, <4>1
    <3>2. CASE d = a /\ ff[d][i] = q
      <4>1. n[2] <= ordinal'[n[1]]  BY <1>2, <1>6
      <4> QED  BY <3>2, <4>1, <1>5, <1>9, <1>11
    <3> QED  BY <3>1, <3>2, <1>14
  <2>2. \A d \in Actor : \A i, j \in DOMAIN ff[d] : ff[d][i][1] = ff[d][j][1] => i = j
    <3> SUFFICES ASSUME NEW d \in Actor, NEW i \in DOMAIN ff[d], NEW j \in DOMAIN ff[d],
                        ff[d][i][1] = ff[d][j][1]
                 PROVE  i = j
      OBVIOUS
    <3>1. CASE i \in DOMAIN fresh[d] /\ ff[d][i] = fresh[d][i] /\ fresh[d][i][1] # n
      <4>1. j \in DOMAIN fresh[d] /\ ff[d][j] = fresh[d][j]  BY <3>1, <1>11, <1>14
      <4>2. fresh[d][i][1] = fresh[d][j][1]  BY <3>1, <4>1
      <4> QED  BY <3>1, <4>1, <4>2, <1>3 DEF Placed
    <3>2. CASE i = k + 1 /\ ff[d][i] = q
      BY <3>2, <1>11, <1>14
    <3> QED  BY <3>1, <3>2, <1>14
  <2>3. \A d, e \in Actor : \A i \in DOMAIN ff[d], j \in DOMAIN ff[e] :
          ff[d][i][1] = ff[e][j][1] => d = e
    <3> SUFFICES ASSUME NEW d \in Actor, NEW e \in Actor, NEW i \in DOMAIN ff[d],
                        NEW j \in DOMAIN ff[e], ff[d][i][1] = ff[e][j][1]
                 PROVE  d = e
      OBVIOUS
    <3>1. CASE i \in DOMAIN fresh[d] /\ ff[d][i] = fresh[d][i] /\ fresh[d][i][1] # n
      <4>1. j \in DOMAIN fresh[e] /\ ff[e][j] = fresh[e][j]  BY <3>1, <1>11, <1>14
      <4>2. fresh[d][i][1] = fresh[e][j][1]  BY <3>1, <4>1
      <4> QED  BY <3>1, <4>1, <4>2, <1>3 DEF Placed
    <3>2. CASE d = a /\ ff[d][i] = q
      BY <3>2, <1>11, <1>14
    <3> QED  BY <3>1, <3>2, <1>14
  <2> QED  BY <2>1, <2>2, <2>3, <1>3, <1>13 DEF Placed
<1>16. ScriptFits(Asked(rows, held \cup Elems(live) \cup parked \cup Elems(due), ff),
                  pos', answered, Tail(pipe))
  <2> DEFINE Q == Asked(rows, Waiting, fresh) \cup {q}
  <2>1. Asked(rows, held \cup Elems(live) \cup parked \cup Elems(due), ff) \subseteq Q
    <3>1. \A d \in Actor : Elems(ff[d]) \subseteq Elems(fresh[d]) \cup {q}
      BY <1>10, <1>12
    <3> QED  BY <3>1 DEF Asked, Waiting
  <2>2. ScriptFits(Q, pos', answered, Tail(pipe))  BY <1>2 DEF q
  <2> HIDE DEF Q
  <2> QED  BY <2>1, <2>2, FewerFit
<1>17. /\ Rows' /\ Numbers' /\ Apart' /\ Gate' /\ told' \in [Call -> 0..MaxLives]
       /\ Placed(held, fresh, ordinal)'
       /\ ScriptFits(Asked(rows, Waiting, fresh), pos, answered, pipe)'
  <2>1. Rows /\ Numbers /\ Apart /\ Gate /\ told \in [Call -> 0..MaxLives]
    BY DEF IInv, History
  <2>2. recorded' = recorded  BY <1>7
  <2> QED  BY <2>1, <2>2, <1>4, <1>7, <1>8, <1>15, <1>16, DrainFits DEF ff
<1>18. History'  BY <1>7, <1>17 DEF IInv, History
<1> QED  BY <1>2, <1>17, <1>18 DEF IInv

(* The ask that settles is the first of its actor's: all that is settled    *)
(* stays before all that is not.                                            *)
LEMMA SettledFits ==
  ASSUME IInv, NEW n, Current(n), rows' = Completed(n)
  PROVE  /\ n \in Elems(live) /\ n \in Instance /\ rows[n].status = "running"
         /\ \A m \in Instance \ {n} : rows'[m] = rows[m]
         /\ /\ rows'[n].call = rows[n].call /\ rows'[n].seq = rows[n].seq
            /\ rows'[n].status = "completed" /\ rows'[n].result = life
         /\ Rows'
         /\ \A a \in Actor : NumberedTo(rows', a, Top(a))
<1>1. PICK i \in DOMAIN live :
        live[i] = n /\ \A j \in 1..(i - 1) : ActorOf(live[j]) # ActorOf(n)
  BY DEF Current
<1>2. /\ live \in Seq(Instance) /\ DOMAIN live = 1..Len(live) /\ Len(live) \in Nat
      /\ n \in Elems(live) /\ n \in Instance /\ rows[n].status = "running"
  <2>1. live \in Seq(Instance)  BY DEF IInv, Apart
  <2>2. n \in Elems(live)  BY <1>1 DEF Elems
  <2> QED  BY <2>1, <2>2, SeqElems DEF IInv, Apart
<1>3. rows \in [Instance -> RowType] /\ life \in 0..MaxLives
  BY DEF IInv, Rows, History
<1>4. /\ rows' \in [Instance -> RowType]
      /\ \A m \in Instance \ {n} : rows'[m] = rows[m]
      /\ rows'[n].call = rows[n].call /\ rows'[n].seq = rows[n].seq
      /\ rows'[n].status = "completed" /\ rows'[n].result = life
  <2> DEFINE r == [[rows[n] EXCEPT !.status = "completed"] EXCEPT !.result = life]
  <2>1. rows[n] \in RowType  BY <1>2, <1>3
  <2>2. /\ r \in RowType /\ r.call = rows[n].call /\ r.seq = rows[n].seq
        /\ r.status = "completed" /\ r.result = life
    BY <2>1, <1>3 DEF RowType
  <2>3. rows' = [rows EXCEPT ![n] = r]  BY <1>2, <1>3 DEF Completed
  <2> HIDE DEF r
  <2> QED  BY <2>2, <2>3, <1>2, <1>3
<1>5. Rows'
  <2> SUFFICES ASSUME NEW m \in Instance
               PROVE  IF rows'[m].status = "none" THEN rows'[m] = NoRow
                                                  ELSE rows'[m].call \in Call
    BY <1>4 DEF Rows
  <2>1. IF rows[m].status = "none" THEN rows[m] = NoRow ELSE rows[m].call \in Call
    BY DEF IInv, Rows
  <2>2. CASE m = n  BY <2>1, <2>2, <1>2, <1>4
  <2>3. CASE m # n  BY <2>1, <2>3, <1>4
  <2> QED  BY <2>2, <2>3
<1>6. ASSUME NEW a \in Actor  PROVE NumberedTo(rows', a, Top(a))
  <2> DEFINE M == Mine(rows, a)
  <2>1. Mine(rows', a) = M
    <3>1. \A m \in Instance : /\ rows'[m].status # "none" <=> rows[m].status # "none"
                             /\ rows'[m].call = rows[m].call
      BY <1>2, <1>4
    <3> QED  BY <3>1 DEF Mine
  <2>2. \A m \in M : m \in Instance /\ rows'[m].seq = rows[m].seq
                    /\ rows[m].seq \in Nat /\ Target(rows[m].call).actor = a
    BY <1>3, <1>4 DEF Mine, RowType
  <2>3. NumberedTo(rows, a, Top(a))  BY DEF IInv, Numbers
  <2>4. ASSUME NEW m \in M, NEW k \in M,
               rows'[m].status = "running", rows'[k].status = "completed"
        PROVE  rows'[m].seq > rows'[k].seq
    <3>1. m # n /\ rows[m].status = "running"  BY <2>2, <2>4, <1>4
    <3>2. CASE k # n
      <4>1. rows[k].status = "completed"  BY <3>2, <2>2, <2>4, <1>4
      <4>2. rows[m].seq > rows[k].seq  BY <4>1, <3>1, <2>3 DEF NumberedTo
      <4> QED  BY <4>2, <2>2
    <3>3. CASE k = n
      <4>1. Target(rows[n].call).actor = a /\ Target(rows[m].call).actor = a
        BY <3>3, <2>2
      <4>2. /\ rows[n].seq < admitSeq[a] /\ admitSeq[a] \in Nat
            /\ rows[m].seq < admitSeq[a] => m \in Elems(live)
            /\ Ascending(rows, live)
        <5>1. LiveFits(rows, live, admitSeq) /\ admitSeq \in [Actor -> Nat]
          BY DEF IInv, Numbers
        <5> QED  BY <5>1, <4>1, <3>1, <2>2, <1>2 DEF LiveFits
      <4>3. CASE rows[m].seq < admitSeq[a]
        <5>1. PICK j \in DOMAIN live : live[j] = m  BY <4>2, <4>3 DEF Elems
        <5>2. ~(j \in 1..(i - 1))  BY <5>1, <4>1, <1>1 DEF ActorOf
        <5>3. i < j  BY <5>1, <5>2, <3>1, <1>1, <1>2
        <5>4. Before(rows, n, m)  BY <5>1, <5>3, <4>2, <1>1 DEF Ascending
        <5>5. rows[n].seq < rows[m].seq  BY <5>4, <4>1 DEF Before
        <5> QED  BY <5>5, <3>3, <2>2
      <4>4. CASE rows[m].seq >= admitSeq[a]  BY <4>2, <4>4, <3>3, <2>2
      <4> QED  BY <4>2, <4>3, <4>4, <2>2
    <3> QED  BY <3>2, <3>3
  <2> HIDE DEF M
  <2> QED  BY <2>1, <2>2, <2>3, <2>4 DEF NumberedTo, M
<1> QED  BY <1>2, <1>4, <1>5, <1>6

(* Those who are left keep their order.                                     *)
LEMMA AscendingWithout ==
  ASSUME NEW rs, NEW s \in Seq(Instance), Once(s), Ascending(rs, s), NEW n \in Elems(s)
  PROVE  Ascending(rs, Without(s, n))
<1> DEFINE t == Without(s, n)
<1>1. \A i, j \in DOMAIN t : i < j =>
        \E p, q \in DOMAIN s : p < q /\ t[i] = s[p] /\ t[j] = s[q]
  BY WithoutOnce
<1> HIDE DEF t
<1>2. ASSUME NEW i \in DOMAIN t, NEW j \in DOMAIN t, i < j  PROVE Before(rs, t[i], t[j])
  <2>1. PICK p \in DOMAIN s, q \in DOMAIN s : p < q /\ t[i] = s[p] /\ t[j] = s[q]
    BY <1>1, <1>2
  <2>2. Before(rs, s[p], s[q])  BY <2>1 DEF Ascending
  <2> QED  BY <2>1, <2>2
<1> QED  BY <1>2 DEF Ascending, t

(* An ask is settled.                                                       *)
LEMMA SettleOkKeeps ==
  ASSUME IInv, NEW n \in Instance, SettleOk(n)
  PROVE  IInv'
<1> DEFINE Q == Asked(rows, Waiting, fresh)
<1>1. /\ Current(n) /\ live' = Without(live, n) /\ rows' = Completed(n)
      /\ Record(<<n>>) /\ Answer(<<n>>, rows', pipe)
      /\ UNCHANGED <<life, stopped, status, pos, ordinal, admitSeq, recorded, held, fresh,
                     order, cursor, parked, due>>
      /\ course' = "left" \/ course' = course
  BY DEF SettleOk, MaySettle, LeavesIf, gate
<1>2. /\ n \in Elems(live) /\ rows[n].status = "running"
      /\ \A m \in Instance \ {n} : rows'[m] = rows[m]
      /\ rows'[n].call = rows[n].call /\ rows'[n].seq = rows[n].seq
      /\ rows'[n].status = "completed" /\ rows'[n].result = life
      /\ Rows'
      /\ \A a \in Actor : NumberedTo(rows', a, Top(a))
  BY <1>1, SettledFits
<1>3. /\ live' \in Seq(Instance) /\ Once(live') /\ Elems(live') = Elems(live) \ {n}
  BY <1>1, <1>2, WithoutOnce DEF IInv, Apart
<1>4. /\ \A m \in Waiting : m \in Instance /\ rows[m].status # "none"
      /\ \A m \in Elems(live) : m \in Instance /\ rows[m].status = "running"
      /\ \A m \in parked \cup Elems(due) : m \in Instance /\ rows[m].status = "completed"
      /\ n \notin held /\ n \notin parked /\ n \notin Elems(due)
  BY <1>2, SeqElems DEF IInv, Apart, Placed, Waiting
<1>5. Waiting' = Waiting \ {n} /\ n \in Waiting
  BY <1>1, <1>2, <1>3, <1>4 DEF Waiting
<1>6. /\ <<n>> \in Seq(Instance) /\ Once(<<n>>) /\ Elems(<<n>>) = {n}
  BY DEF Once, Elems
<1>7. Gate'
  <2>1. log' \in Seq(Instance) /\ Once(log')  BY <1>1, <1>6, RecordFits DEF IInv, Gate
  <2> QED  BY <2>1, <1>1 DEF IInv, Gate
<1>8. Apart'
  BY <1>1, <1>2, <1>3, <1>4 DEF IInv, Apart
<1>9. LiveFits(rows', live', admitSeq')
  <2>1. LiveFits(rows, live, admitSeq) /\ live \in Seq(Instance) /\ Once(live)
    BY DEF IInv, Numbers, Apart
  <2>2. Ascending(rows, live')  BY <2>1, <1>1, <1>2, AscendingWithout DEF LiveFits
  <2>3. Ascending(rows', live')
    <3>1. \A m \in Elems(live') : rows[m] = rows'[m]  BY <1>2, <1>3, <1>4
    <3> HIDE DEF Ascending
    <3> QED  BY <3>1, <2>2, <1>3, AscendingSame
  <2>4. \A m \in Elems(live') : rows'[m].seq < admitSeq'[Target(rows'[m].call).actor]
    <3>1. \A m \in Elems(live') : m \in Elems(live) /\ rows'[m] = rows[m]
      BY <1>2, <1>3, <1>4
    <3> QED  BY <3>1, <2>1, <1>1 DEF LiveFits
  <2>5. \A m \in Instance :
          rows'[m].status = "running" /\ rows'[m].seq < admitSeq'[Target(rows'[m].call).actor]
            => m \in Elems(live')
    <3> SUFFICES ASSUME NEW m \in Instance, rows'[m].status = "running",
                        rows'[m].seq < admitSeq'[Target(rows'[m].call).actor]
                 PROVE  m \in Elems(live')
      OBVIOUS
    <3>1. m # n /\ rows'[m] = rows[m]  BY <1>2
    <3> QED  BY <3>1, <2>1, <1>1, <1>3 DEF LiveFits
  <2> QED  BY <2>3, <2>4, <2>5 DEF LiveFits
<1>10. Numbers'
  <2>1. \A a \in Actor : Top(a)' = Top(a)  BY <1>1 DEF Top
  <2> QED  BY <2>1, <1>1, <1>2, <1>9 DEF IInv, Numbers
<1>11. Placed(held, fresh, ordinal)'
  <2>1. Placed(held, fresh, ordinal)  BY DEF IInv
  <2>2. \A m \in held : rows'[m].status # "none"
    <3>1. \A m \in held : m \in Instance /\ m # n  BY <1>4 DEF Waiting
    <3> QED  BY <3>1, <2>1, <1>2 DEF Placed
  <2>3. \A a \in Actor : \A i \in DOMAIN fresh[a] : rows'[fresh[a][i][1]].status = "none"
    <3> TAKE a \in Actor
    <3> TAKE i \in DOMAIN fresh[a]
    <3>1. fresh[a] \in Seq(Instance \X Call) /\ rows[fresh[a][i][1]].status = "none"
      BY <2>1 DEF Placed
    <3>2. fresh[a][i] \in Elems(fresh[a])  BY DEF Elems
    <3>3. fresh[a][i][1] \in Instance  BY <3>1, <3>2, SeqElems
    <3> QED  BY <3>1, <3>3, <1>2
  <2> QED  BY <2>1, <2>2, <2>3, <1>1, <1>3 DEF Placed
<1>12. Asked(rows, Waiting, fresh)' \subseteq Q \ {<<n, rows'[n].call>>}
  <2>1. ASSUME NEW m \in Waiting'  PROVE <<m, rows'[m].call>> \in Q \ {<<n, rows'[n].call>>}
    <3>1. m \in Waiting /\ m # n /\ rows'[m] = rows[m]  BY <2>1, <1>2, <1>4, <1>5
    <3>2. <<m, rows[m].call>> \in Q  BY <3>1 DEF Asked
    <3> QED  BY <3>1, <3>2
  <2>2. ASSUME NEW a \in Actor, NEW q \in Elems(fresh[a])
        PROVE  q \in Q \ {<<n, rows'[n].call>>}
    <3>1. PICK i \in DOMAIN fresh[a] : fresh[a][i] = q  BY <2>2 DEF Elems
    <3>2. rows[q[1]].status = "none"  BY <3>1 DEF IInv, Placed
    <3>3. q # <<n, rows'[n].call>>
      <4> SUFFICES ASSUME q = <<n, rows'[n].call>>  PROVE FALSE
        OBVIOUS
      <4>1. q[1] = n  OBVIOUS
      <4> QED  BY <4>1, <3>2, <1>2
    <3>4. q \in Q  BY DEF Asked
    <3> QED  BY <3>3, <3>4
  <2>3. fresh' = fresh  BY <1>1
  <2> HIDE DEF Q
  <2> QED  BY <2>1, <2>2, <2>3 DEF Asked
<1>13. /\ ScriptFits(Q \ {<<m, rows'[m].call>> : m \in Elems(<<n>>)}, pos', answered', pipe')
       /\ told' \in [Call -> 0..MaxLives]
  <2>1. \A m \in Elems(<<n>>) : <<m, rows'[m].call>> \in Q /\ rows'[m].result \in 0..MaxLives
    <3>1. <<n, rows[n].call>> \in Q  BY <1>5 DEF Asked
    <3>2. life \in 0..MaxLives  BY DEF IInv, History
    <3> QED  BY <3>1, <3>2, <1>2, <1>6
  <2>2. ScriptFits(Q, pos', answered, pipe)  BY <1>1 DEF IInv
  <2>3. told \in [Call -> 0..MaxLives]  BY DEF IInv, History
  <2>4. Answer(<<n>>, rows', pipe)  BY <1>1
  <2> HIDE DEF Q
  <2> QED  BY <2>1, <2>2, <2>3, <2>4, <1>6, AnswerFits
<1>14. ScriptFits(Asked(rows, Waiting, fresh), pos, answered, pipe)'
  <2>1. Q \ {<<m, rows'[m].call>> : m \in Elems(<<n>>)} = Q \ {<<n, rows'[n].call>>}
    BY <1>6
  <2> HIDE DEF Q
  <2> QED  BY <2>1, <1>12, <1>13, FewerFit
<1>15. History'  BY <1>1, <1>13 DEF IInv, History
<1>16. Counted(ordinal, pos)'  BY <1>1 DEF IInv, Counted
<1> QED  BY <1>2, <1>7, <1>8, <1>10, <1>11, <1>14, <1>15, <1>16 DEF IInv

(* The released answers are delivered.                                      *)
LEMMA FlushKeeps == IInv /\ Flush => IInv'
<1> SUFFICES ASSUME IInv, Flush  PROVE IInv'
  OBVIOUS
<1> DEFINE Q == Asked(rows, Waiting, fresh)
           gone == {<<n, rows[n].call>> : n \in Elems(due)}
<1>1. /\ Record(due) /\ Answer(due, rows, pipe) /\ due' = <<>>
      /\ UNCHANGED <<rows, life, stopped, course, status, pos, ordinal, admitSeq, recorded, held,
                     fresh, live, order, cursor, parked>>
  BY DEF Flush, admission
<1>2. /\ due \in Seq(Instance) /\ Once(due)
      /\ \A n \in Elems(due) : n \in Instance /\ rows[n].status = "completed"
      /\ \A n \in Elems(due) : n \notin held /\ n \notin parked /\ n \notin Elems(live)
  BY SeqElems DEF IInv, Apart, Placed
<1>3. Elems(due') = {} /\ Once(due') /\ due' \in Seq(Instance)
  <2>1. <<>> \in Seq(Instance)  OBVIOUS
  <2> QED  BY <2>1, <1>1, EmptyOnce
<1>4. Waiting' = Waiting \ Elems(due)
  BY <1>1, <1>2, <1>3 DEF Waiting
<1>5. Gate'
  <2>1. log' \in Seq(Instance) /\ Once(log')  BY <1>1, <1>2, RecordFits DEF IInv, Gate
  <2> QED  BY <2>1, <1>1 DEF IInv, Gate
<1>6. Apart'  BY <1>1, <1>3 DEF IInv, Apart
<1>7. Numbers'  BY <1>1 DEF IInv, Numbers, Top
<1>8. Rows'  BY <1>1 DEF IInv, Rows
<1>9. Placed(held, fresh, ordinal)'  BY <1>1, <1>3 DEF IInv, Placed
<1>10. /\ ScriptFits(Q \ gone, pos', answered', pipe')
       /\ told' \in [Call -> 0..MaxLives]
  <2>1. \A n \in Elems(due) : <<n, rows[n].call>> \in Q /\ rows[n].result \in 0..MaxLives
    BY <1>2 DEF IInv, Rows, RowType, Asked, Waiting
  <2>2. ScriptFits(Q, pos', answered, pipe)  BY <1>1 DEF IInv
  <2>3. told \in [Call -> 0..MaxLives]  BY DEF IInv, History
  <2> HIDE DEF Q
  <2> QED  BY <2>1, <2>2, <2>3, <1>1, <1>2, AnswerFits
<1>11. Asked(rows, Waiting, fresh)' \subseteq Q \ gone
  <2>1. ASSUME NEW m \in Waiting'  PROVE <<m, rows'[m].call>> \in Q \ gone
    <3>1. m \in Waiting /\ m \notin Elems(due) /\ rows'[m] = rows[m]  BY <2>1, <1>1, <1>4
    <3>2. <<m, rows[m].call>> \in Q  BY <3>1 DEF Asked
    <3> QED  BY <3>1, <3>2
  <2>2. ASSUME NEW a \in Actor, NEW q \in Elems(fresh[a])  PROVE q \in Q \ gone
    <3>1. PICK i \in DOMAIN fresh[a] : fresh[a][i] = q  BY <2>2 DEF Elems
    <3>2. rows[q[1]].status = "none"  BY <3>1 DEF IInv, Placed
    <3>3. q \notin gone
      <4> SUFFICES ASSUME NEW n \in Elems(due), q = <<n, rows[n].call>>  PROVE FALSE
        OBVIOUS
      <4>1. q[1] = n  OBVIOUS
      <4> QED  BY <4>1, <3>2, <1>2
    <3>4. q \in Q  BY DEF Asked
    <3> QED  BY <3>3, <3>4
  <2>3. fresh' = fresh  BY <1>1
  <2> HIDE DEF Q, gone
  <2> QED  BY <2>1, <2>2, <2>3 DEF Asked
<1>12. ScriptFits(Asked(rows, Waiting, fresh), pos, answered, pipe)'
  <2> HIDE DEF Q, gone
  <2> QED  BY <1>10, <1>11, FewerFit
<1>13. History'  BY <1>1, <1>10 DEF IInv, History
<1>14. Counted(ordinal, pos)'  BY <1>1 DEF IInv, Counted
<1> QED  BY <1>5, <1>6, <1>7, <1>8, <1>9, <1>12, <1>13, <1>14 DEF IInv

(* What Complete and a stuttering step leave alone.                         *)
LEMMA SameKeeps ==
  ASSUME IInv, UNCHANGED <<journal, history, script, admission, gate>>,
         status' \in {"running", "completed", "errored"}
  PROVE  IInv'
<1>1. UNCHANGED <<rows, log, life, stopped, course, told, pos, answered, pipe, ordinal, admitSeq,
                  recorded, held, fresh, live, order, cursor, parked, due>>
  BY DEF journal, history, script, admission, gate
<1>2. History'  BY <1>1 DEF IInv, History
<1>3. Rows' /\ Gate' /\ Apart'  BY <1>1 DEF IInv, Rows, Gate, Apart
<1>4. Numbers'  BY <1>1 DEF IInv, Numbers, Top
<1>5. Placed(held, fresh, ordinal)' /\ Counted(ordinal, pos)'
  BY <1>1 DEF IInv, Placed, Counted
<1>6. ScriptFits(Asked(rows, Waiting, fresh), pos, answered, pipe)'
  <2>1. Waiting' = Waiting  BY <1>1 DEF Waiting
  <2> QED  BY <2>1, <1>1 DEF IInv
<1> QED  BY <1>2, <1>3, <1>4, <1>5, <1>6 DEF IInv

(* A crash, perhaps between the row and its event.                          *)
LEMMA CrashKeeps ==
  ASSUME IInv, NEW S \in {{}} \cup {{n} : n \in Tearable}, Crash(S)
  PROVE  IInv'
<1>1. /\ life < MaxLives /\ life' = life + 1
      /\ rows' = [n \in Instance |-> IF n \in S THEN Completed(n)[n] ELSE rows[n]]
      /\ Begin(rows', log) /\ UNCHANGED <<log, stopped, told>>
      /\ course' = "left" \/ course' = course
  BY DEF Crash, LeavesIf, Interruptible
<1>2. Rows' /\ \A a \in Actor : NumberedTo(rows', a, Top(a))
  <2>1. rows \in [Instance -> RowType]  BY DEF IInv, Rows
  <2>2. CASE S = {}
    <3>1. rows' = rows  BY <2>1, <2>2, <1>1
    <3>2. Rows'  BY <3>1 DEF IInv, Rows
    <3> QED  BY <3>1, <3>2 DEF IInv, Numbers
  <2>3. CASE S # {}
    <3>1. PICK n \in Tearable : S = {n}  BY <2>3
    <3>2. Current(n)  BY <3>1 DEF Tearable, MaySettle
    <3>3. rows' = Completed(n)
      <4> DEFINE R == Completed(n)
      <4>1. \A m \in Instance : m # n => R[m] = rows[m]  BY <2>1 DEF Completed
      <4>2. R = [m \in Instance |-> R[m]]  BY <2>1 DEF Completed
      <4>3. rows' = [m \in Instance |-> IF m = n THEN R[m] ELSE rows[m]]
        BY <3>1, <1>1
      <4> HIDE DEF R
      <4>4. rows' = R  BY <4>1, <4>2, <4>3
      <4> QED  BY <4>4 DEF R
    <3> QED  BY <3>2, <3>3, SettledFits
  <2> QED  BY <2>2, <2>3
<1>3. History'
  <2>1. life' \in 1..MaxLives  BY <1>1, ReplayAssumption DEF IInv, History
  <2> QED  BY <2>1, <1>1 DEF IInv, History, Begin
<1>4. \A a \in Actor : Top(a) \in Nat  BY DEF IInv, Numbers, Top
<1>5. Begin(rows', log') /\ log' \in Seq(Instance) /\ Once(log')
  BY <1>1 DEF IInv, Gate
<1> QED  BY <1>2, <1>3, <1>4, <1>5, BeginFits

(* A stop, and the resume.                                                  *)
LEMMA StopKeeps == IInv /\ Stop => IInv'
<1> SUFFICES ASSUME IInv, Stop  PROVE IInv'
  OBVIOUS
<1>1. /\ life < MaxLives /\ life' = life + 1 /\ stopped' = TRUE
      /\ Record(live) /\ Begin(rows, log') /\ rows' = rows /\ told' = told /\ course' = course
  BY DEF Stop, Interruptible
<1>2. Rows' /\ \A a \in Actor : NumberedTo(rows', a, Top(a))
  <2>1. Rows'  BY <1>1 DEF IInv, Rows
  <2> QED  BY <2>1, <1>1 DEF IInv, Numbers
<1>3. History'
  <2>1. life' \in 1..MaxLives  BY <1>1, ReplayAssumption DEF IInv, History
  <2> QED  BY <2>1, <1>1 DEF IInv, History, Begin
<1>4. \A a \in Actor : Top(a) \in Nat  BY DEF IInv, Numbers, Top
<1>5. Begin(rows', log') /\ log' \in Seq(Instance) /\ Once(log')
  BY <1>1, RecordFits DEF IInv, Gate, Apart
<1> QED  BY <1>2, <1>3, <1>4, <1>5, BeginFits

(* Every step keeps the invariant.                                          *)
LEMMA NextKeeps == IInv /\ [Next]_vars => IInv'
<1> SUFFICES ASSUME IInv, [Next]_vars  PROVE IInv'
  OBVIOUS
<1>1. CASE AskRecorded  BY <1>1, AskRecordedKeeps
<1>2. CASE AskFresh  BY <1>2, AskFreshKeeps
<1>3. CASE Flush  BY <1>3, FlushKeeps
<1>4. CASE Complete  BY <1>4, SameKeeps DEF Complete
<1>5. CASE \E n \in Instance : SettleOk(n)  BY <1>5, SettleOkKeeps
<1>6. CASE \E S \in {{}} \cup {{n} : n \in Tearable} : Crash(S)  BY <1>6, CrashKeeps
<1>7. CASE Stop  BY <1>7, StopKeeps
<1>8. CASE UNCHANGED vars
  <2>1. UNCHANGED <<journal, history, status, script, admission, gate>>  BY <1>8 DEF vars
  <2>2. status' \in {"running", "completed", "errored"}  BY <2>1 DEF IInv, History
  <2> QED  BY <2>1, <2>2, SameKeeps
<1> QED  BY <1>1, <1>2, <1>3, <1>4, <1>5, <1>6, <1>7, <1>8 DEF Next, Proceed

-----------------------------------------------------------------------------
(* The theorems.                                                           *)

(* The journal, the script's position, the admission counters and the gate  *)
(* keep their types, and no branch ever runs ahead of its plan, whatever    *)
(* the script and however often it is stopped, crashes or is torn.          *)
THEOREM TypeCorrect == Spec => []TypeOK
<1>1. IInv => TypeOK
  <2> SUFFICES ASSUME IInv  PROVE TypeOK
    OBVIOUS
  <2>1. rows \in [Instance -> RowType] /\ life \in 1..MaxLives /\ stopped \in BOOLEAN
        /\ course \in {"kept", "left"} /\ told \in [Call -> 0..MaxLives] /\ status \in {"running", "completed", "errored"}
    BY DEF IInv, Rows, History
  <2>2. /\ log \in Seq(Instance) /\ order \in Seq(Instance) /\ cursor \in 0..Len(order)
        /\ live \in Seq(Instance) /\ due \in Seq(Instance) /\ parked \subseteq Instance
    BY DEF IInv, Gate, Apart
  <2>3. /\ pos \in [Branch -> Nat] /\ answered \in [Branch -> Nat] /\ pipe \in Seq(Branch)
        /\ \A b \in Branch : answered[b] <= pos[b] /\ pos[b] <= Len(Plan[b])
    BY DEF IInv, ScriptFits
  <2>4. /\ ordinal \in [Site -> Nat] /\ admitSeq \in [Actor -> Nat]
        /\ recorded \in [Actor -> Nat] /\ held \subseteq Instance
        /\ fresh \in [Actor -> Seq(Instance \X Call)]
    BY DEF IInv, Counted, Numbers, Placed
  <2> QED  BY <2>1, <2>2, <2>3, <2>4 DEF TypeOK, RowType
<1> QED  BY <1>1, InitFits, NextKeeps, PTL DEF Spec

(* In every journal a run can leave behind, after however many lives, the   *)
(* asks of an actor are numbered without gaps from 0 and its settled ones   *)
(* come before the others: what an actor is resumed with is the beginning   *)
(* of what it was asked.                                                    *)
THEOREM TranscriptsArePrefixes == Spec => []TranscriptIsPrefix
<1>1. IInv => TranscriptIsPrefix
  <2> SUFFICES ASSUME IInv, NEW a \in Actor
               PROVE  LET mine == {n \in Instance : rows[n] # NoRow /\ ActorOf(n) = a}
                      IN /\ {rows[n].seq : n \in mine} = 0..(Cardinality(mine) - 1)
                         /\ \A m, n \in mine :
                              rows[m].status = "running" /\ rows[n].status = "completed"
                                => rows[m].seq > rows[n].seq
    BY DEF TranscriptIsPrefix
  <2> DEFINE mine == {n \in Instance : rows[n] # NoRow /\ ActorOf(n) = a}
  <2>1. \A n \in Instance : rows[n] # NoRow <=> rows[n].status # "none"
    BY DEF IInv, Rows, NoRow
  <2>2. mine = Mine(rows, a)  BY <2>1 DEF Mine, ActorOf
  <2>3. Top(a) \in Nat /\ NumberedTo(rows, a, Top(a))  BY DEF IInv, Numbers, Top
  <2>4. \A n \in Mine(rows, a) : rows[n].seq \in Nat  BY DEF IInv, Rows, RowType, Mine
  <2>5. /\ Cardinality(Mine(rows, a)) = Top(a)
        /\ {rows[n].seq : n \in Mine(rows, a)} = 0..(Top(a) - 1)
    BY <2>3, <2>4, NumberedCount
  <2>6. \A m, n \in Mine(rows, a) :
          rows[m].status = "running" /\ rows[n].status = "completed" => rows[m].seq > rows[n].seq
    BY <2>3 DEF NumberedTo
  <2> HIDE DEF mine
  <2>7. /\ {rows[n].seq : n \in mine} = 0..(Cardinality(mine) - 1)
        /\ \A m, n \in mine :
             rows[m].status = "running" /\ rows[n].status = "completed" => rows[m].seq > rows[n].seq
    BY <2>2, <2>5, <2>6
  <2> QED  BY <2>7 DEF mine
<1> QED  BY <1>1, InitFits, NextKeeps, PTL DEF Spec

-----------------------------------------------------------------------------
(***************************************************************************)
(* That a replay meets what it has recorded, and tells one story.          *)
(*                                                                         *)
(* All calls of the run, over all its lives, can be put in one order: at   *)
(* gives each its place.  What has arrived comes before what is under way, *)
(* that before what the claimed answers will lead to; and a new life goes  *)
(* through the same calls in the same order, since the gate gives the      *)
(* recorded answers in the order they were first given in.  So the ordinal *)
(* of a call among the calls of its site is the same in every life, and    *)
(* the journal has that call, and no other, under it.                      *)
(***************************************************************************)

Began(c) == c[2] <= pos[c[1]]

CallOf(b) == <<b, pos[b] + 1>>

UnderWay == {CallOf(b) : b \in Elems(pipe)}

(* The call that the answer to n leads to, if the branch makes another.    *)
NextOf(n) == <<rows[n].call[1], rows[n].call[2] + 1>>

(* The recorded answers that are still to be given in this life.           *)
Rest == {order[i] : i \in (cursor + 1)..Len(order)}

Claims == Elems(due) \cup Rest

ToCome == {NextOf(n) : n \in Claims} \cap Call

(* The calls that have arrived, and that will without another live answer. *)
Line == {c \in Call : Began(c)} \cup UnderWay \cup ToCome

Sooner(at, m, n) ==
  NextOf(m) \in Call /\ NextOf(n) \in Call => at[NextOf(m)] < at[NextOf(n)]

(* The calls of this life are in their order, and top is behind all.       *)
InLine(at, top) ==
  /\ \A c \in Line : at[c] < top
  /\ \A c, d \in Line : Began(c) /\ ~Began(d) => at[c] < at[d]
  /\ \A i, j \in DOMAIN pipe : i < j => at[CallOf(pipe[i])] < at[CallOf(pipe[j])]
  /\ \A c \in UnderWay, d \in ToCome : at[c] < at[d]
  /\ \A i, j \in DOMAIN due : i < j => Sooner(at, due[i], due[j])
  /\ \A m \in Elems(due), n \in Rest : Sooner(at, m, n)
  /\ \A i, j \in (cursor + 1)..Len(order) : i < j => Sooner(at, order[i], order[j])

(* The calls a life begins with. *)
Firsts == {<<b, 1>> : b \in Branch}

(* The first events of the settled asks alone say which calls there are,   *)
(* and in which order.                                                     *)
Settled == {n \in Instance : rows[n].status = "completed"}

ByTheLog(at) ==
  /\ Settled \subseteq Elems(log)
  /\ Line = Firsts \cup ({NextOf(n) : n \in Settled} \cap Call)
  /\ \A i, j \in DOMAIN Branches : i < j => at[<<Branches[i], 1>>] < at[<<Branches[j], 1>>]
  /\ \A b \in Branch, n \in Settled : NextOf(n) \in Call => at[<<b, 1>>] < at[NextOf(n)]
  /\ \A i, j \in DOMAIN log :
       i < j /\ log[i] \in Settled /\ log[j] \in Settled => Sooner(at, log[i], log[j])

(* Instance n is the place of call c among the calls of its site.          *)
Canon(at, n, c) ==
  /\ c \in Line
  /\ n = <<Target(c).site,
           Cardinality({d \in Line : Target(d).site = Target(c).site /\ at[d] <= at[c]})>>

Canonical(at) ==
  /\ \A n \in Instance : rows[n].status # "none" => Canon(at, n, rows[n].call)
  /\ \A a \in Actor : \A q \in Elems(fresh[a]) : Canon(at, q[1], q[2])

(* A settled answer has been given in this life, or it is claimed.         *)
Claimed ==
  /\ \A n \in Elems(order) : rows[n].status = "completed"
  /\ Elems(due) \cap Rest = {}
  /\ \A n \in Instance : rows[n].status = "completed" =>
       (n \in Claims <=> rows[n].call[2] > answered[rows[n].call[1]])

(* What the script has heard is in the journal, and it has heard all that  *)
(* was answered in this life.                                              *)
Heard ==
  /\ \A n \in Instance : rows[n].status = "completed" => rows[n].result # 0
  /\ \A c \in Call : told[c] # 0 =>
       \E n \in Instance : rows[n].call = c /\ rows[n].status = "completed" /\ rows[n].result = told[c]
  /\ \A c \in Call : c[2] <= answered[c[1]] => told[c] # 0

RInv ==
  /\ status # "errored" /\ Claimed /\ Heard
  /\ \E at \in [Call -> Int], top \in Int :
       InLine(at, top) /\ Canonical(at) /\ ByTheLog(at)

Fit(at, top) ==
  /\ at \in [Call -> Int] /\ top \in Int
  /\ InLine(at, top) /\ Canonical(at) /\ ByTheLog(at)

(* The part of InLine that pump works on. *)
InOrder(at) ==
  /\ \A i, j \in DOMAIN due : i < j => Sooner(at, due[i], due[j])
  /\ \A m \in Elems(due), n \in Rest : Sooner(at, m, n)
  /\ \A i, j \in (cursor + 1)..Len(order) : i < j => Sooner(at, order[i], order[j])

(* The recorded asks in H have a row, and a settled one has its turn ahead. *)
HeldFits(H) ==
  \A n \in H : rows[n].status # "none" /\ (rows[n].status = "completed" => n \in Rest)

(* What a drain of the asks F of an actor changes when it answers nobody.  *)
Drained(at, a, F, p) ==
  /\ pipe' = p
  /\ answered' = answered /\ told' = told /\ log' = log /\ order' = order
  /\ Claims' = Claims /\ Elems(due') \cap Rest' = {}
  /\ \A i, j \in DOMAIN due' : i < j => Sooner(at, due'[i], due'[j])
  /\ \A m \in Elems(due'), n \in Rest' : Sooner(at, m, n)
  /\ \A i, j \in (cursor' + 1)..Len(order) : i < j => Sooner(at, order[i], order[j])
  /\ \A n \in Instance : \/ rows'[n] = rows[n]
                         \/ /\ rows[n].status = "none" /\ rows'[n].status = "running"
                            /\ <<n, rows'[n].call>> \in Elems(F)
  /\ \A d \in Actor : Elems(fresh'[d]) \subseteq IF d = a THEN Elems(F) ELSE Elems(fresh[d])

-----------------------------------------------------------------------------
(* The next place in a plan.                                                *)
LEMMA NextIsCall ==
  ASSUME NEW c \in Call
  PROVE  <<c[1], c[2] + 1>> \in Call <=> c[2] < Len(Plan[c[1]])
<1> DEFINE d == <<c[1], c[2] + 1>>
<1>1. c[1] \in Branch /\ c[2] \in 1..Len(Plan[c[1]]) /\ c[2] \in Nat  BY CallIsPlace
<1>2. Len(Plan[c[1]]) \in Nat  BY <1>1, ScriptAssumption, LenProperties
<1>3. d[1] = c[1] /\ d[2] = c[2] + 1  OBVIOUS
<1>4. CASE c[2] < Len(Plan[c[1]])
  <2>1. c[2] + 1 \in 1..Len(Plan[c[1]])  BY <1>1, <1>2, <1>4
  <2> QED  BY <2>1, <1>1, <1>4, CallIsPlace
<1>5. CASE d \in Call
  <2> HIDE DEF d
  <2>1. d[2] \in 1..Len(Plan[d[1]])  BY <1>5, CallIsPlace
  <2>2. c[2] + 1 <= Len(Plan[c[1]])  BY <2>1, <1>1, <1>2, <1>3
  <2> QED  BY <2>2, <1>1, <1>2, <1>5 DEF d
<1> QED  BY <1>4, <1>5

(* What the script has called and will call for by the answers it gets.     *)
LEMMA LineIsOfCalls ==
  ASSUME IInv
  PROVE  /\ Line \subseteq Call /\ IsFiniteSet(Line)
         /\ \A b \in Elems(pipe) : /\ b \in Branch /\ CallOf(b) \in Call
                                   /\ CallOf(b)[1] = b /\ CallOf(b)[2] = pos[b] + 1
                                   /\ pos[b] \in Nat /\ ~Began(CallOf(b))
<1>1. ASSUME NEW b \in Elems(pipe)
      PROVE  /\ b \in Branch /\ CallOf(b) \in Call
             /\ CallOf(b)[1] = b /\ CallOf(b)[2] = pos[b] + 1
             /\ pos[b] \in Nat /\ ~Began(CallOf(b))
  <2>1. pipe \in Seq(Branch) /\ pos \in [Branch -> Nat]  BY DEF IInv, ScriptFits
  <2>2. b \in Branch  BY <2>1, <1>1, SeqElems
  <2>3. pos[b] \in Nat /\ pos[b] < Len(Plan[b])
    BY <2>1, <2>2, <1>1 DEF IInv, ScriptFits
  <2>4. Len(Plan[b]) \in Nat  BY <2>2, ScriptAssumption, LenProperties
  <2>5. pos[b] + 1 \in 1..Len(Plan[b])  BY <2>3, <2>4
  <2>6. CallOf(b) \in Call  BY <2>2, <2>5, CallIsPlace DEF CallOf
  <2>7. CallOf(b)[1] = b /\ CallOf(b)[2] = pos[b] + 1  BY DEF CallOf
  <2>8. ~Began(CallOf(b))  BY <2>3, <2>7 DEF Began
  <2> QED  BY <2>2, <2>3, <2>6, <2>7, <2>8
<1>2. Line \subseteq Call  BY <1>1 DEF Line, UnderWay, ToCome
<1>3. IsFiniteSet(Line)  BY <1>2, CallsFinite, FS_Subset
<1> QED  BY <1>1, <1>2, <1>3

(* pump moves claims from the order to those that are due, and keeps the    *)
(* order of the calls they lead to.                                         *)
LEMMA PumpReplays ==
  ASSUME Gate, due \in Seq(Instance), Elems(due) \cap Rest = {}, NEW P, Pump(P), NEW at,
         \A i, j \in DOMAIN due : i < j => Sooner(at, due[i], due[j]),
         \A m \in Elems(due), n \in Rest : Sooner(at, m, n),
         \A i, j \in (cursor + 1)..Len(order) : i < j => Sooner(at, order[i], order[j])
  PROVE  /\ Elems(due') \cup Rest' = Claims /\ Elems(due') \cap Rest' = {}
         /\ \A i, j \in DOMAIN due' : i < j => Sooner(at, due'[i], due'[j])
         /\ \A m \in Elems(due'), n \in Rest' : Sooner(at, m, n)
         /\ \A i, j \in (cursor' + 1)..Len(order) : i < j => Sooner(at, order[i], order[j])
<1> DEFINE r == Reach(P)
           t == SubSeq(order, cursor + 1, r)
           len == Len(order)
<1>1. r \in cursor..len  BY ReachFits
<1> HIDE DEF r
<1>2. cursor \in 0..len /\ len \in Nat /\ order \in Seq(Instance) /\ Once(order)
      /\ DOMAIN order = 1..len
  BY LenProperties DEF Gate
<1>3. cursor' = r /\ due' = due \o t /\ order' = order  BY DEF Pump, r
<1>4. /\ t \in Seq(Instance) /\ Len(t) = r - cursor
      /\ Elems(t) = {order[i] : i \in (cursor + 1)..r}
  BY <1>1, <1>2, SliceOnce
<1>5. \A i \in 1..(r - cursor) : t[i] = order[cursor + i]
  <2>1. \A i \in (cursor + 1)..r : order[i] \in Instance  BY <1>1, <1>2, ElementOfSeq
  <2>2. cursor + 1 \in Int /\ r \in Int  BY <1>1, <1>2
  <2>3. \A i \in 1..(r - (cursor + 1) + 1) : t[i] = order[cursor + 1 + i - 1]
    BY <2>1, <2>2, SubSeqProperties
  <2> HIDE DEF t
  <2> QED  BY <2>3, <1>1, <1>2
<1> HIDE DEF t, len
<1>6. Rest = Elems(t) \cup Rest' /\ Rest' = {order[i] : i \in (r + 1)..len}
  <2>1. Rest = {order[i] : i \in (cursor + 1)..len}  BY DEF Rest, len
  <2>2. Rest' = {order[i] : i \in (r + 1)..len}  BY <1>3 DEF Rest, len
  <2>3. (cursor + 1)..len = (cursor + 1)..r \cup (r + 1)..len  BY <1>1, <1>2
  <2> QED  BY <2>1, <2>2, <2>3, <1>4
<1>7. Elems(t) \cap Rest' = {}
  <2> SUFFICES ASSUME NEW i \in (cursor + 1)..r, NEW j \in (r + 1)..len, order[i] = order[j]
               PROVE  FALSE
    BY <1>4, <1>6
  <2>1. i \in DOMAIN order /\ j \in DOMAIN order /\ i # j  BY <1>1, <1>2
  <2> QED  BY <2>1, <1>2 DEF Once
<1>8. Elems(due') = Elems(due) \cup Elems(t)  BY <1>3, <1>4, ConcatOnce
<1>9. Elems(due') \cup Rest' = Claims /\ Elems(due') \cap Rest' = {}
  BY <1>6, <1>7, <1>8 DEF Claims
<1>10. \A i, j \in (cursor + 1)..len : i < j => Sooner(at, order[i], order[j])
  BY DEF len
<1>11. \A i, j \in DOMAIN due' : i < j => Sooner(at, due'[i], due'[j])
  <2> DEFINE k == Len(due)
  <2>1. k \in Nat /\ DOMAIN due = 1..k /\ \A i \in 1..k : due[i] \in Elems(due)
    BY LenProperties DEF Elems
  <2>2. /\ DOMAIN due' = 1..(k + (r - cursor))
        /\ \A i \in 1..(k + (r - cursor)) : due'[i] = IF i <= k THEN due[i] ELSE t[i - k]
    <3>1. /\ due' \in Seq(Instance) /\ Len(due') = k + Len(t)
          /\ \A i \in 1..(k + Len(t)) : due'[i] = IF i <= k THEN due[i] ELSE t[i - k]
      BY <1>3, <1>4, ConcatProperties
    <3>2. DOMAIN due' = 1..Len(due')  BY <3>1, LenProperties
    <3> QED  BY <3>1, <3>2, <1>4
  <2> HIDE DEF k
  <2> SUFFICES ASSUME NEW i \in 1..(k + (r - cursor)), NEW j \in 1..(k + (r - cursor)), i < j
               PROVE  Sooner(at, due'[i], due'[j])
    BY <2>2
  <2>3. CASE j <= k
    <3>1. i \in DOMAIN due /\ j \in DOMAIN due /\ due'[i] = due[i] /\ due'[j] = due[j]
      BY <2>1, <2>2, <2>3, <1>1, <1>2
    <3> QED  BY <3>1
  <2>4. CASE i > k
    <3>1. /\ i - k \in 1..(r - cursor) /\ j - k \in 1..(r - cursor)
          /\ due'[i] = t[i - k] /\ due'[j] = t[j - k]
      BY <2>1, <2>2, <2>4, <1>1, <1>2
    <3>2. due'[i] = order[cursor + (i - k)] /\ due'[j] = order[cursor + (j - k)]
      BY <3>1, <1>5
    <3>3. /\ cursor + (i - k) \in (cursor + 1)..len /\ cursor + (j - k) \in (cursor + 1)..len
          /\ cursor + (i - k) < cursor + (j - k)
      BY <3>1, <2>1, <1>1, <1>2
    <3> QED  BY <3>2, <3>3, <1>10
  <2>5. CASE i <= k /\ j > k
    <3>1. due'[i] = due[i] /\ due[i] \in Elems(due)  BY <2>1, <2>2, <2>5, <1>1, <1>2
    <3>2. j - k \in 1..(r - cursor) /\ due'[j] = t[j - k]  BY <2>1, <2>2, <2>5, <1>1, <1>2
    <3>3. due'[j] = order[cursor + (j - k)] /\ cursor + (j - k) \in (cursor + 1)..r
      BY <3>2, <1>1, <1>2, <1>5
    <3>4. due'[j] \in Rest  BY <3>3, <1>4, <1>6
    <3> QED  BY <3>1, <3>4
  <2> QED  BY <2>1, <2>3, <2>4, <2>5
<1>12. \A m \in Elems(due'), n \in Rest' : Sooner(at, m, n)
  <2> SUFFICES ASSUME NEW m \in Elems(due'), NEW n \in Rest'  PROVE Sooner(at, m, n)
    OBVIOUS
  <2>1. CASE m \in Elems(due)  BY <2>1, <1>6
  <2>2. CASE m \in Elems(t)
    <3>1. PICK i \in (cursor + 1)..r : order[i] = m  BY <2>2, <1>4
    <3>2. PICK j \in (r + 1)..len : order[j] = n  BY <1>6
    <3>3. i \in (cursor + 1)..len /\ j \in (cursor + 1)..len /\ i < j
      BY <3>1, <3>2, <1>1, <1>2
    <3> QED  BY <3>1, <3>2, <3>3, <1>10
  <2> QED  BY <2>1, <2>2, <1>8
<1>13. \A i, j \in (cursor' + 1)..len : i < j => Sooner(at, order[i], order[j])
  <2> SUFFICES ASSUME NEW i \in (r + 1)..len, NEW j \in (r + 1)..len, i < j
               PROVE  Sooner(at, order[i], order[j])
    BY <1>3
  <2>1. i \in (cursor + 1)..len /\ j \in (cursor + 1)..len  BY <1>1, <1>2
  <2> QED  BY <2>1, <1>10
<1> QED  BY <1>9, <1>11, <1>12, <1>13 DEF len

(* Nothing is taken out of a sequence that has none of it.                  *)
LEMMA ThoseNone ==
  ASSUME NEW S, NEW s \in Seq(S), NEW P, Elems(s) \cap P = {}
  PROVE  Those(s, P) = <<>>
BY ThoseElems, NonemptyElems

(* Nobody is answered.                                                      *)
LEMMA AnswerNone ==
  ASSUME IInv, NEW rs, NEW p \in Seq(Branch), Answer(<<>>, rs, p)
  PROVE  pipe' = p /\ answered' = answered /\ told' = told
<1> DEFINE ns == <<>>
           branches == [i \in DOMAIN ns |-> rs[ns[i]].call[1]]
           calls == [i \in DOMAIN ns |-> rs[ns[i]].call]
           B == {b \in Branch : answered[b] + 1 < Len(Plan[b])}
<1>1. DOMAIN branches = {} /\ DOMAIN calls = {} /\ DOMAIN ns = {}  OBVIOUS
<1>2. answered' = answered
  <2>1. answered' = [b \in Branch |->
                       answered[b] + Cardinality({i \in DOMAIN ns : branches[i] = b})]
    BY DEF Answer
  <2>2. answered \in [Branch -> Nat]  BY DEF IInv, ScriptFits
  <2> HIDE DEF branches, ns
  <2>3. \A b \in Branch : {i \in DOMAIN ns : branches[i] = b} = {}  BY <1>1
  <2> QED  BY <2>1, <2>2, <2>3, FS_EmptySet
<1>3. told' = told
  <2>1. Elems(calls) = {}  BY <1>1 DEF Elems
  <2>2. told \in [Call -> 0..MaxLives]  BY DEF IInv, History
  <2>3. told' = [c \in Call |-> IF c \in Elems(calls)
                                THEN rs[CHOOSE n \in Elems(ns) : rs[n].call = c].result
                                ELSE told[c]]
    BY DEF Answer
  <2> HIDE DEF calls, ns
  <2> QED  BY <2>1, <2>2, <2>3
<1>4. pipe' = p
  <2>1. pipe' = p \o Those(branches, B)  BY DEF Answer
  <2>2. branches \in Seq(Branch) /\ Elems(branches) = {}
    <3>1. branches = <<>>  OBVIOUS
    <3> QED  BY <3>1, EmptyOnce
  <2> HIDE DEF branches
  <2>3. Those(branches, B) = <<>>  BY <2>2, ThoseNone
  <2> QED  BY <2>1, <2>3, ConcatEmptySeq
<1> QED  BY <1>2, <1>3, <1>4

(* As long as all that waits and was settled has its place in the order,    *)
(* the drain answers nobody: it admits, and pump releases what is next.     *)
LEMMA DrainReplays ==
  ASSUME IInv, Claimed, NEW a \in Actor, NEW H \in SUBSET Instance,
         NEW F \in Seq(Instance \X Call), NEW p \in Seq(Branch),
         AllNew(a, F), DrainAdmission(a, H, F, p), HeldFits(H), NEW at, InOrder(at)
  PROVE  Drained(at, a, F, p)
<1> DEFINE s == InTurn(a, H)
           cached == {n \in Elems(s) : rows[n].status = "completed"}
           early == {n \in cached : ~HasPlace(n)}
           atOnce == Those(s, early)
           next == admitSeq[a] + Len(s)
           new == IF FreshAdmissible(a, next) THEN F ELSE <<>>
           P == parked \cup (cached \ Elems(atOnce))
<1>1. /\ fresh' = [fresh EXCEPT ![a] = IF new = <<>> THEN F ELSE <<>>]
      /\ rows' = [n \in Instance |->
                   IF \E i \in DOMAIN new : new[i][1] = n
                   THEN LET i == CHOOSE i \in DOMAIN new : new[i][1] = n
                        IN [call |-> new[i][2], seq |-> next + i - 1,
                            status |-> "running", result |-> 0]
                   ELSE rows[n]]
      /\ Record(atOnce)
      /\ Answer(atOnce, rows, p)
      /\ Pump(P)
  BY DEF DrainAdmission
<1>2. s \in Seq(Instance) /\ Elems(s) \subseteq H /\ next \in Nat
  BY InTurnFits DEF IInv, HeldFits
<1>3. Rows /\ Gate /\ log \in Seq(Instance) /\ due \in Seq(Instance)
      /\ fresh \in [Actor -> Seq(Instance \X Call)]
  BY DEF IInv, Gate, Apart, Placed
<1>4. early = {}  BY <1>2 DEF HasPlace, Rest, HeldFits
<1>5. new \in Seq(Instance \X Call) /\ AllNew(a, new)
      /\ Elems(new) \subseteq Elems(F)
  <2>1. <<>> \in Seq(Instance \X Call) /\ AllNew(a, <<>>)  BY DEF AllNew
  <2> QED  BY <2>1, EmptyOnce
<1> HIDE DEF s, next, new, early
<1>6. atOnce = <<>>
  <2>1. Elems(s) \cap early = {}  BY <1>4
  <2> QED  BY <2>1, <1>2, ThoseNone
<1> HIDE DEF cached, atOnce
<1>7. pipe' = p /\ answered' = answered /\ told' = told
  BY <1>1, <1>6, AnswerNone
<1>8. log' = log
  <2>1. <<>> \in Seq(Instance) /\ Elems(<<>>) = {}  BY EmptyOnce
  <2>2. Those(<<>>, Instance \ Elems(log)) = <<>>  BY <2>1, ThoseNone
  <2> QED  BY <1>1, <1>3, <1>6, <2>2, ConcatEmptySeq DEF Record
<1> HIDE DEF P
<1>9. /\ Elems(due') \cup Rest' = Claims /\ Elems(due') \cap Rest' = {}
      /\ \A i, j \in DOMAIN due' : i < j => Sooner(at, due'[i], due'[j])
      /\ \A m \in Elems(due'), n \in Rest' : Sooner(at, m, n)
      /\ \A i, j \in (cursor' + 1)..Len(order) : i < j => Sooner(at, order[i], order[j])
  <2>1. Elems(due) \cap Rest = {}  BY DEF Claimed
  <2> QED  BY <2>1, <1>1, <1>3, PumpReplays DEF InOrder
<1>10. Claims' = Claims /\ order' = order  BY <1>1, <1>9 DEF Claims, Pump
<1>11. RowsWritten(next, new)  BY <1>1, <1>2, <1>3, <1>5, RowsAreWritten
<1>12. \A n \in Instance : \/ rows'[n] = rows[n]
                           \/ /\ rows[n].status = "none" /\ rows'[n].status = "running"
                              /\ <<n, rows'[n].call>> \in Elems(F)
  <2> SUFFICES ASSUME NEW n \in Instance, rows'[n] # rows[n]
               PROVE  /\ rows[n].status = "none" /\ rows'[n].status = "running"
                      /\ <<n, rows'[n].call>> \in Elems(F)
    OBVIOUS
  <2>1. PICK i \in DOMAIN new : n = new[i][1]  BY <1>11 DEF RowsWritten
  <2>2. rows'[n] = NewRow(next, new, i)  BY <2>1, <1>11 DEF RowsWritten
  <2>3. rows'[n].status = "running" /\ rows'[n].call = new[i][2]  BY <2>2 DEF NewRow
  <2>4. rows[n].status = "none"  BY <2>1, <1>5 DEF AllNew
  <2>5. new[i] \in Elems(new) /\ new[i] \in Instance \X Call
    BY <2>1, <1>5, SeqElems DEF Elems
  <2>6. new[i] = <<n, rows'[n].call>>  BY <2>1, <2>3, <2>5
  <2> QED  BY <2>3, <2>4, <2>5, <2>6, <1>5
<1>13. ASSUME NEW d \in Actor
       PROVE  Elems(fresh'[d]) \subseteq IF d = a THEN Elems(F) ELSE Elems(fresh[d])
  <2>1. CASE d = a  BY <2>1, <1>1, <1>3, EmptyOnce
  <2>2. CASE d # a  BY <2>2, <1>1, <1>3
  <2> QED  BY <2>1, <2>2
<1> QED  BY <1>7, <1>8, <1>9, <1>10, <1>12, <1>13 DEF Drained

(* The call that arrives has the ordinal of its place among all calls, and  *)
(* the journal can have no other call there.                                *)
LEMMA ArrivesInTurn ==
  ASSUME IInv, NEW at, NEW top, Fit(at, top), Arrive
  PROVE  LET n == Arriving.instance
             c == Arriving.call
         IN /\ pipe # <<>> /\ c = CallOf(Head(pipe)) /\ c \in UnderWay /\ c \in Call
            /\ Canon(at, n, c)
            /\ rows[n].status # "none" => rows[n].call = c
            /\ c[2] = answered[c[1]] + 1 /\ answered[c[1]] \in Nat
            /\ \A d \in Call : Began(d)' <=> (Began(d) \/ d = c)
            /\ \A b \in Elems(Tail(pipe)) : CallOf(b)' = CallOf(b) /\ b \in Elems(pipe)
                                            /\ CallOf(b) # c
            /\ \A d \in Line : IF Began(d) THEN at[d] < at[c]
                                           ELSE d # c => at[c] < at[d]
<1> DEFINE b == Head(pipe)
           c == CallOf(b)
           s == Target(c).site
           n == Arriving.instance
           same == {d \in Line : Target(d).site = s}
           upTo(d) == {e \in same : at[e] <= at[d]}
<1>1. Arriving.call = c  BY DEF Arriving, CallOf
<1>2. /\ pipe # <<>> /\ pos' = [pos EXCEPT ![b] = pos[b] + 1]
  BY DEF Arrive
<1>3. pipe \in Seq(Branch) /\ Once(pipe) /\ pos \in [Branch -> Nat] /\ answered \in [Branch -> Nat]
      /\ at \in [Call -> Int]
  BY DEF IInv, ScriptFits, Fit
<1>4. /\ b \in Elems(pipe) /\ Elems(Tail(pipe)) = Elems(pipe) \ {b}
  BY <1>2, <1>3, TailOnce
<1>5. /\ b \in Branch /\ c \in Call /\ c[1] = b /\ c[2] = pos[b] + 1 /\ pos[b] \in Nat /\ ~Began(c)
      /\ Line \subseteq Call /\ IsFiniteSet(Line)
  BY <1>4, LineIsOfCalls
<1>6. pos[b] = answered[b]  BY <1>4 DEF IInv, ScriptFits
<1>7. c \in UnderWay /\ c \in Line /\ s \in Site  BY <1>4, <1>5, CallIsPlace DEF UnderWay, Line
<1>8. b = pipe[1] /\ 1 \in DOMAIN pipe /\ \A j \in DOMAIN pipe : pipe[j] # b => 1 < j
  <2>1. DOMAIN pipe = 1..Len(pipe) /\ Len(pipe) \in Nat /\ Len(pipe) # 0
    BY <1>2, <1>3, LenProperties, EmptySeq
  <2>2. b = pipe[1]  BY <1>2, <1>3, HeadTailProperties
  <2> QED  BY <2>1, <2>2
<1> HIDE DEF b
<1>9. \A d \in Call : Began(d)' <=> (Began(d) \/ d = c)
  <2> TAKE d \in Call
  <2>1. d = <<d[1], d[2]>> /\ d[1] \in Branch /\ d[2] \in Nat  BY CallIsPlace
  <2>2. c = <<b, pos[b] + 1>>  BY DEF CallOf
  <2>3. CASE d[1] = b
    <3>1. pos'[d[1]] = pos[b] + 1  BY <2>3, <1>2, <1>3, <1>5
    <3>2. d = c <=> d[2] = pos[b] + 1  BY <2>1, <2>2, <2>3
    <3> HIDE DEF c
    <3> QED  BY <2>1, <2>3, <3>1, <3>2, <1>5 DEF Began
  <2>4. CASE d[1] # b
    <3>1. pos'[d[1]] = pos[d[1]]  BY <2>1, <2>4, <1>2, <1>3
    <3>2. d # c  BY <2>4, <1>5
    <3> HIDE DEF c
    <3> QED  BY <3>1, <3>2 DEF Began
  <2> QED  BY <2>3, <2>4
<1>10. \A d \in Elems(Tail(pipe)) : CallOf(d)' = CallOf(d) /\ d \in Elems(pipe) /\ CallOf(d) # c
  <2> TAKE d \in Elems(Tail(pipe))
  <2>1. d \in Elems(pipe) /\ d # b  BY <1>4
  <2>2. d \in Branch /\ CallOf(d)[1] = d  BY <2>1, LineIsOfCalls
  <2>3. pos'[d] = pos[d]  BY <2>1, <2>2, <1>2, <1>3
  <2> QED  BY <2>1, <2>2, <2>3, <1>5 DEF CallOf
<1>11. \A d \in Line : IF Began(d) THEN at[d] < at[c] ELSE d # c => at[c] < at[d]
  <2> SUFFICES ASSUME NEW d \in Line
               PROVE  IF Began(d) THEN at[d] < at[c] ELSE d # c => at[c] < at[d]
    OBVIOUS
  <2>1. CASE Began(d)  BY <2>1, <1>5, <1>7 DEF Fit, InLine
  <2>2. CASE d \in UnderWay /\ d # c
    <3>1. PICK e \in Elems(pipe) : d = CallOf(e)  BY <2>2 DEF UnderWay
    <3>2. PICK j \in DOMAIN pipe : pipe[j] = e  BY <3>1 DEF Elems
    <3>3. 1 < j  BY <3>1, <3>2, <2>2, <1>8
    <3>4. at[CallOf(pipe[1])] < at[CallOf(pipe[j])]  BY <3>2, <3>3, <1>8 DEF Fit, InLine
    <3>5. ~Began(d)  BY <3>1, LineIsOfCalls
    <3> QED  BY <3>1, <3>2, <3>4, <3>5, <1>8
  <2>3. CASE d \in ToCome  BY <2>1, <2>3, <1>7 DEF Fit, InLine
  <2> HIDE DEF c
  <2> QED  BY <2>1, <2>2, <2>3 DEF Line
<1> HIDE DEF c
<1>12. upTo(c) = CallsOf(s, pos')
  <2>1. ASSUME NEW d \in upTo(c)  PROVE d \in CallsOf(s, pos')
    <3>1. d \in Line /\ d \in Call /\ Target(d).site = s /\ at[d] <= at[c]  BY <2>1, <1>5
    <3>2. at[d] \in Int /\ at[c] \in Int  BY <3>1, <1>3, <1>5
    <3>3. Began(d) \/ d = c  BY <3>1, <3>2, <1>11
    <3>4. Began(d)'  BY <3>1, <3>3, <1>9
    <3> QED  BY <3>1, <3>4 DEF CallsOf, Began
  <2>2. ASSUME NEW d \in CallsOf(s, pos')  PROVE d \in upTo(c)
    <3>1. d \in Call /\ Target(d).site = s /\ Began(d)'  BY <2>2 DEF CallsOf, Began
    <3>2. Began(d) \/ d = c  BY <3>1, <1>9
    <3>3. d \in Line  BY <3>1, <3>2, <1>7 DEF Line
    <3>4. at[d] \in Int /\ at[c] \in Int  BY <3>1, <1>3, <1>5
    <3>5. at[d] <= at[c]  BY <3>2, <3>3, <3>4, <1>11
    <3> QED  BY <3>1, <3>3, <3>5
  <2> QED  BY <2>1, <2>2
<1>13. n \in Instance /\ n = <<s, Cardinality(upTo(c))>>
  <2>1. n \in Instance /\ n[2] = ordinal'[n[1]] /\ Counted(ordinal', pos')
    BY ArriveFits
  <2>2. n[1] = s  BY DEF Arriving, s, c, CallOf, b
  <2>3. n = <<n[1], n[2]>>  BY <2>1, InstanceIsOrdinal
  <2>4. n[2] = Cardinality(CallsOf(s, pos'))  BY <2>1, <2>2, <1>7 DEF Counted
  <2> QED  BY <2>1, <2>2, <2>3, <2>4, <1>12
<1>14. Canon(at, n, c)
  <2>1. upTo(c) = {d \in Line : Target(d).site = Target(c).site /\ at[d] <= at[c]}
    OBVIOUS
  <2> HIDE DEF upTo, n, s
  <2> QED  BY <2>1, <1>7, <1>13 DEF Canon, s
<1>15. ASSUME rows[n].status # "none"  PROVE rows[n].call = c
  <2> DEFINE d == rows[n].call
  <2>1. Canon(at, n, d)  BY <1>13, <1>15 DEF Fit, Canonical
  <2>2. d \in Line /\ d \in Call /\ Target(d).site = s
        /\ Cardinality(upTo(d)) = Cardinality(upTo(c))
    <3>1. d \in Line
          /\ n = <<Target(d).site,
                   Cardinality({e \in Line : Target(e).site = Target(d).site /\ at[e] <= at[d]})>>
      BY <2>1 DEF Canon
    <3>2. Target(d).site = s  BY <3>1, <1>13
    <3>3. upTo(d) = {e \in Line : Target(e).site = Target(d).site /\ at[e] <= at[d]}
      BY <3>2
    <3> HIDE DEF upTo, d, n, s
    <3> QED  BY <3>1, <3>2, <3>3, <1>5, <1>13
  <2> HIDE DEF d
  <2>3. at[c] \in Int /\ at[d] \in Int /\ \A e \in Line : at[e] \in Int  BY <2>2, <1>3, <1>5
  <2>4. IsFiniteSet(upTo(c)) /\ IsFiniteSet(upTo(d))
    <3>1. upTo(c) \in SUBSET Line /\ upTo(d) \in SUBSET Line  OBVIOUS
    <3> HIDE DEF upTo
    <3> QED  BY <3>1, <1>5, FS_Subset
  <2>5. ASSUME d # c  PROVE FALSE
    <3>1. at[d] < at[c] \/ at[c] < at[d]  BY <2>2, <2>5, <1>11
    <3>2. CASE at[d] < at[c]
      <4>1. upTo(d) \subseteq upTo(c) /\ c \in upTo(c) /\ c \notin upTo(d)
        BY <3>2, <2>3, <1>7
      <4> HIDE DEF upTo
      <4>2. upTo(d) \in SUBSET upTo(c) /\ upTo(d) # upTo(c)  BY <4>1
      <4> QED  BY <4>2, <2>2, <2>4, FS_Subset
    <3>3. CASE at[c] < at[d]
      <4>1. upTo(c) \subseteq upTo(d) /\ d \in upTo(d) /\ d \notin upTo(c)
        BY <3>3, <2>2, <2>3
      <4> HIDE DEF upTo
      <4>2. upTo(c) \in SUBSET upTo(d) /\ upTo(d) # upTo(c)  BY <4>1
      <4> QED  BY <4>2, <2>2, <2>4, FS_Subset
    <3> QED  BY <3>1, <3>2, <3>3
  <2> QED  BY <2>5 DEF d
<1> QED  BY <1>1, <1>2, <1>5, <1>6, <1>3, <1>7, <1>9, <1>10, <1>11, <1>14, <1>15 DEF c, b

(* What is claimed was settled.                                             *)
LEMMA ClaimsAreSettled ==
  ASSUME IInv, Claimed
  PROVE  /\ \A n \in Claims : n \in Instance /\ rows[n].status = "completed"
         /\ \A n \in Elems(order) : n \in Instance /\ rows[n].status = "completed"
         /\ \A n \in Elems(log) : n \in Instance
         /\ Rest \subseteq Elems(order) /\ Rest \subseteq Claims /\ Elems(due) \subseteq Claims
<1>1. order \in Seq(Instance) /\ log \in Seq(Instance) /\ cursor \in 0..Len(order)
  BY DEF IInv, Gate
<1>2. \A n \in Elems(order) : n \in Instance /\ rows[n].status = "completed"
  BY <1>1, SeqElems DEF Claimed
<1>3. Rest \subseteq Elems(order)
  <2>1. DOMAIN order = 1..Len(order) /\ Len(order) \in Nat  BY <1>1, LenProperties
  <2>2. (cursor + 1)..Len(order) \subseteq DOMAIN order  BY <2>1, <1>1
  <2> QED  BY <2>2 DEF Rest, Elems
<1>4. \A n \in Elems(due) : n \in Instance /\ rows[n].status = "completed"
  BY SeqElems DEF IInv, Apart
<1> QED  BY <1>1, <1>2, <1>3, <1>4, SeqElems DEF Claims

(* A call arrives and the drain answers nobody: the order of all calls is   *)
(* what it was.                                                             *)
LEMMA ArrivalFits ==
  ASSUME IInv, Claimed, Heard, NEW at, NEW top, Fit(at, top), Arrive,
         pipe' = Tail(pipe),
         answered' = answered, told' = told, log' = log, order' = order,
         Claims' = Claims, Elems(due') \cap Rest' = {},
         \A i, j \in DOMAIN due' : i < j => Sooner(at, due'[i], due'[j]),
         \A m \in Elems(due'), n \in Rest' : Sooner(at, m, n),
         \A i, j \in (cursor' + 1)..Len(order) : i < j => Sooner(at, order[i], order[j]),
         cursor' \in 0..Len(order),
         NEW New, \A q \in New : Canon(at, q[1], q[2]),
         \A n \in Instance : \/ rows'[n] = rows[n]
                             \/ /\ rows[n].status = "none" /\ rows'[n].status = "running"
                                /\ <<n, rows'[n].call>> \in New,
         \A d \in Actor : Elems(fresh'[d]) \subseteq New
  PROVE  Claimed' /\ Heard' /\ Fit(at, top)'
<1> DEFINE c == Arriving.call
<1>1. /\ pipe # <<>> /\ c = CallOf(Head(pipe)) /\ c \in UnderWay /\ c \in Call
      /\ \A d \in Call : Began(d)' <=> (Began(d) \/ d = c)
      /\ \A b \in Elems(Tail(pipe)) : CallOf(b)' = CallOf(b) /\ b \in Elems(pipe)
                                      /\ CallOf(b) # c
      /\ \A d \in Line : IF Began(d) THEN at[d] < at[c] ELSE d # c => at[c] < at[d]
  BY ArrivesInTurn
<1> HIDE DEF c
<1>2. /\ \A n \in Claims : n \in Instance /\ rows[n].status = "completed"
      /\ \A n \in Elems(order) : n \in Instance /\ rows[n].status = "completed"
      /\ \A n \in Elems(log) : n \in Instance
  BY ClaimsAreSettled
<1>3. /\ \A n \in Instance : rows[n].status = "completed" =>
           rows'[n] = rows[n] /\ NextOf(n)' = NextOf(n)
      /\ \A n \in Instance : rows'[n].status = "completed" => rows'[n] = rows[n]
  BY DEF NextOf
<1>4. \A m, n : m \in Instance /\ n \in Instance
                /\ rows[m].status = "completed" /\ rows[n].status = "completed"
                => (Sooner(at, m, n)' <=> Sooner(at, m, n))
  BY <1>3 DEF Sooner
<1>5. ToCome' = ToCome
  <2>1. {NextOf(n) : n \in Claims}' = {NextOf(n) : n \in Claims}  BY <1>2, <1>3
  <2> QED  BY <2>1 DEF ToCome
<1>6. UnderWay' = UnderWay \ {c}
  <2>1. Elems(Tail(pipe)) = Elems(pipe) \ {Head(pipe)}
    BY <1>1, TailOnce DEF IInv, ScriptFits
  <2>2. UnderWay' = {CallOf(b) : b \in Elems(Tail(pipe))}  BY <1>1 DEF UnderWay
  <2> QED  BY <2>1, <2>2, <1>1 DEF UnderWay
<1>7. Line' = Line
  <2>1. {d \in Call : Began(d)}' = {d \in Call : Began(d)} \cup {c}  BY <1>1
  <2> QED  BY <2>1, <1>1, <1>5, <1>6 DEF Line
<1>8. /\ Line \subseteq Call /\ \A b \in Elems(pipe) : b \in Branch
      /\ Rest' \subseteq Claims /\ Elems(due') \subseteq Claims
  BY LineIsOfCalls DEF Claims
<1>9. InLine(at, top)'
  <2>1. \A d \in Line : at[d] < top  BY DEF Fit, InLine
  <2>2. ASSUME NEW d \in Line, NEW e \in Line, Began(d)', ~Began(e)'  PROVE at[d] < at[e]
    <3>1. d \in Call /\ e \in Call  BY <1>8
    <3>2. (Began(d) \/ d = c) /\ ~Began(e) /\ e # c  BY <2>2, <3>1, <1>1
    <3>3. Began(d) => at[d] < at[e]  BY <3>2 DEF Fit, InLine
    <3>4. d = c => at[d] < at[e]  BY <3>2, <1>1
    <3> QED  BY <3>2, <3>3, <3>4
  <2>3. ASSUME NEW i \in DOMAIN pipe', NEW j \in DOMAIN pipe', i < j
        PROVE  at[CallOf(pipe[i])'] < at[CallOf(pipe[j])']
    <3>1. /\ pipe \in Seq(Branch) /\ Tail(pipe) \in Seq(Branch) /\ Len(Tail(pipe)) = Len(pipe) - 1
          /\ \A k \in 1..Len(Tail(pipe)) : Tail(pipe)[k] = pipe[k + 1]
      BY <1>1, HeadTailProperties DEF IInv, ScriptFits
    <3>2. /\ DOMAIN pipe = 1..Len(pipe) /\ Len(pipe) \in Nat
          /\ DOMAIN Tail(pipe) = 1..(Len(pipe) - 1)
      BY <3>1, LenProperties
    <3>3. /\ i + 1 \in DOMAIN pipe /\ j + 1 \in DOMAIN pipe /\ i + 1 < j + 1
          /\ pipe'[i] = pipe[i + 1] /\ pipe'[j] = pipe[j + 1]
      BY <2>3, <3>1, <3>2
    <3>4. pipe'[i] \in Elems(Tail(pipe)) /\ pipe'[j] \in Elems(Tail(pipe))
      BY <2>3 DEF Elems
    <3>5. CallOf(pipe[i])' = CallOf(pipe[i + 1]) /\ CallOf(pipe[j])' = CallOf(pipe[j + 1])
      BY <3>3, <3>4, <1>1
    <3>6. at[CallOf(pipe[i + 1])] < at[CallOf(pipe[j + 1])]  BY <3>3 DEF Fit, InLine
    <3> QED  BY <3>5, <3>6
  <2>4. \A d \in UnderWay', e \in ToCome' : at[d] < at[e]  BY <1>5, <1>6 DEF Fit, InLine
  <2>5. ASSUME NEW i \in DOMAIN due', NEW j \in DOMAIN due', i < j
        PROVE  Sooner(at, due[i], due[j])'
    <3>1. due'[i] \in Claims /\ due'[j] \in Claims  BY <1>8 DEF Elems
    <3>2. Sooner(at, due'[i], due'[j])  BY <2>5
    <3>3. NextOf(due'[i]) = NextOf(due[i])' /\ NextOf(due'[j]) = NextOf(due[j])'
      <4> DEFINE x == due'[i]
                 y == due'[j]
      <4>1. rows'[x] = rows[x] /\ rows'[y] = rows[y]  BY <3>1, <1>2, <1>3
      <4> QED  BY <4>1 DEF NextOf
    <3> QED  BY <3>2, <3>3 DEF Sooner
  <2>6. ASSUME NEW m \in Elems(due'), NEW n \in Rest'  PROVE Sooner(at, m, n)'
    BY <1>2, <1>4, <1>8
  <2>7. ASSUME NEW i \in (cursor' + 1)..Len(order), NEW j \in (cursor' + 1)..Len(order), i < j
        PROVE  Sooner(at, order[i], order[j])'
    <3>1. order[i] \in Elems(order) /\ order[j] \in Elems(order)
      <4>1. DOMAIN order = 1..Len(order) /\ Len(order) \in Nat
        BY LenProperties DEF IInv, Gate
      <4>2. i \in DOMAIN order /\ j \in DOMAIN order  BY <4>1
      <4> QED  BY <4>2 DEF Elems
    <3>2. Sooner(at, order[i], order[j])  BY <2>7
    <3>3. NextOf(order[i])' = NextOf(order[i]) /\ NextOf(order[j])' = NextOf(order[j])
      BY <3>1, <1>2, <1>3 DEF NextOf
    <3> QED  BY <3>2, <3>3 DEF Sooner
  <2> QED  BY <2>1, <2>2, <2>3, <2>4, <2>5, <2>6, <2>7, <1>7 DEF InLine
<1>10. \A n, d : Canon(at, n, d)' <=> Canon(at, n, d)
  BY <1>7 DEF Canon
<1>11. Canonical(at)'
  <2>1. ASSUME NEW n \in Instance, rows'[n].status # "none"  PROVE Canon(at, n, rows[n].call)'
    <3>1. CASE rows'[n] = rows[n]
      <4>1. Canon(at, n, rows[n].call)  BY <2>1, <3>1 DEF Fit, Canonical
      <4> QED  BY <4>1, <3>1, <1>7 DEF Canon
    <3>2. CASE <<n, rows'[n].call>> \in New
      <4>1. Canon(at, n, rows'[n].call)  BY <3>2
      <4> QED  BY <4>1, <1>7 DEF Canon
    <3> QED  BY <3>1, <3>2
  <2>2. \A d \in Actor : \A q \in Elems(fresh'[d]) : Canon(at, q[1], q[2])'
    BY <1>10
  <2> QED  BY <2>1, <2>2 DEF Canonical
<1>12. \A n \in Instance : rows'[n].status = "completed" <=> rows[n].status = "completed"
  BY <1>3
<1>13. ByTheLog(at)'
  <2>1. ByTheLog(at)  BY DEF Fit
  <2>2. Settled' = Settled /\ \A n \in Settled : NextOf(n)' = NextOf(n)
    BY <1>3, <1>12 DEF Settled
  <2>3. (Line = Firsts \cup ({NextOf(n) : n \in Settled} \cap Call))'
    <3>1. {NextOf(n) : n \in Settled}' = {NextOf(n) : n \in Settled}  BY <2>2
    <3>2. Firsts' = Firsts  BY DEF Firsts
    <3> QED  BY <2>1, <3>1, <3>2, <1>7 DEF ByTheLog
  <2>4. \A i, j \in DOMAIN log :
          i < j /\ log[i] \in Settled /\ log[j] \in Settled => Sooner(at, log[i], log[j])'
    <3> SUFFICES ASSUME NEW i \in DOMAIN log, NEW j \in DOMAIN log, i < j,
                        log[i] \in Settled, log[j] \in Settled
                 PROVE  Sooner(at, log[i], log[j])'
      OBVIOUS
    <3>1. NextOf(log[i])' = NextOf(log[i]) /\ NextOf(log[j])' = NextOf(log[j])
      BY <2>2 DEF NextOf
    <3>2. Sooner(at, log[i], log[j])  BY <2>1 DEF ByTheLog
    <3> QED  BY <3>1, <3>2 DEF Sooner
  <2>5. (Settled \subseteq Elems(log))'
    BY <2>1, <2>2 DEF ByTheLog
  <2>6. \A b \in Branch, n \in Settled' :
          NextOf(n)' \in Call => at[<<b, 1>>] < at[NextOf(n)']
    BY <2>1, <2>2 DEF ByTheLog
  <2>7. \A i, j \in DOMAIN Branches : i < j => at[<<Branches[i], 1>>] < at[<<Branches[j], 1>>]
    BY <2>1 DEF ByTheLog
  <2> QED  BY <2>2, <2>3, <2>4, <2>5, <2>6, <2>7 DEF ByTheLog
<1>14. Claimed'
  <2>1. \A n \in Instance : rows'[n].status = "completed" =>
          (n \in Claims' <=> rows'[n].call[2] > answered'[rows'[n].call[1]])
    BY <1>3 DEF Claimed
  <2>2. \A n \in Elems(order') : rows'[n].status = "completed"  BY <1>2, <1>3
  <2> QED  BY <2>1, <2>2 DEF Claimed
<1>15. Heard'
  <2>1. \A n \in Instance : rows'[n].status = "completed" => rows'[n].result # 0
    BY <1>3 DEF Heard
  <2>2. ASSUME NEW d \in Call, told'[d] # 0
        PROVE  \E n \in Instance : rows'[n].call = d /\ rows'[n].status = "completed"
                                   /\ rows'[n].result = told'[d]
    <3>1. PICK n \in Instance : rows[n].call = d /\ rows[n].status = "completed"
                                /\ rows[n].result = told[d]
      BY <2>2 DEF Heard
    <3> QED  BY <3>1, <1>3
  <2> QED  BY <2>1, <2>2 DEF Heard
<1> QED  BY <1>9, <1>11, <1>13, <1>14, <1>15 DEF Fit

(* A settled answer that is not due yet waits its turn.                     *)
LEMMA WaitsItsTurn ==
  ASSUME IInv, Claimed, NEW n \in Instance, rows[n].status = "completed", n \notin Elems(due),
         rows[n].call[2] = answered[rows[n].call[1]] + 1, answered[rows[n].call[1]] \in Nat
  PROVE  n \in Rest
<1>1. n \in Claims <=> rows[n].call[2] > answered[rows[n].call[1]]  BY DEF Claimed
<1>2. n \in Claims  BY <1>1
<1> QED  BY <1>2 DEF Claims

(* So does a recorded ask that is held back.                                *)
LEMMA HeldWaits ==
  ASSUME IInv, Claimed, NEW n \in held, rows[n].status = "completed"
  PROVE  n \in Rest
<1> DEFINE q == <<n, rows[n].call>>
<1>1. n \in Instance /\ n \notin Elems(due)  BY DEF IInv, Placed
<1>2. q \in Asked(rows, Waiting, fresh)  BY DEF Asked, Waiting
<1>3. q[2] = rows[n].call  OBVIOUS
<1> HIDE DEF q
<1>4. q[2] \in Call /\ q[2][2] = pos[q[2][1]] /\ pos[q[2][1]] = answered[q[2][1]] + 1
  BY <1>2 DEF IInv, ScriptFits
<1>5. answered[q[2][1]] \in Nat  BY <1>4, CallIsPlace DEF IInv, ScriptFits
<1> QED  BY <1>1, <1>3, <1>4, <1>5, WaitsItsTurn

(* A recorded call finds itself in the journal.                             *)
LEMMA AskRecordedReplays ==
  ASSUME IInv, status # "errored", Claimed, Heard, NEW at, NEW top, Fit(at, top), AskRecorded
  PROVE  Claimed' /\ Heard' /\ Fit(at, top)' /\ status' # "errored" /\ told' = told
<1> DEFINE n == Arriving.instance
           c == Arriving.call
           a == Target(c).actor
           H == held \cup {n}
           F == fresh[a]
           New == UNION {Elems(fresh[d]) : d \in Actor}
<1>1. Arrive /\ rows[n] # NoRow  BY DEF AskRecorded
<1>2. n \in Instance /\ c \in Call /\ n \notin Waiting  BY <1>1, ArriveFits
<1>3. rows[n].status # "none"  BY <1>1, <1>2 DEF IInv, Rows
<1>4. rows[n].call = c /\ c[2] = answered[c[1]] + 1 /\ answered[c[1]] \in Nat
  BY <1>1, <1>3, ArrivesInTurn
<1>5. DrainAdmission(a, H, F, Tail(pipe))  BY <1>4 DEF AskRecorded
<1>17. status' = status  BY <1>4 DEF AskRecorded
<1>6. a \in Actor  BY <1>2, CallIsPlace
<1> HIDE DEF n, c, a
<1>7. fresh \in [Actor -> Seq(Instance \X Call)] /\ F \in Seq(Instance \X Call) /\ AllNew(a, F)
  BY <1>6 DEF IInv, Placed, AllNew
<1>8. Tail(pipe) \in Seq(Branch)
  BY <1>1, HeadTailProperties DEF Arrive, IInv, ScriptFits
<1>9. \A m \in H : rows[m].status # "none" /\ (rows[m].status = "completed" => m \in Rest)
  <2>1. n \notin Elems(due)  BY <1>2 DEF Waiting
  <2>2. rows[n].status = "completed" => n \in Rest  BY <2>1, <1>2, <1>4, WaitsItsTurn
  <2>3. \A m \in held : rows[m].status # "none"  BY DEF IInv, Placed
  <2> QED  BY <2>2, <2>3, <1>3, HeldWaits
<1>10. H \in SUBSET Instance  BY <1>2 DEF IInv, Placed
<1> HIDE DEF H, F
<1>11. /\ pipe' = Tail(pipe)
       /\ answered' = answered /\ told' = told /\ log' = log /\ order' = order
       /\ Claims' = Claims /\ Elems(due') \cap Rest' = {}
       /\ \A i, j \in DOMAIN due' : i < j => Sooner(at, due'[i], due'[j])
       /\ \A l \in Elems(due'), m \in Rest' : Sooner(at, l, m)
       /\ \A i, j \in (cursor' + 1)..Len(order) : i < j => Sooner(at, order[i], order[j])
       /\ \A m \in Instance : \/ rows'[m] = rows[m]
                              \/ /\ rows[m].status = "none" /\ rows'[m].status = "running"
                                 /\ <<m, rows'[m].call>> \in Elems(F)
       /\ \A d \in Actor : Elems(fresh'[d]) \subseteq IF d = a THEN Elems(F) ELSE Elems(fresh[d])
  <2>1. InOrder(at)  BY DEF Fit, InLine, InOrder
  <2>2. HeldFits(H)  BY <1>9 DEF HeldFits
  <2> HIDE DEF New
  <2>3. Drained(at, a, F, Tail(pipe))
    BY <2>1, <2>2, <1>5, <1>6, <1>7, <1>8, <1>9, <1>10, DrainReplays
  <2> QED  BY <2>3 DEF Drained
<1>12. cursor' \in 0..Len(order)
  <2>1. IInv'  BY AskRecordedKeeps
  <2> QED  BY <2>1, <1>11 DEF IInv, Gate
<1>13. Elems(F) \subseteq New  BY <1>6 DEF F
<1>14. \A q \in New : Canon(at, q[1], q[2])  BY DEF Fit, Canonical
<1>15. \A d \in Actor : Elems(fresh'[d]) \subseteq New  BY <1>11, <1>13
<1>16. \A m \in Instance : \/ rows'[m] = rows[m]
                           \/ /\ rows[m].status = "none" /\ rows'[m].status = "running"
                              /\ <<m, rows'[m].call>> \in New
  BY <1>11, <1>13
<1> HIDE DEF New
<1>18. Claimed' /\ Heard' /\ Fit(at, top)'
  BY <1>1, <1>11, <1>12, <1>14, <1>15, <1>16, <1>17, ArrivalFits
<1> QED  BY <1>11, <1>17, <1>18

(* A fresh call gets the instance it will be found under.                   *)
LEMMA AskFreshReplays ==
  ASSUME IInv, status # "errored", Claimed, Heard, NEW at, NEW top, Fit(at, top), AskFresh
  PROVE  Claimed' /\ Heard' /\ Fit(at, top)' /\ status' # "errored" /\ told' = told
<1> DEFINE n == Arriving.instance
           c == Arriving.call
           a == Target(c).actor
           q == <<n, c>>
           F == Append(fresh[a], q)
           New == (UNION {Elems(fresh[d]) : d \in Actor}) \cup {q}
<1>1. Arrive /\ rows[n] = NoRow  BY DEF AskFresh
<1>2. /\ n \in Instance /\ c \in Call
      /\ \A d \in Actor : \A i \in DOMAIN fresh[d] : fresh[d][i][1] # n
  BY <1>1, ArriveFits
<1>3. rows[n].status = "none"  BY <1>1 DEF NoRow
<1>4. Canon(at, n, c)  BY <1>1, ArrivesInTurn
<1>5. DrainAdmission(a, held, F, Tail(pipe))  BY DEF AskFresh
<1>17. status' = status  BY DEF AskFresh
<1>6. a \in Actor /\ Target(c).actor = a  BY <1>2, CallIsPlace
<1> HIDE DEF n, c, a
<1>7. fresh \in [Actor -> Seq(Instance \X Call)] /\ fresh[a] \in Seq(Instance \X Call)
      /\ AllNew(a, fresh[a]) /\ q \in Instance \X Call /\ q[1] = n /\ q[2] = c
  BY <1>2, <1>6 DEF IInv, Placed, AllNew
<1>8. Tail(pipe) \in Seq(Branch)
  BY <1>1, HeadTailProperties DEF Arrive, IInv, ScriptFits
<1> HIDE DEF q
<1>9. F \in Seq(Instance \X Call) /\ Elems(F) = Elems(fresh[a]) \cup {q} /\ AllNew(a, F)
  <2> DEFINE k == Len(fresh[a])
  <2>1. /\ F \in Seq(Instance \X Call) /\ Len(F) = k + 1
        /\ F[k + 1] = q /\ \A i \in 1..k : F[i] = fresh[a][i]
    BY <1>7, AppendProperties
  <2>2. DOMAIN F = 1..(k + 1) /\ DOMAIN fresh[a] = 1..k /\ k \in Nat
    BY <1>7, <2>1, LenProperties
  <2> HIDE DEF F, k
  <2>3. DOMAIN F = DOMAIN fresh[a] \cup {k + 1}  BY <2>2
  <2>4. Elems(F) = Elems(fresh[a]) \cup {q}  BY <2>1, <2>2, <2>3 DEF Elems
  <2>5. AllNew(a, F)
    <3>1. \A i \in DOMAIN F : rows[F[i][1]].status = "none" /\ Target(F[i][2]).actor = a
      BY <2>1, <2>2, <2>3, <1>3, <1>6, <1>7 DEF AllNew
    <3>2. ASSUME NEW i \in DOMAIN F, NEW j \in DOMAIN F, F[i][1] = F[j][1]  PROVE i = j
      <4>1. \A l \in DOMAIN fresh[a] : F[l] = fresh[a][l] /\ fresh[a][l][1] # n
        BY <2>1, <2>2, <1>2, <1>6
      <4>2. F[k + 1][1] = n  BY <2>1, <1>7
      <4> QED  BY <3>2, <4>1, <4>2, <2>3, <1>7 DEF AllNew
    <3> QED  BY <3>1, <3>2 DEF AllNew
  <2> QED  BY <2>1, <2>4, <2>5
<1>10. /\ held \in SUBSET Instance
       /\ \A m \in held : rows[m].status # "none" /\ (rows[m].status = "completed" => m \in Rest)
  BY HeldWaits DEF IInv, Placed
<1> HIDE DEF F
<1>11. /\ pipe' = Tail(pipe)
       /\ answered' = answered /\ told' = told /\ log' = log /\ order' = order
       /\ Claims' = Claims /\ Elems(due') \cap Rest' = {}
       /\ \A i, j \in DOMAIN due' : i < j => Sooner(at, due'[i], due'[j])
       /\ \A l \in Elems(due'), m \in Rest' : Sooner(at, l, m)
       /\ \A i, j \in (cursor' + 1)..Len(order) : i < j => Sooner(at, order[i], order[j])
       /\ \A m \in Instance : \/ rows'[m] = rows[m]
                              \/ /\ rows[m].status = "none" /\ rows'[m].status = "running"
                                 /\ <<m, rows'[m].call>> \in Elems(F)
       /\ \A d \in Actor : Elems(fresh'[d]) \subseteq IF d = a THEN Elems(F) ELSE Elems(fresh[d])
  <2>1. InOrder(at)  BY DEF Fit, InLine, InOrder
  <2>2. HeldFits(held)  BY <1>10 DEF HeldFits
  <2> HIDE DEF New
  <2>3. Drained(at, a, F, Tail(pipe))
    BY <2>1, <2>2, <1>5, <1>6, <1>8, <1>9, <1>10, DrainReplays
  <2> QED  BY <2>3 DEF Drained
<1>12. cursor' \in 0..Len(order)
  <2>1. IInv'  BY AskFreshKeeps
  <2> QED  BY <2>1, <1>11 DEF IInv, Gate
<1>13. Elems(F) \subseteq New  
  <2>1. Elems(fresh[a]) \subseteq New  BY <1>6
  <2>2. q \in New  BY DEF New
  <2> HIDE DEF New
  <2> QED  BY <2>1, <2>2, <1>9
<1>14. \A r \in New : Canon(at, r[1], r[2])
  <2>1. \A d \in Actor : \A r \in Elems(fresh[d]) : Canon(at, r[1], r[2])
    BY DEF Fit, Canonical
  <2>2. Canon(at, q[1], q[2])  BY <1>4, <1>7
  <2>3. ASSUME NEW r \in New, r # q  PROVE \E d \in Actor : r \in Elems(fresh[d])
    BY <2>3
  <2> HIDE DEF New
  <2> QED  BY <2>1, <2>2, <2>3
<1>15. \A d \in Actor : Elems(fresh'[d]) \subseteq New  BY <1>11, <1>13
<1>16. \A m \in Instance : \/ rows'[m] = rows[m]
                           \/ /\ rows[m].status = "none" /\ rows'[m].status = "running"
                              /\ <<m, rows'[m].call>> \in New
  BY <1>11, <1>13
<1> HIDE DEF New
<1>18. Claimed' /\ Heard' /\ Fit(at, top)'
  BY <1>1, <1>11, <1>12, <1>14, <1>15, <1>16, <1>17, ArrivalFits
<1> QED  BY <1>11, <1>17, <1>18

(* The journal has one row for a call.                                      *)
LEMMA OneRow ==
  ASSUME NEW at, NEW top, Fit(at, top), NEW m \in Instance, NEW n \in Instance,
         rows[m].status # "none", rows[n].status # "none", rows[m].call = rows[n].call
  PROVE  m = n
<1>1. Canon(at, m, rows[m].call) /\ Canon(at, n, rows[n].call)  BY DEF Fit, Canonical
<1> QED  BY <1>1 DEF Canon

(* What the script has learnt from the answers to ns, and where it goes.    *)
LEMMA AnswerTells ==
  ASSUME NEW rs, NEW Q, NEW po, NEW p, NEW ns \in Seq(Instance), Once(ns),
         ScriptFits(Q, po, answered, p),
         \A n \in Elems(ns) : <<n, rs[n].call>> \in Q,
         Answer(ns, rs, p)
  PROVE  /\ \A n \in Elems(ns) : /\ rs[n].call \in Call /\ answered[rs[n].call[1]] \in Nat
                                 /\ rs[n].call[2] = answered[rs[n].call[1]] + 1
                                 /\ answered'[rs[n].call[1]] = answered[rs[n].call[1]] + 1
                                 /\ po[rs[n].call[1]] = rs[n].call[2]
                                 /\ told'[rs[n].call] = rs[n].result
         /\ \A b \in Branch : (\A n \in Elems(ns) : rs[n].call[1] # b) => answered'[b] = answered[b]
         /\ \A c \in Call : (\A n \in Elems(ns) : rs[n].call # c) => told'[c] = told[c]
         /\ \A m, n \in Elems(ns) : rs[m].call[1] = rs[n].call[1] => m = n
<1> DEFINE D == DOMAIN ns
           branches == [i \in DOMAIN ns |-> rs[ns[i]].call[1]]
           calls == [i \in DOMAIN ns |-> rs[ns[i]].call]
<1>1. ASSUME NEW n \in Elems(ns)
      PROVE  /\ rs[n].call \in Call /\ rs[n].call[1] \in Branch
             /\ answered[rs[n].call[1]] \in Nat
             /\ rs[n].call[2] = answered[rs[n].call[1]] + 1
             /\ po[rs[n].call[1]] = rs[n].call[2]
  <2> DEFINE q == <<n, rs[n].call>>
  <2>1. q \in Q /\ q[2] = rs[n].call  BY <1>1
  <2> HIDE DEF q
  <2>2. q[2] \in Call /\ q[2][2] = po[q[2][1]] /\ po[q[2][1]] = answered[q[2][1]] + 1
    BY <2>1 DEF ScriptFits
  <2>3. q[2][1] \in Branch  BY <2>2, CallIsPlace
  <2> QED  BY <2>1, <2>2, <2>3 DEF ScriptFits
<1>2. ASSUME NEW m \in Elems(ns), NEW n \in Elems(ns), rs[m].call[1] = rs[n].call[1]
      PROVE  m = n
  <2> DEFINE q == <<m, rs[m].call>>
             r == <<n, rs[n].call>>
  <2>1. q \in Q /\ r \in Q /\ q[2][1] = r[2][1]  BY <1>2
  <2>2. q = r  BY <2>1 DEF ScriptFits
  <2> QED  BY <2>2
<1>3. \A i \in D : ns[i] \in Elems(ns)  BY DEF Elems
<1>4. \A b \in Branch : answered'[b] = answered[b] + Cardinality({i \in D : branches[i] = b})
  BY DEF Answer
<1>5. ASSUME NEW b \in Branch, \A n \in Elems(ns) : rs[n].call[1] # b
      PROVE  answered'[b] = answered[b]
  <2> DEFINE I == {i \in D : branches[i] = b}
  <2>1. I = {}  BY <1>3, <1>5
  <2>2. answered[b] \in Nat  BY DEF ScriptFits
  <2>3. answered'[b] = answered[b] + Cardinality(I)  BY <1>4
  <2> HIDE DEF I
  <2> QED  BY <2>1, <2>2, <2>3, FS_EmptySet
<1>6. ASSUME NEW n \in Elems(ns)  PROVE answered'[rs[n].call[1]] = answered[rs[n].call[1]] + 1
  <2> DEFINE b == rs[n].call[1]
             I == {i \in D : branches[i] = b}
  <2>1. PICK i \in D : ns[i] = n  BY <1>6 DEF Elems
  <2>2. \A j \in D : branches[j] = b => j = i
    <3> SUFFICES ASSUME NEW j \in D, branches[j] = b  PROVE j = i
      OBVIOUS
    <3>1. ns[j] = n  BY <1>2, <1>3
    <3> QED  BY <3>1, <2>1 DEF Once
  <2>3. branches[i] = b  BY <2>1
  <2> HIDE DEF branches
  <2>4. I = {i}  BY <2>2, <2>3
  <2>5. answered'[b] = answered[b] + Cardinality(I)  BY <1>1, <1>4
  <2> HIDE DEF I
  <2> QED  BY <2>4, <2>5, FS_Singleton
<1>7. \A c \in Call : told'[c] = IF c \in Elems(calls)
                                THEN rs[CHOOSE n \in Elems(ns) : rs[n].call = c].result
                                ELSE told[c]
  BY DEF Answer
<1>8. \A c : c \in Elems(calls) <=> \E n \in Elems(ns) : rs[n].call = c
  <2>1. \A c : c \in Elems(calls) <=> \E i \in D : rs[ns[i]].call = c  BY DEF Elems
  <2>2. \A n : n \in Elems(ns) <=> \E i \in D : ns[i] = n  BY DEF Elems
  <2> QED  BY <2>1, <2>2
<1> HIDE DEF calls
<1>9. ASSUME NEW n \in Elems(ns)  PROVE told'[rs[n].call] = rs[n].result
  <2> DEFINE c == rs[n].call
             m == CHOOSE m \in Elems(ns) : rs[m].call = c
  <2>1. m \in Elems(ns) /\ rs[m].call = c  BY <1>9
  <2>2. m = n  BY <2>1, <1>2
  <2>3. c \in Elems(calls) /\ c \in Call  BY <1>1, <1>8
  <2>4. told'[c] = rs[m].result  BY <2>3, <1>7
  <2> QED  BY <2>2, <2>4
<1> HIDE DEF branches, D
<1> QED  BY <1>1, <1>2, <1>5, <1>6, <1>7, <1>8, <1>9

(* The next calls of those who are answered come behind those under way, in *)
(* the order of the answers.                                                *)
LEMMA AnswerGoesOn ==
  ASSUME IInv, NEW Q, NEW ns \in Seq(Instance), Once(ns), pos' = pos,
         ScriptFits(Q, pos, answered, pipe),
         \A n \in Elems(ns) : <<n, rows'[n].call>> \in Q,
         Answer(ns, rows', pipe),
         NEW at,
         \A i, j \in DOMAIN pipe : i < j => at[CallOf(pipe[i])] < at[CallOf(pipe[j])],
         \A d \in UnderWay, n \in Elems(ns) : NextOf(n)' \in Call => at[d] < at[NextOf(n)'],
         \A i, j \in DOMAIN ns : \A x, y \in Instance :
           i < j /\ x = ns[i] /\ y = ns[j] => Sooner(at, x, y)'
  PROVE  /\ UnderWay' = UnderWay \cup ({NextOf(n)' : n \in Elems(ns)} \cap Call)
         /\ \A i, j \in DOMAIN pipe' : i < j => at[CallOf(pipe[i])'] < at[CallOf(pipe[j])']
<1> DEFINE D == DOMAIN ns
           branches == [i \in DOMAIN ns |-> rows'[ns[i]].call[1]]
           B == {b \in Branch : answered[b] + 1 < Len(Plan[b])}
           more == Those(branches, B)
<1>1. /\ \A n \in Elems(ns) : /\ rows'[n].call \in Call /\ answered[rows'[n].call[1]] \in Nat
                              /\ rows'[n].call[2] = answered[rows'[n].call[1]] + 1
                              /\ pos[rows'[n].call[1]] = rows'[n].call[2]
  <2> DEFINE rs == rows'
  <2>1. \A n \in Elems(ns) : <<n, rs[n].call>> \in Q  OBVIOUS
  <2>2. Answer(ns, rs, pipe)  OBVIOUS
  <2> HIDE DEF rs
  <2>3. \A n \in Elems(ns) : /\ rs[n].call \in Call /\ answered[rs[n].call[1]] \in Nat
                             /\ rs[n].call[2] = answered[rs[n].call[1]] + 1
                             /\ pos[rs[n].call[1]] = rs[n].call[2]
    BY <2>1, <2>2, AnswerTells
  <2> QED  BY <2>3 DEF rs
<1>2. \A i \in D : ns[i] \in Elems(ns)  BY DEF Elems
<1>3. pipe' = pipe \o more  BY DEF Answer
<1>4. branches \in Seq(Branch) /\ DOMAIN branches = D /\ D = 1..Len(ns) /\ Len(ns) \in Nat
  <2>1. DOMAIN branches = D /\ D = 1..Len(ns) /\ Len(ns) \in Nat  BY LenProperties
  <2>2. \A i \in D : branches[i] \in Branch  BY <1>1, <1>2, CallIsPlace
  <2>3. branches \in [1..Len(ns) -> Branch]  BY <2>1, <2>2
  <2> HIDE DEF branches, D
  <2> QED  BY <2>1, <2>3, SeqDef
<1>5. \A n \in Elems(ns) : /\ NextOf(n)' = CallOf(rows'[n].call[1])
                           /\ NextOf(n)' \in Call <=> rows'[n].call[1] \in B
  <2> TAKE n \in Elems(ns)
  <2> DEFINE c == rows'[n].call
  <2>1. c \in Call /\ answered[c[1]] \in Nat /\ c[2] = answered[c[1]] + 1 /\ pos[c[1]] = c[2]
        /\ c[1] \in Branch
    BY <1>1, CallIsPlace
  <2>2. NextOf(n)' = <<c[1], c[2] + 1>>  BY DEF NextOf
  <2> HIDE DEF c
  <2>3. <<c[1], c[2] + 1>> \in Call <=> c[2] < Len(Plan[c[1]])  BY <2>1, NextIsCall
  <2>4. CallOf(c[1]) = <<c[1], c[2] + 1>>  BY <2>1 DEF CallOf
  <2> QED  BY <2>1, <2>2, <2>3, <2>4 DEF c
<1>6. \A b : CallOf(b)' = CallOf(b)  BY DEF CallOf
<1>7. \A i \in D : branches[i] = rows'[ns[i]].call[1]  OBVIOUS
<1> HIDE DEF branches, B
<1>8. PICK place \in [1..Len(more) -> DOMAIN branches] :
        /\ more \in Seq(Branch)
        /\ \A k \in 1..Len(more) : more[k] = branches[place[k]] /\ more[k] \in B
        /\ \A k, l \in 1..Len(more) : k < l => place[k] < place[l]
        /\ \A i \in DOMAIN branches : branches[i] \in B => \E k \in 1..Len(more) : place[k] = i
  <2>1. branches \in Seq(Branch)  BY <1>4
  <2> HIDE DEF D
  <2> QED  BY ONLY <2>1, ThosePlaces
<1> HIDE DEF more, D
<1>9. /\ DOMAIN more = 1..Len(more) /\ Len(more) \in Nat
      /\ pipe \in Seq(Branch) /\ DOMAIN pipe = 1..Len(pipe) /\ Len(pipe) \in Nat
  BY <1>8, LenProperties DEF IInv, ScriptFits
<1>10. /\ DOMAIN pipe' = 1..(Len(pipe) + Len(more))
       /\ \A i \in DOMAIN pipe' : pipe'[i] = IF i <= Len(pipe) THEN pipe[i]
                                                           ELSE more[i - Len(pipe)]
       /\ Elems(pipe') = Elems(pipe) \cup Elems(more)
  <2>1. Len(pipe \o more) = Len(pipe) + Len(more) /\ pipe \o more \in Seq(Branch)
    BY <1>8, <1>9, ConcatProperties
  <2>2. DOMAIN pipe' = 1..(Len(pipe) + Len(more))  BY <2>1, <1>3, LenProperties
  <2>3. \A i \in 1..(Len(pipe) + Len(more)) :
          (pipe \o more)[i] = IF i <= Len(pipe) THEN pipe[i] ELSE more[i - Len(pipe)]
    BY <1>8, <1>9, ConcatProperties
  <2>4. Elems(pipe \o more) = Elems(pipe) \cup Elems(more)  BY <1>8, <1>9, ConcatOnce
  <2> QED  BY <2>2, <2>3, <2>4, <1>3
<1>11. \A k \in 1..Len(more) : \E n \in Elems(ns) :
         /\ place[k] \in D /\ ns[place[k]] = n
         /\ CallOf(more[k]) = NextOf(n)' /\ NextOf(n)' \in Call
  <2> TAKE k \in 1..Len(more)
  <2>1. place[k] \in D /\ more[k] = branches[place[k]] /\ more[k] \in B  BY <1>4, <1>8
  <2>2. PICK n \in Elems(ns) : n = ns[place[k]]  BY <2>1, <1>2
  <2>3. more[k] = rows'[n].call[1]  BY <2>1, <2>2, <1>7
  <2>4. NextOf(n)' = CallOf(rows'[n].call[1]) /\ (NextOf(n)' \in Call <=> rows'[n].call[1] \in B)
    BY <1>5
  <2> QED  BY <2>1, <2>2, <2>3, <2>4
<1>12. UnderWay' = UnderWay \cup ({NextOf(n)' : n \in Elems(ns)} \cap Call)
  <2>1. UnderWay' = {CallOf(b) : b \in Elems(pipe')}  BY <1>6 DEF UnderWay
  <2>2. ASSUME NEW b \in Elems(more)  PROVE \E n \in Elems(ns) : CallOf(b) = NextOf(n)' /\ NextOf(n)' \in Call
    <3>1. PICK k \in 1..Len(more) : more[k] = b  BY <1>9 DEF Elems
    <3> QED  BY <3>1, <1>11
  <2>3. ASSUME NEW n \in Elems(ns), NextOf(n)' \in Call
        PROVE  \E b \in Elems(more) : CallOf(b) = NextOf(n)'
    <3>1. PICK i \in D : ns[i] = n  BY DEF Elems, D
    <3>2. branches[i] \in B /\ CallOf(branches[i]) = NextOf(n)'  BY <3>1, <2>3, <1>5, <1>7
    <3>3. PICK k \in 1..Len(more) : place[k] = i  BY <3>1, <3>2, <1>4, <1>8
    <3>4. more[k] = branches[i] /\ more[k] \in Elems(more)  BY <3>3, <1>8, <1>9 DEF Elems
    <3> QED  BY <3>2, <3>4
  <2> DEFINE X == {NextOf(n)' : n \in Elems(ns)} \cap Call
  <2>4. {CallOf(b) : b \in Elems(more)} = X
    <3>1. \A x \in {CallOf(b) : b \in Elems(more)} : x \in X  BY <2>2
    <3>2. \A x \in X : x \in {CallOf(b) : b \in Elems(more)}  BY <2>3
    <3> QED  BY <3>1, <3>2
  <2> HIDE DEF X
  <2>5. UnderWay' = UnderWay \cup X  BY <2>1, <2>4, <1>10 DEF UnderWay
  <2> QED  BY <2>5 DEF X
<1>13. ASSUME NEW i \in DOMAIN pipe', NEW j \in DOMAIN pipe', i < j
       PROVE  at[CallOf(pipe'[i])] < at[CallOf(pipe'[j])]
  <2> DEFINE l == Len(pipe)
             m == Len(more)
  <2>0. l \in Nat /\ m \in Nat /\ i \in 1..(l + m) /\ j \in 1..(l + m)  BY <1>9, <1>10
  <2> HIDE DEF l, m
  <2>1. CASE j <= l
    <3>1. i \in DOMAIN pipe /\ j \in DOMAIN pipe /\ pipe'[i] = pipe[i] /\ pipe'[j] = pipe[j]
      BY <2>0, <2>1, <1>9, <1>10, <1>13 DEF l, m
    <3> QED  BY <3>1, <1>13
  <2>2. CASE i <= l /\ j > l
    <3>1. /\ i \in DOMAIN pipe /\ j - l \in 1..m /\ pipe'[i] = pipe[i] /\ pipe'[j] = more[j - l]
      BY <2>0, <2>2, <1>9, <1>10 DEF l, m
    <3>2. CallOf(pipe[i]) \in UnderWay  BY <3>1 DEF UnderWay, Elems
    <3>3. PICK n \in Elems(ns) : CallOf(more[j - l]) = NextOf(n)' /\ NextOf(n)' \in Call
      BY <3>1, <1>11 DEF m
    <3> QED  BY <3>1, <3>2, <3>3
  <2>3. CASE i > l
    <3>1. /\ i - l \in 1..m /\ j - l \in 1..m /\ i - l < j - l
          /\ pipe'[i] = more[i - l] /\ pipe'[j] = more[j - l]
      BY <2>0, <2>3, <1>9, <1>10, <1>13 DEF l, m
    <3>2. PICK x \in Elems(ns) : /\ place[i - l] \in D /\ ns[place[i - l]] = x
                                /\ CallOf(more[i - l]) = NextOf(x)' /\ NextOf(x)' \in Call
      BY <3>1, <1>11 DEF m
    <3>3. PICK y \in Elems(ns) : /\ place[j - l] \in D /\ ns[place[j - l]] = y
                                /\ CallOf(more[j - l]) = NextOf(y)' /\ NextOf(y)' \in Call
      BY <3>1, <1>11 DEF m
    <3>4. x \in Instance /\ y \in Instance  BY SeqElems
    <3>5. place[i - l] < place[j - l]  BY <3>1, <1>8 DEF m
    <3>6. Sooner(at, x, y)'  BY <3>2, <3>3, <3>4, <3>5 DEF D
    <3> QED  BY <3>1, <3>2, <3>3, <3>6 DEF Sooner
  <2> QED  BY <2>0, <2>1, <2>2, <2>3
<1> QED  BY <1>6, <1>12, <1>13

(* The answers that are due are given: who is told, goes on.                *)
LEMMA FlushReplays ==
  ASSUME IInv, status # "errored", Claimed, Heard, NEW at, NEW top, Fit(at, top), Flush
  PROVE  Claimed' /\ Heard' /\ Fit(at, top)' /\ status' # "errored"
<1> DEFINE D == Elems(due)
           Q == Asked(rows, Waiting, fresh)
           X == {NextOf(n) : n \in D} \cap Call
<1>1. /\ rows' = rows /\ status' = status /\ pos' = pos /\ fresh' = fresh
      /\ order' = order /\ cursor' = cursor /\ due' = <<>>
  BY DEF Flush, admission
<1>2. Record(due)  BY DEF Flush
<1>3. Answer(due, rows, pipe)  BY DEF Flush
<1>4. /\ due \in Seq(Instance) /\ Once(due) /\ ScriptFits(Q, pos, answered, pipe)
      /\ \A n \in D : n \in Instance /\ rows[n].status = "completed"
  BY SeqElems DEF IInv, Apart
<1>5. \A n \in D : <<n, rows[n].call>> \in Q  BY DEF Asked, Waiting
<1> HIDE DEF Q
<1>6. /\ \A n \in D : /\ rows[n].call \in Call /\ answered[rows[n].call[1]] \in Nat
                      /\ rows[n].call[2] = answered[rows[n].call[1]] + 1
                      /\ answered'[rows[n].call[1]] = answered[rows[n].call[1]] + 1
                      /\ told'[rows[n].call] = rows[n].result
      /\ \A b \in Branch : (\A n \in D : rows[n].call[1] # b) => answered'[b] = answered[b]
      /\ \A c \in Call : (\A n \in D : rows[n].call # c) => told'[c] = told[c]
  BY <1>3, <1>4, <1>5, AnswerTells
<1>7. Elems(due') = {} /\ Rest' = Rest /\ Claims' = Rest
  BY <1>1, EmptyOnce DEF Rest, Claims
<1>8. D \cap Rest = {} /\ D \subseteq Claims /\ Rest \subseteq Claims /\ Claims = D \cup Rest
  BY DEF Claimed, Claims
<1>9. \A n : NextOf(n)' = NextOf(n)  BY <1>1 DEF NextOf
<1>10. ToCome' = {NextOf(n) : n \in Rest} \cap Call /\ ToCome = ToCome' \cup X
  BY <1>7, <1>8, <1>9 DEF ToCome
<1>11. /\ \A i, j \in DOMAIN pipe : i < j => at[CallOf(pipe[i])] < at[CallOf(pipe[j])]
       /\ \A d \in UnderWay, e \in ToCome : at[d] < at[e]
       /\ \A i, j \in DOMAIN due : i < j => Sooner(at, due[i], due[j])
       /\ \A m \in D, n \in Rest : Sooner(at, m, n)
       /\ \A c \in Line : at[c] < top
       /\ \A c, d \in Line : Began(c) /\ ~Began(d) => at[c] < at[d]
       /\ \A i, j \in (cursor + 1)..Len(order) : i < j => Sooner(at, order[i], order[j])
  BY DEF Fit, InLine
<1>12. \A m, n : Sooner(at, m, n)' <=> Sooner(at, m, n)  BY <1>9 DEF Sooner
<1>13. /\ UnderWay' = UnderWay \cup X
       /\ \A i, j \in DOMAIN pipe' : i < j => at[CallOf(pipe[i])'] < at[CallOf(pipe[j])']
  <2>1. \A n \in D : <<n, rows'[n].call>> \in Q  BY <1>1, <1>5
  <2>2. Answer(due, rows', pipe)  BY <1>1, <1>3
  <2>3. \A d \in UnderWay, n \in D : NextOf(n)' \in Call => at[d] < at[NextOf(n)']
    BY <1>9, <1>10, <1>11
  <2>4. \A i, j \in DOMAIN due : \A x, y \in Instance :
          i < j /\ x = due[i] /\ y = due[j] => Sooner(at, x, y)'
    BY <1>11, <1>12
  <2> QED  BY <2>1, <2>2, <2>3, <2>4, <1>1, <1>4, <1>9, <1>11, AnswerGoesOn
<1>14. Line' = Line
  <2>1. {c \in Call : Began(c)}' = {c \in Call : Began(c)}  BY <1>1 DEF Began
  <2> HIDE DEF X
  <2> QED  BY <2>1, <1>10, <1>13 DEF Line
<1>15. InLine(at, top)'
  <2>1. \A c, d \in Line : Began(c)' /\ ~Began(d)' => at[c] < at[d]  BY <1>1, <1>11 DEF Began
  <2>2. ASSUME NEW d \in UnderWay', NEW e \in ToCome'  PROVE at[d] < at[e]
    <3>1. CASE d \in UnderWay  BY <3>1, <1>10, <1>11
    <3>2. CASE d \in X
      <4>1. PICK n \in D : d = NextOf(n) /\ d \in Call  BY <3>2
      <4>2. PICK m \in Rest : e = NextOf(m) /\ e \in Call  BY <1>10
      <4>3. Sooner(at, n, m)  BY <1>11
      <4> QED  BY <4>1, <4>2, <4>3 DEF Sooner
    <3> QED  BY <3>1, <3>2, <1>13
  <2>3. DOMAIN due' = {}  BY <1>1
  <2>4. \A i, j \in (cursor' + 1)..Len(order') : i < j => Sooner(at, order[i], order[j])'
    BY <1>1, <1>9, <1>11 DEF Sooner
  <2> QED  BY <2>1, <2>2, <2>3, <2>4, <1>7, <1>11, <1>13, <1>14 DEF InLine
<1>16. Canonical(at)'
  <2>1. Canonical(at)  BY DEF Fit
  <2> QED  BY <2>1, <1>1, <1>14 DEF Canonical, Canon
<1>17. ByTheLog(at)'
  <2>1. ByTheLog(at)  BY DEF Fit
  <2>2. log' = log
    <3>1. D \cap (Instance \ Elems(log)) = {}  BY <2>1, <1>4 DEF ByTheLog, Settled
    <3>2. Those(due, Instance \ Elems(log)) = <<>>  BY <3>1, <1>4, ThoseNone
    <3> QED  BY <3>2, <1>2, ConcatEmptySeq DEF Record, IInv, Gate
  <2>3. Firsts' = Firsts  BY DEF Firsts
  <2>4. Settled' = Settled /\ {NextOf(n) : n \in Settled}' = {NextOf(n) : n \in Settled}
    BY <1>1, <1>9 DEF Settled
  <2> QED  BY <2>1, <2>2, <2>3, <2>4, <1>9, <1>12, <1>14 DEF ByTheLog
<1>18. Claimed'
  <2>1. ASSUME NEW n \in Instance, rows[n].status = "completed"
        PROVE  n \in Rest <=> rows[n].call[2] > answered'[rows[n].call[1]]
    <3> DEFINE c == rows[n].call
    <3>0. c \in Call /\ c[1] \in Branch /\ c[2] \in Nat /\ answered[c[1]] \in Nat
      BY <2>1, CallIsPlace DEF IInv, Rows, ScriptFits
    <3>1. n \in Claims <=> c[2] > answered[c[1]]  BY <2>1 DEF Claimed
    <3> HIDE DEF c
    <3>2. CASE n \in D  BY <3>0, <3>1, <3>2, <1>6, <1>8 DEF c
    <3>3. CASE n \notin D
      <4>1. n \in Rest <=> c[2] > answered[c[1]]  BY <3>1, <3>3, <1>8
      <4>2. CASE \A m \in D : rows[m].call[1] # c[1]
        <5>1. answered'[c[1]] = answered[c[1]]  BY <4>2, <3>0, <1>6
        <5> QED  BY <4>1, <5>1 DEF c
      <4>3. ASSUME NEW m \in D, rows[m].call[1] = c[1]
            PROVE  n \in Rest <=> c[2] > answered'[c[1]]
        <5>1. /\ rows[m].call \in Call /\ rows[m].call[2] = answered[c[1]] + 1
              /\ answered'[c[1]] = answered[c[1]] + 1
          BY <4>3, <1>6
        <5>2. c[2] # answered[c[1]] + 1
          <6> SUFFICES ASSUME c[2] = answered[c[1]] + 1  PROVE FALSE
            OBVIOUS
          <6>1. rows[m].call = c  BY <5>1, <4>3, <3>0, CallIsPlace
          <6>2. m = n  BY <6>1, <2>1, <1>4, OneRow DEF c
          <6> QED  BY <6>2, <3>3
        <5> QED  BY <4>1, <5>1, <5>2, <3>0
      <4> QED  BY <4>2, <4>3 DEF c
    <3> QED  BY <3>2, <3>3
  <2> QED  BY <2>1, <1>1, <1>7 DEF Claimed
<1>19. Heard'
  <2>1. \A n \in Instance : rows'[n].status = "completed" => rows'[n].result # 0
    BY <1>1 DEF Heard
  <2>2. ASSUME NEW c \in Call, told'[c] # 0
        PROVE  \E n \in Instance : rows'[n].call = c /\ rows'[n].status = "completed"
                                   /\ rows'[n].result = told'[c]
    <3>1. CASE \A n \in D : rows[n].call # c
      <4>1. told'[c] = told[c]  BY <3>1, <1>6
      <4> QED  BY <4>1, <2>2, <1>1 DEF Heard
    <3>2. CASE \E n \in D : rows[n].call = c  BY <3>2, <1>1, <1>4, <1>6
    <3> QED  BY <3>1, <3>2
  <2>3. ASSUME NEW c \in Call, c[2] <= answered'[c[1]]  PROVE told'[c] # 0
    <3>0. c[1] \in Branch /\ c[2] \in Nat /\ answered[c[1]] \in Nat
      BY CallIsPlace DEF IInv, ScriptFits
    <3>1. CASE \E n \in D : rows[n].call = c
      BY <3>1, <2>1, <1>1, <1>4, <1>6
    <3>2. CASE \A n \in D : rows[n].call # c
      <4>1. told'[c] = told[c]  BY <3>2, <1>6
      <4>2. c[2] <= answered[c[1]]
        <5>1. CASE \A n \in D : rows[n].call[1] # c[1]  BY <5>1, <3>0, <2>3, <1>6
        <5>2. ASSUME NEW n \in D, rows[n].call[1] = c[1]  PROVE c[2] <= answered[c[1]]
          <6>1. /\ rows[n].call \in Call /\ rows[n].call[2] = answered[c[1]] + 1
                /\ answered'[c[1]] = answered[c[1]] + 1
            BY <5>2, <1>6
          <6>2. c[2] # answered[c[1]] + 1  BY <6>1, <5>2, <3>2, CallIsPlace
          <6> QED  BY <6>1, <6>2, <3>0, <2>3
        <5> QED  BY <5>1, <5>2
      <4> QED  BY <4>1, <4>2 DEF Heard
    <3> QED  BY <3>1, <3>2
  <2> QED  BY <2>1, <2>2, <2>3 DEF Heard
<1> QED  BY <1>1, <1>15, <1>16, <1>17, <1>18, <1>19 DEF Fit

(* An ask is settled when nothing is left to replay: its answer leads to    *)
(* the last of all calls.                                                   *)
LEMMA SettleOkReplays ==
  ASSUME IInv, status # "errored", Claimed, Heard,
         NEW at, NEW top, Fit(at, top), NEW n \in Instance, SettleOk(n), ~Departs(n)
  PROVE  /\ Claimed' /\ Heard' /\ status' # "errored"
         /\ \E at2, top2 : Fit(at2, top2)'
<1> DEFINE c == rows[n].call
           x == NextOf(n)
           X == {x} \cap Call
           Q == Asked(rows, Waiting, fresh)
<1>1. /\ Current(n) /\ rows' = Completed(n) /\ Record(<<n>>)
      /\ status' = status /\ pos' = pos /\ fresh' = fresh
      /\ order' = order /\ cursor' = cursor /\ due' = due
  BY DEF SettleOk, MaySettle, gate
<1>2. Answer(<<n>>, rows', pipe)  BY DEF SettleOk
<1>3. /\ n \in Elems(live) /\ rows[n].status = "running"
      /\ \A m \in Instance \ {n} : rows'[m] = rows[m]
      /\ rows'[n].call = rows[n].call
      /\ rows'[n].status = "completed" /\ rows'[n].result = life
  BY <1>1, SettledFits
<1>4. Elems(due) = {} /\ DOMAIN due = {} /\ Rest = {} /\ Claims = {}
      /\ (cursor + 1)..Len(order) = {}
  <2>1. ~Replaying  BY DEF Departs
  <2>2. due = <<>> /\ ~(cursor < Len(order))  BY <2>1 DEF Replaying
  <2>3. cursor \in Int /\ Len(order) \in Nat  BY LenProperties DEF IInv, Gate
  <2>4. (cursor + 1)..Len(order) = {}  BY <2>2, <2>3
  <2> QED  BY <2>2, <2>4, EmptyOnce DEF Rest, Claims
<1>5. Elems(due') = {} /\ DOMAIN due' = {} /\ Rest' = {} /\ Claims' = {}
      /\ (cursor' + 1)..Len(order') = {}
  BY <1>1, <1>4 DEF Rest, Claims
<1>6. ToCome = {} /\ ToCome' = {}  BY <1>4, <1>5 DEF ToCome
<1>7. /\ at \in [Call -> Int] /\ top \in Int
      /\ \A i, j \in DOMAIN pipe : i < j => at[CallOf(pipe[i])] < at[CallOf(pipe[j])]
      /\ \A d \in Line : at[d] < top
      /\ \A d, e \in Line : Began(d) /\ ~Began(e) => at[d] < at[e]
  BY DEF Fit, InLine
<1>8. /\ <<n>> \in Seq(Instance) /\ Once(<<n>>) /\ Elems(<<n>>) = {n} /\ DOMAIN <<n>> = {1}
  BY DEF Once, Elems
<1>9. ScriptFits(Q, pos, answered, pipe) /\ <<n, c>> \in Q
  BY <1>3 DEF IInv, Asked, Waiting
<1> HIDE DEF Q
<1>10. /\ c \in Call /\ answered[c[1]] \in Nat /\ c[2] = answered[c[1]] + 1
       /\ answered'[c[1]] = answered[c[1]] + 1 /\ pos[c[1]] = c[2] /\ told'[c] = life
       /\ \A b \in Branch : b # c[1] => answered'[b] = answered[b]
       /\ \A d \in Call : d # c => told'[d] = told[d]
  <2> DEFINE rs == rows'
  <2>1. \A m \in Elems(<<n>>) : <<m, rs[m].call>> \in Q  BY <1>3, <1>8, <1>9
  <2>2. rs[n].call = c /\ rs[n].result = life  BY <1>3
  <2>3. Answer(<<n>>, rs, pipe)  BY <1>2
  <2> HIDE DEF rs, c
  <2>4. /\ \A m \in {n} : /\ rs[m].call \in Call /\ answered[rs[m].call[1]] \in Nat
                          /\ rs[m].call[2] = answered[rs[m].call[1]] + 1
                          /\ answered'[rs[m].call[1]] = answered[rs[m].call[1]] + 1
                          /\ pos[rs[m].call[1]] = rs[m].call[2]
                          /\ told'[rs[m].call] = rs[m].result
        /\ \A b \in Branch : (\A m \in {n} : rs[m].call[1] # b) => answered'[b] = answered[b]
        /\ \A d \in Call : (\A m \in {n} : rs[m].call # d) => told'[d] = told[d]
    BY <2>1, <2>3, <1>8, <1>9, AnswerTells
  <2> QED  BY <2>2, <2>4
<1>11. x = <<c[1], c[2] + 1>> /\ x[1] = c[1] /\ x[2] = c[2] + 1 /\ NextOf(n)' = x
  BY <1>3 DEF NextOf
<1> HIDE DEF c, x
<1>12. Line \subseteq Call /\ Line = {d \in Call : Began(d)} \cup UnderWay
  BY <1>6, LineIsOfCalls DEF Line
<1>13. x \notin Line
  <2> SUFFICES ASSUME x \in Line  PROVE FALSE
    OBVIOUS
  <2>1. CASE Began(x)  BY <2>1, <1>10, <1>11 DEF Began
  <2>2. CASE x \in UnderWay
    <3>1. PICK b \in Elems(pipe) : x = CallOf(b)  BY <2>2 DEF UnderWay
    <3>2. CallOf(b)[1] = b  BY <3>1, LineIsOfCalls
    <3>3. b = c[1]  BY <3>1, <3>2, <1>11
    <3>4. pos[b] = answered[b]  BY <3>1 DEF IInv, ScriptFits
    <3> QED  BY <3>3, <3>4, <1>10
  <2> QED  BY <2>1, <2>2, <1>12
<1>14. PICK at2 \in [Call -> Int] : (\A d \in Line : at2[d] = at[d]) /\ (x \in Call => at2[x] = top)
  <2> DEFINE f == [d \in Call |-> IF d = x THEN top ELSE at[d]]
  <2>1. /\ f \in [Call -> Int] /\ \A d \in Line : f[d] = at[d]
        /\ x \in Call => f[x] = top
    BY <1>7, <1>12, <1>13
  <2> QED  BY <2>1
<1>15. /\ UnderWay' = UnderWay \cup X
       /\ \A i, j \in DOMAIN pipe' : i < j => at2[CallOf(pipe[i])'] < at2[CallOf(pipe[j])']
  <2>1. \A m \in Elems(<<n>>) : <<m, rows'[m].call>> \in Q
    BY <1>3, <1>8, <1>9 DEF c
  <2>2. \A i, j \in DOMAIN pipe : i < j => at2[CallOf(pipe[i])] < at2[CallOf(pipe[j])]
    <3>1. \A i \in DOMAIN pipe : CallOf(pipe[i]) \in Line  BY <1>12 DEF UnderWay, Elems
    <3> QED  BY <3>1, <1>7, <1>14
  <2>3. \A d \in UnderWay, m \in Elems(<<n>>) : NextOf(m)' \in Call => at2[d] < at2[NextOf(m)']
    <3>1. \A d \in UnderWay : at2[d] < top  BY <1>7, <1>12, <1>14
    <3>2. \A m \in Elems(<<n>>) : m = n  BY <1>8
    <3> SUFFICES ASSUME NEW d \in UnderWay, NextOf(n)' \in Call  PROVE at2[d] < at2[NextOf(n)']
      BY <3>2
    <3> QED  BY <3>1, <1>11, <1>14
  <2>4. \A i, j \in DOMAIN <<n>> : ~(i < j)  BY <1>8
  <2>5. {NextOf(m)' : m \in Elems(<<n>>)} = {x}  BY <1>8, <1>11
  <2>6. Answer(<<n>>, rows', pipe) /\ pos' = pos  BY <1>1, <1>2
  <2> HIDE DEF X
  <2> DEFINE ns == <<n>>
  <2>8. \A i, j \in DOMAIN ns : \A y, z \in Instance :
          i < j /\ y = ns[i] /\ z = ns[j] => Sooner(at2, y, z)'
    BY <2>4
  <2>7. /\ UnderWay' = UnderWay \cup ({NextOf(m)' : m \in Elems(<<n>>)} \cap Call)
        /\ \A i, j \in DOMAIN pipe' : i < j => at2[CallOf(pipe[i])'] < at2[CallOf(pipe[j])']
    BY <2>1, <2>2, <2>3, <2>6, <2>8, <1>8, <1>9, AnswerGoesOn
  <2> QED  BY <2>5, <2>7 DEF X
<1>16. Line' = Line \cup X
  <2>1. {d \in Call : Began(d)}' = {d \in Call : Began(d)}  BY <1>1 DEF Began
  <2> HIDE DEF X
  <2> QED  BY <2>1, <1>6, <1>12, <1>15 DEF Line
<1>17. \A d \in Line' : d \in Line \/ (d = x /\ x \in Call /\ at2[x] = top)
  BY <1>14, <1>16
<1> HIDE DEF X
<1>18. InLine(at2, top + 1)'
  <2>1. ASSUME NEW d \in Line'  PROVE at2[d] < top + 1
    <3>1. CASE d \in Line
      <4>1. at2[d] = at[d] /\ at[d] < top /\ at[d] \in Int  BY <3>1, <1>7, <1>12, <1>14
      <4> QED  BY <4>1, <1>7
    <3>2. CASE d \notin Line  BY <3>2, <1>7, <1>17
    <3> QED  BY <3>1, <3>2
  <2>2. ASSUME NEW d \in Line', NEW e \in Line', Began(d)', ~Began(e)'  PROVE at2[d] < at2[e]
    <3>1. Began(d) /\ ~Began(e)  BY <2>2, <1>1 DEF Began
    <3>2. d \in Line
      <4>1. x \in Call => ~Began(x)  BY <1>12, <1>13
      <4> QED  BY <3>1, <4>1, <1>17
    <3>3. CASE e \in Line  BY <3>1, <3>2, <3>3, <1>7, <1>14
    <3>4. CASE e \notin Line  BY <3>2, <3>4, <1>7, <1>14, <1>17
    <3> QED  BY <3>3, <3>4
  <2> QED  BY <2>1, <2>2, <1>5, <1>6, <1>15 DEF InLine
<1> DEFINE CanonNow(m, d) ==
             /\ d \in Line'
             /\ m = <<Target(d).site,
                      Cardinality({e \in Line' : Target(e).site = Target(d).site /\ at2[e] <= at2[d]})>>
<1>19. ASSUME NEW m \in Instance, NEW d, Canon(at, m, d)  PROVE CanonNow(m, d)
  <2> DEFINE S == {e \in Line : Target(e).site = Target(d).site /\ at[e] <= at[d]}
             T == {e \in Line' : Target(e).site = Target(d).site /\ at2[e] <= at2[d]}
  <2>1. d \in Line /\ m = <<Target(d).site, Cardinality(S)>>  BY <1>19 DEF Canon
  <2>2. at2[d] = at[d] /\ at[d] < top /\ at[d] \in Int /\ top \in Int  BY <2>1, <1>7, <1>12, <1>14
  <2>3. S = T
    <3>1. ASSUME NEW e \in S  PROVE e \in T  BY <2>2, <1>14, <1>16
    <3>2. ASSUME NEW e \in T  PROVE e \in S
      <4>1. e \in Line
        <5> SUFFICES ASSUME e \notin Line  PROVE FALSE
          OBVIOUS
        <5>1. at2[e] = top /\ at2[e] <= at2[d]  BY <1>17
        <5> QED  BY <5>1, <2>2
      <4> QED  BY <4>1, <2>2, <1>14
    <3> QED  BY <3>1, <3>2
  <2>4. d \in Line'  BY <2>1, <1>16
  <2> HIDE DEF S
  <2> QED  BY <2>1, <2>3, <2>4
<1> HIDE DEF CanonNow
<1>20. Canonical(at2)'
  <2>1. ASSUME NEW m \in Instance, rows'[m].status # "none"  PROVE CanonNow(m, rows'[m].call)
    <3>1. rows[m].status # "none" /\ rows'[m].call = rows[m].call  BY <2>1, <1>3
    <3>2. Canon(at, m, rows[m].call)  BY <3>1 DEF Fit, Canonical
    <3> QED  BY <3>1, <3>2, <1>19
  <2>2. ASSUME NEW a \in Actor, NEW q \in Elems(fresh[a])  PROVE CanonNow(q[1], q[2])
    <3>1. Canon(at, q[1], q[2])  BY DEF Fit, Canonical
    <3>2. fresh[a] \in Seq(Instance \X Call)  BY DEF IInv, Placed
    <3>3. q[1] \in Instance  BY <3>2, SeqElems
    <3> QED  BY <3>1, <3>3, <1>19
  <2> QED  BY <2>1, <2>2, <1>1 DEF Canonical, Canon, CanonNow
<1>21. ByTheLog(at2)'
  <2>1. ByTheLog(at)  BY DEF Fit
  <2>2. log \in Seq(Instance) /\ DOMAIN log = 1..Len(log) /\ Len(log) \in Nat
        /\ \A m \in Elems(log) : m \in Instance
    BY SeqElems DEF IInv, Gate
  <2>3. n \notin Elems(log)  BY DEF Departs
  <2>4. log' = log \o <<n>>
    <3>1. Those(<<n>>, Instance \ Elems(log)) = <<n>>
      <4> DEFINE q == <<n>>
                 t == Those(q, Instance \ Elems(log))
      <4>0. q \in Seq(Instance) /\ Once(q) /\ Elems(q) = {n}  BY <1>8
      <4> HIDE DEF q
      <4>1. t \in Seq(Instance) /\ Elems(t) = {n} /\ Once(t)
        BY <4>0, <2>3, ThoseElems
      <4> HIDE DEF t
      <4>2. Len(t) = 1  BY <4>1, OnceLen, FS_Singleton
      <4>3. t[1] = n /\ DOMAIN t = 1..1  BY <4>1, <4>2, LenProperties DEF Elems
      <4>4. t = <<n>>  BY <4>1, <4>2, <4>3, <1>8, SeqEqual
      <4> QED  BY <4>4 DEF t, q
    <3> QED  BY <3>1, <1>1 DEF Record
  <2>5. /\ DOMAIN log' = 1..(Len(log) + 1)
        /\ \A i \in DOMAIN log : log'[i] = log[i]
        /\ log'[Len(log) + 1] = n
        /\ Elems(log') = Elems(log) \cup {n}
    <3>1. /\ Len(<<n>>) = 1 /\ <<n>>[1] = n  OBVIOUS
    <3>2. /\ log \o <<n>> \in Seq(Instance) /\ Len(log \o <<n>>) = Len(log) + 1
          /\ \A i \in 1..(Len(log) + 1) :
               (log \o <<n>>)[i] = IF i <= Len(log) THEN log[i] ELSE <<n>>[i - Len(log)]
      BY <3>1, <2>2, <1>8, ConcatProperties
    <3>3. Elems(log \o <<n>>) = Elems(log) \cup {n}
      <4> DEFINE q == <<n>>
      <4>1. q \in Seq(Instance) /\ Elems(q) = {n}  BY <1>8
      <4> HIDE DEF q
      <4>2. Elems(log \o q) = Elems(log) \cup {n}  BY <4>1, <2>2, ConcatOnce
      <4> QED  BY <4>2 DEF q
    <3> QED  BY <3>1, <3>2, <3>3, <2>2, <2>4, LenProperties
  <2>6. /\ Settled' = Settled \cup {n} /\ n \notin Settled
        /\ \A m \in Settled' : m \in Instance /\ NextOf(m)' = NextOf(m)
    <3>1. Settled' = Settled \cup {n} /\ n \notin Settled  BY <1>3 DEF Settled
    <3>2. ASSUME NEW m \in Settled'  PROVE m \in Instance /\ NextOf(m)' = NextOf(m)
      <4>1. m \in Instance  BY DEF Settled
      <4>2. rows'[m].call = rows[m].call  BY <4>1, <1>3
      <4> QED  BY <4>1, <4>2 DEF NextOf
    <3> QED  BY <3>1, <3>2
  <2>7. {NextOf(m)' : m \in Settled'} = {NextOf(m) : m \in Settled} \cup {x}
    BY <2>6 DEF x
  <2>8. \A m \in Settled : NextOf(m) \in Call => NextOf(m) \in Line  BY <2>1 DEF ByTheLog
  <2>9. \A b \in Branch : <<b, 1>> \in Line  BY <2>1 DEF ByTheLog, Firsts
  <2>10. Settled' \subseteq Elems(log')  BY <2>1, <2>5, <2>6 DEF ByTheLog
  <2>11. (Line = Firsts \cup ({NextOf(m) : m \in Settled} \cap Call))'
    <3>1. Line = Firsts \cup ({NextOf(m) : m \in Settled} \cap Call)  BY <2>1 DEF ByTheLog
    <3>2. Firsts' = Firsts  BY DEF Firsts
    <3> QED  BY <3>1, <3>2, <2>7, <1>16 DEF X
  <2>12. \A i, j \in DOMAIN Branches :
           i < j => at2[<<Branches[i], 1>>] < at2[<<Branches[j], 1>>]
    <3>1. \A i \in DOMAIN Branches : Branches[i] \in Branch  BY DEF Branch, Elems
    <3>2. \A i, j \in DOMAIN Branches :
            i < j => at[<<Branches[i], 1>>] < at[<<Branches[j], 1>>]
      BY <2>1 DEF ByTheLog
    <3> QED  BY <3>1, <3>2, <2>9, <1>14
  <2>13. ASSUME NEW b \in Branch, NEW m \in Settled', NextOf(m)' \in Call
         PROVE  at2[<<b, 1>>] < at2[NextOf(m)']
    <3>1. at2[<<b, 1>>] = at[<<b, 1>>] /\ at[<<b, 1>>] < top  BY <2>9, <1>7, <1>14
    <3>2. CASE m \in Settled
      <4>1. NextOf(m)' = NextOf(m) /\ NextOf(m) \in Line  BY <3>2, <2>6, <2>8, <2>13
      <4>2. at[<<b, 1>>] < at[NextOf(m)]  BY <3>2, <4>1, <2>1, <1>12 DEF ByTheLog
      <4> QED  BY <3>1, <4>1, <4>2, <1>14
    <3>3. CASE m = n
      <4>1. NextOf(m)' = x /\ x \in Call  BY <3>3, <2>13, <1>11
      <4> QED  BY <3>1, <4>1, <1>14
    <3> QED  BY <3>2, <3>3, <2>6
  <2>14. ASSUME NEW i \in DOMAIN log', NEW j \in DOMAIN log', i < j,
                log'[i] \in Settled', log'[j] \in Settled',
                NextOf(log[i])' \in Call, NextOf(log[j])' \in Call
         PROVE  at2[NextOf(log[i])'] < at2[NextOf(log[j])']
    <3>0. i \in DOMAIN log /\ log'[i] = log[i] /\ log[i] \in Elems(log)
      BY <2>2, <2>5, <2>14 DEF Elems
    <3>1. PICK l \in Settled : l = log'[i] /\ l = log[i]  BY <3>0, <2>3, <2>6, <2>14
    <3>2. NextOf(log[i])' = NextOf(l)  BY <3>1, <2>6 DEF NextOf
    <3>3. NextOf(l) \in Line  BY <3>2, <2>8, <2>14
    <3>4. at2[NextOf(l)] = at[NextOf(l)] /\ at[NextOf(l)] < top  BY <3>3, <1>7, <1>14
    <3>5. CASE j \in DOMAIN log
      <4>0. log'[j] = log[j] /\ log[j] \in Elems(log)  BY <3>5, <2>5 DEF Elems
      <4>1. PICK k \in Settled : k = log[j] /\ k = log'[j]  BY <4>0, <2>3, <2>6, <2>14
      <4>2. NextOf(log[j])' = NextOf(k)  BY <4>1, <2>6 DEF NextOf
      <4>3. NextOf(k) \in Line /\ at2[NextOf(k)] = at[NextOf(k)]  BY <4>2, <2>8, <2>14, <1>14
      <4>4. Sooner(at, log[i], log[j])  BY <3>0, <3>1, <3>5, <4>1, <2>1, <2>14 DEF ByTheLog
      <4>5. at[NextOf(l)] < at[NextOf(k)]
        BY <4>1, <4>3, <4>4, <3>1, <3>3, <1>12 DEF Sooner
      <4> QED  BY <4>2, <4>3, <4>5, <3>2, <3>4
    <3>6. CASE j = Len(log) + 1
      <4>1. log'[j] = n  BY <3>6, <2>5
      <4>2. NextOf(log[j])' = x  BY <4>1, <1>3 DEF NextOf, x, c
      <4> QED  BY <4>2, <3>2, <3>4, <2>14, <1>14
    <3> QED  BY <3>5, <3>6, <2>2, <2>5
  <2>15. (\A i, j \in DOMAIN log :
            i < j /\ log[i] \in Settled /\ log[j] \in Settled => Sooner(at2, log[i], log[j]))'
    BY <2>14 DEF Sooner
  <2> QED  BY <2>10, <2>11, <2>12, <2>13, <2>15 DEF ByTheLog
<1>22. \A m \in Instance : rows'[m].status = "completed" <=> m = n \/ rows[m].status = "completed"
  BY <1>3
<1>23. Claimed'
  <2>1. \A m \in Elems(order) : m \in Instance /\ rows'[m].status = "completed"
    BY <1>22, ClaimsAreSettled
  <2>2. ASSUME NEW m \in Instance, rows'[m].status = "completed"
        PROVE  ~(rows'[m].call[2] > answered'[rows'[m].call[1]])
    <3>1. CASE m = n  BY <3>1, <1>3, <1>10 DEF c
    <3>2. CASE m # n
      <4> DEFINE d == rows[m].call
      <4>1. rows[m].status = "completed" /\ rows'[m] = rows[m]  BY <2>2, <3>2, <1>3
      <4>2. d \in Call /\ d[1] \in Branch /\ d[2] \in Nat /\ answered[d[1]] \in Nat
        BY <4>1, CallIsPlace DEF IInv, Rows, ScriptFits
      <4>3. ~(d[2] > answered[d[1]])  BY <4>1, <1>4 DEF Claimed
      <4> HIDE DEF d
      <4>4. answered'[d[1]] = answered[d[1]] \/ answered'[d[1]] = answered[d[1]] + 1
        BY <4>2, <1>10
      <4> QED  BY <4>1, <4>2, <4>3, <4>4 DEF d
    <3> QED  BY <3>1, <3>2
  <2> QED  BY <2>1, <2>2, <1>1, <1>5 DEF Claimed
<1>24. Heard'
  <2>0. life # 0  BY DEF IInv, History
  <2>1. \A m \in Instance : rows'[m].status = "completed" => rows'[m].result # 0
    BY <2>0, <1>3 DEF Heard
  <2>2. ASSUME NEW d \in Call, told'[d] # 0
        PROVE  \E m \in Instance : rows'[m].call = d /\ rows'[m].status = "completed"
                                   /\ rows'[m].result = told'[d]
    <3>1. CASE d = c  BY <3>1, <1>3, <1>10 DEF c
    <3>2. CASE d # c
      <4>1. told'[d] = told[d]  BY <3>2, <1>10
      <4>2. PICK m \in Instance : rows[m].call = d /\ rows[m].status = "completed"
                                  /\ rows[m].result = told[d]
        BY <4>1, <2>2 DEF Heard
      <4>3. rows'[m] = rows[m]  BY <4>2, <1>3
      <4> QED  BY <4>1, <4>2, <4>3
    <3> QED  BY <3>1, <3>2
  <2>3. ASSUME NEW d \in Call, d[2] <= answered'[d[1]]  PROVE told'[d] # 0
    <3>0. d[1] \in Branch /\ d[2] \in Nat /\ answered[d[1]] \in Nat
      BY CallIsPlace DEF IInv, ScriptFits
    <3>1. CASE d = c  BY <3>1, <2>0, <1>10
    <3>2. CASE d # c
      <4>1. told'[d] = told[d]  BY <3>2, <1>10
      <4>2. d[2] <= answered[d[1]]
        <5>1. CASE d[1] # c[1]  BY <5>1, <3>0, <2>3, <1>10
        <5>2. CASE d[1] = c[1]
          <6>1. d[2] # c[2]  BY <5>2, <3>2, <1>10, CallIsPlace
          <6> QED  BY <6>1, <5>2, <3>0, <2>3, <1>10
        <5> QED  BY <5>1, <5>2
      <4> QED  BY <4>1, <4>2 DEF Heard
    <3> QED  BY <3>1, <3>2
  <2> QED  BY <2>1, <2>2, <2>3 DEF Heard
<1>25. Fit(at2, top + 1)'  BY <1>7, <1>18, <1>20, <1>21 DEF Fit
<1> QED  BY <1>1, <1>23, <1>24, <1>25

(* A life begins with all its answers before it, in the order of the log:   *)
(* the calls they lead to will be those the journal knows.                  *)
LEMMA BeginReplays ==
  ASSUME IInv, Claimed, Heard, NEW at, NEW top, Fit(at, top),
         rows' = rows, told' = told, Begin(rows, log'),
         NEW t \in Seq(Instance), log' = log \o t, Once(log')
  PROVE  Claimed' /\ Heard' /\ Fit(at, top)' /\ status' # "errored"
<1> DEFINE done == {n \in Instance : rows[n].status = "completed"}
           ord == order'
<1>1. /\ status' # "errored" /\ pipe' = Branches /\ cursor' = 0 /\ due' = <<>>
      /\ pos' = [b \in Branch |-> 0] /\ answered' = [b \in Branch |-> 0]
      /\ fresh' = [a \in Actor |-> <<>>]
  BY DEF Begin
<1>2. ord = Those(log', done)  BY DEF Begin, RecoverSettleOrder
<1>3. ByTheLog(at) /\ at \in [Call -> Int] /\ top \in Int /\ \A c \in Line : at[c] < top
  BY DEF Fit, InLine
<1>4. /\ log \in Seq(Instance) /\ log' \in Seq(Instance)
      /\ done = Settled /\ done \subseteq Elems(log)
      /\ Elems(log') = Elems(log) \cup Elems(t)
  BY <1>3, ConcatOnce DEF IInv, Gate, ByTheLog, Settled
<1>5. /\ DOMAIN log = 1..Len(log) /\ Len(log) \in Nat
      /\ DOMAIN log' = 1..Len(log') /\ Len(log') \in Nat /\ Len(log) <= Len(log')
      /\ \A i \in DOMAIN log : i \in DOMAIN log' /\ log'[i] = log[i]
  <2>1. Len(log \o t) = Len(log) + Len(t) /\ Len(t) \in Nat /\ Len(log) \in Nat
    BY <1>4, ConcatProperties, LenProperties
  <2>2. \A i \in 1..(Len(log) + Len(t)) :
          (log \o t)[i] = IF i <= Len(log) THEN log[i] ELSE t[i - Len(log)]
    BY <1>4, ConcatProperties
  <2> QED  BY <2>1, <2>2, <1>4, LenProperties
<1> HIDE DEF done
<1>6. ord \in Seq(Instance) /\ Elems(ord) = done
  <2> DEFINE s == log'
  <2>1. s \in Seq(Instance) /\ ord = Those(s, done) /\ Elems(s) \cap done = done  BY <1>2, <1>4
  <2> HIDE DEF s, ord
  <2> QED  BY <2>1, ThoseElems
<1>7. DOMAIN ord = 1..Len(ord) /\ Len(ord) \in Nat  BY <1>6, LenProperties
<1>8. \A i, j \in DOMAIN ord : i < j =>
        \E k, l \in DOMAIN log : /\ k < l /\ ord[i] = log[k] /\ ord[j] = log[l]
                                 /\ log[k] \in done /\ log[l] \in done
  <2>1. PICK place \in [1..Len(ord) -> DOMAIN log'] :
          /\ \A k \in 1..Len(ord) : ord[k] = log'[place[k]] /\ ord[k] \in done
          /\ \A k, l \in 1..Len(ord) : k < l => place[k] < place[l]
    <3> DEFINE s == log'
               u == Those(s, done)
    <3>1. s \in Seq(Instance) /\ ord = u  BY <1>2, <1>4
    <3> HIDE DEF s, ord
    <3>2. \E place \in [1..Len(u) -> DOMAIN s] :
            /\ \A k \in 1..Len(u) : u[k] = s[place[k]] /\ u[k] \in done
            /\ \A k, l \in 1..Len(u) : k < l => place[k] < place[l]
      BY <3>1, ThosePlaces
    <3> HIDE DEF u
    <3> QED  BY <3>1, <3>2 DEF s
  <2>2. ASSUME NEW k \in DOMAIN ord  PROVE place[k] \in DOMAIN log /\ ord[k] = log[place[k]] /\ ord[k] \in done
    <3>1. place[k] \in DOMAIN log' /\ ord[k] = log'[place[k]] /\ ord[k] \in Elems(log)
      BY <2>1, <1>4, <1>7
    <3>2. PICK i \in DOMAIN log : log[i] = ord[k]  BY <3>1 DEF Elems
    <3>3. i = place[k]  BY <3>1, <3>2, <1>5 DEF Once
    <3> QED  BY <2>1, <3>2, <3>3, <1>7
  <2> QED  BY <2>1, <2>2, <1>7
<1>9. Rest' = done /\ Elems(due') = {} /\ DOMAIN due' = {} /\ Claims' = done
  <2>1. Elems(due') = {} /\ DOMAIN due' = {}  BY <1>1, EmptyOnce
  <2>2. (cursor' + 1)..Len(ord) = DOMAIN ord  BY <1>1, <1>7
  <2>3. Rest' = {ord[i] : i \in (cursor' + 1)..Len(ord)}  BY DEF Rest
  <2>4. Rest' = done  BY <2>2, <2>3, <1>6 DEF Elems
  <2> QED  BY <2>1, <2>4 DEF Claims
<1>10. \A n : NextOf(n)' = NextOf(n)  BY DEF NextOf
<1>11. ToCome' = {NextOf(n) : n \in done} \cap Call  BY <1>9, <1>10 DEF ToCome
<1>12. \A c \in Call : ~Began(c)' /\ c[1] \in Branch /\ c[2] \in Nat \ {0}
  <2> TAKE c \in Call
  <2>1. c[1] \in Branch /\ c[2] \in 1..Len(Plan[c[1]]) /\ c[2] \in Nat  BY CallIsPlace
  <2>2. pos'[c[1]] = 0 /\ c[2] # 0  BY <2>1, <1>1
  <2> QED  BY <2>1, <2>2 DEF Began
<1>13. \A b \in Branch : CallOf(b)' = <<b, 1>>  BY <1>1 DEF CallOf
<1>14. UnderWay' = Firsts
  <2>1. Elems(pipe') = Branch  BY <1>1 DEF Branch
  <2>2. UnderWay' = {CallOf(b)' : b \in Elems(pipe')}  BY DEF UnderWay
  <2> QED  BY <2>1, <2>2, <1>13 DEF Firsts
<1>15. Line' = Line
  <2>1. {c \in Call : Began(c)}' = {}  BY <1>12
  <2>2. Line = Firsts \cup ({NextOf(n) : n \in done} \cap Call)  BY <1>3, <1>4 DEF ByTheLog
  <2> QED  BY <2>1, <2>2, <1>11, <1>14 DEF Line
<1>16. InLine(at, top)'
  <2>1. ASSUME NEW i \in DOMAIN pipe', NEW j \in DOMAIN pipe', i < j
        PROVE  at[CallOf(pipe[i])'] < at[CallOf(pipe[j])']
    <3>1. pipe'[i] = Branches[i] /\ pipe'[j] = Branches[j] /\ i \in DOMAIN Branches /\ j \in DOMAIN Branches
      BY <1>1
    <3>2. Branches[i] \in Branch /\ Branches[j] \in Branch  BY <3>1 DEF Branch, Elems
    <3>3. CallOf(pipe[i])' = <<Branches[i], 1>> /\ CallOf(pipe[j])' = <<Branches[j], 1>>
      BY <3>1, <3>2, <1>1 DEF CallOf
    <3> QED  BY <2>1, <3>1, <3>3, <1>3 DEF ByTheLog
  <2>2. ASSUME NEW d \in UnderWay', NEW e \in ToCome'  PROVE at[d] < at[e]
    <3>1. PICK b \in Branch : d = <<b, 1>>  BY <1>14 DEF Firsts
    <3>2. PICK n \in Settled : e = NextOf(n) /\ e \in Call  BY <1>4, <1>11
    <3> QED  BY <3>1, <3>2, <1>3 DEF ByTheLog
  <2>3. ASSUME NEW i \in DOMAIN ord, NEW j \in DOMAIN ord, i < j,
               NextOf(order[i])' \in Call, NextOf(order[j])' \in Call
        PROVE  at[NextOf(order[i])'] < at[NextOf(order[j])']
    <3>1. PICK k \in DOMAIN log, l \in DOMAIN log :
            /\ k < l /\ ord[i] = log[k] /\ ord[j] = log[l]
            /\ log[k] \in Settled /\ log[l] \in Settled
      BY <1>4, <1>8, <2>3
    <3>2. NextOf(order[i])' = NextOf(log[k]) /\ NextOf(order[j])' = NextOf(log[l])
      BY <3>1 DEF NextOf
    <3>3. Sooner(at, log[k], log[l])  BY <3>1, <1>3 DEF ByTheLog
    <3> QED  BY <2>3, <3>2, <3>3 DEF Sooner
  <2>4. \A i, j \in (cursor' + 1)..Len(order') : i < j => Sooner(at, order[i], order[j])'
    <3>1. (cursor' + 1)..Len(order') = DOMAIN ord  BY <1>1, <1>7
    <3> QED  BY <3>1, <2>3 DEF Sooner
  <2>5. \A c, d \in Line' : Began(c)' /\ ~Began(d)' => at[c] < at[d]
    <3>1. Line \subseteq Call  BY LineIsOfCalls
    <3> QED  BY <3>1, <1>12, <1>15
  <2> QED  BY <2>1, <2>2, <2>4, <2>5, <1>3, <1>9, <1>15 DEF InLine
<1>17. Canonical(at)'
  <2>1. Canonical(at)  BY DEF Fit
  <2>2. \A a \in Actor : Elems(fresh'[a]) = {}  BY <1>1, EmptyOnce
  <2> QED  BY <2>1, <2>2, <1>15 DEF Canonical, Canon
<1>18. ByTheLog(at)'
  <2>1. ASSUME NEW i \in DOMAIN log', log'[i] \in Settled
        PROVE  i \in DOMAIN log /\ log'[i] = log[i]
    <3>1. PICK k \in DOMAIN log : log[k] = log'[i]  BY <2>1, <1>4 DEF Elems
    <3>2. k = i  BY <3>1, <1>5 DEF Once
    <3> QED  BY <3>1, <3>2
  <2>2. Firsts' = Firsts /\ Settled' = Settled  BY DEF Firsts, Settled
  <2>3. \A m, n : Sooner(at, m, n)' <=> Sooner(at, m, n)  BY <1>10 DEF Sooner
  <2>4. ASSUME NEW i \in DOMAIN log', NEW j \in DOMAIN log', i < j,
               log'[i] \in Settled, log'[j] \in Settled
        PROVE  Sooner(at, log[i], log[j])'
    <3>1. /\ i \in DOMAIN log /\ log'[i] = log[i] /\ j \in DOMAIN log /\ log'[j] = log[j]
      BY <2>1, <2>4
    <3>2. Sooner(at, log[i], log[j])  BY <2>4, <3>1, <1>3 DEF ByTheLog
    <3>3. NextOf(log[i])' = NextOf(log[i]) /\ NextOf(log[j])' = NextOf(log[j])
      BY <3>1 DEF NextOf
    <3> QED  BY <3>2, <3>3 DEF Sooner
  <2>5. Settled' \subseteq Elems(log')  BY <2>2, <1>4
  <2>6. {NextOf(n) : n \in Settled}' = {NextOf(n) : n \in Settled}  BY <2>2, <1>10
  <2> QED  BY <2>2, <2>4, <2>5, <2>6, <1>3, <1>10, <1>15 DEF ByTheLog
<1>19. Claimed'
  <2>1. ASSUME NEW n \in Instance, rows[n].status = "completed"
        PROVE  n \in done /\ rows[n].call[2] > answered'[rows[n].call[1]]
    <3>1. rows[n].call \in Call  BY <2>1 DEF IInv, Rows
    <3>2. rows[n].call[1] \in Branch /\ rows[n].call[2] \in Nat \ {0}  BY <3>1, <1>12
    <3>3. answered'[rows[n].call[1]] = 0  BY <3>2, <1>1
    <3> QED  BY <2>1, <3>2, <3>3 DEF done
  <2>2. \A n \in Elems(order') : rows'[n].status = "completed"  BY <1>6 DEF done
  <2> QED  BY <2>1, <2>2, <1>9 DEF Claimed
<1>20. Heard'
  <2>1. \A c \in Call : ~(c[2] <= answered'[c[1]])
    <3> TAKE c \in Call
    <3>1. c[1] \in Branch /\ c[2] \in Nat \ {0}  BY <1>12
    <3>2. answered'[c[1]] = 0  BY <3>1, <1>1
    <3> QED  BY <3>1, <3>2
  <2> QED  BY <2>1 DEF Heard
<1> QED  BY <1>1, <1>3, <1>16, <1>17, <1>18, <1>19, <1>20 DEF Fit

(* The first life.                                                          *)
LEMMA InitReplays == Init => RInv
<1> SUFFICES ASSUME Init  PROVE RInv
  OBVIOUS
<1> DEFINE at == [c \in Call |-> CHOOSE i \in DOMAIN Branches : Branches[i] = c[1]]
           top == Len(Branches) + 1
<1>1. /\ \A n \in Instance : rows[n].status = "none" /\ rows[n].call = <<>>
      /\ log = <<>> /\ \A c \in Call : told[c] = 0
      /\ pos = [b \in Branch |-> 0] /\ answered = [b \in Branch |-> 0]
      /\ pipe = Branches /\ fresh = [a \in Actor |-> <<>>]
      /\ order = <<>> /\ cursor = 0 /\ due = <<>> /\ status # "errored"
  BY DEF Init, NoRow
<1>2. DOMAIN Branches = 1..Len(Branches) /\ Len(Branches) \in Nat /\ Once(Branches)
  BY ScriptAssumption, LenProperties
<1>3. \A b \in Branch : \E i \in DOMAIN Branches : Branches[i] = b  BY DEF Branch, Elems
<1>4. \A c \in Call : ~Began(c) /\ c[1] \in Branch /\ c[2] \in Nat \ {0}
  <2> TAKE c \in Call
  <2>1. c[1] \in Branch /\ c[2] \in 1..Len(Plan[c[1]]) /\ c[2] \in Nat  BY CallIsPlace
  <2>2. pos[c[1]] = 0 /\ c[2] # 0  BY <2>1, <1>1
  <2> QED  BY <2>1, <2>2 DEF Began
<1>5. /\ Elems(due) = {} /\ Elems(order) = {} /\ Elems(log) = {}
      /\ DOMAIN due = {} /\ DOMAIN order = {} /\ DOMAIN log = {} /\ (cursor + 1)..Len(order) = {}
      /\ Rest = {} /\ Claims = {} /\ ToCome = {}
  <2>1. /\ Elems(due) = {} /\ Elems(order) = {} /\ Elems(log) = {}
        /\ DOMAIN due = {} /\ DOMAIN order = {} /\ DOMAIN log = {}
    BY <1>1, EmptyOnce
  <2>2. Len(order) = 0 /\ (cursor + 1)..Len(order) = {}
    <3>1. Len(order) = 0  BY <1>1
    <3> QED  BY <3>1, <1>1
  <2>3. Rest = {} /\ Claims = {}  BY <2>1, <2>2 DEF Rest, Claims
  <2> QED  BY <2>1, <2>2, <2>3 DEF ToCome
<1>6. \A b \in Branch : CallOf(b) = <<b, 1>>  BY <1>1 DEF CallOf
<1>7. UnderWay = Firsts /\ Line = Firsts
  <2>1. Elems(pipe) = Branch  BY <1>1 DEF Branch
  <2>2. UnderWay = Firsts  BY <2>1, <1>6 DEF UnderWay, Firsts
  <2> QED  BY <2>2, <1>4, <1>5 DEF Line
<1>8. Line \subseteq Call  BY InitFits, LineIsOfCalls
<1>9. \A c \in Call : at[c] \in DOMAIN Branches /\ Branches[at[c]] = c[1]
  BY <1>3, <1>4
<1>10. at \in [Call -> Int] /\ top \in Int /\ \A c \in Line : at[c] < top
  BY <1>2, <1>8, <1>9
<1>11. \A i \in DOMAIN Branches :
         Branches[i] \in Branch /\ <<Branches[i], 1>> \in Call /\ at[<<Branches[i], 1>>] = i
  <2> TAKE i \in DOMAIN Branches
  <2> DEFINE c == <<Branches[i], 1>>
  <2>1. Branches[i] \in Branch  BY DEF Branch, Elems
  <2>2. c \in Call /\ c[1] = Branches[i]  BY <2>1, <1>7, <1>8 DEF Firsts
  <2> HIDE DEF c, at
  <2>3. Branches[at[c]] = Branches[i] /\ at[c] \in DOMAIN Branches  BY <2>2, <1>9
  <2>4. at[c] = i  BY <2>3, <1>2 DEF Once
  <2> QED  BY <2>1, <2>2, <2>4 DEF c
<1> HIDE DEF at, top
<1>12. InLine(at, top)
  <2>1. \A i, j \in DOMAIN pipe : i < j => at[CallOf(pipe[i])] < at[CallOf(pipe[j])]
    BY <1>1, <1>6, <1>11
  <2> QED  BY <2>1, <1>4, <1>5, <1>8, <1>10 DEF InLine
<1>13. Canonical(at)
  <2>1. \A a \in Actor : Elems(fresh[a]) = {}  BY <1>1, EmptyOnce
  <2> QED  BY <2>1, <1>1 DEF Canonical
<1>14. ByTheLog(at)
  <2>1. \A i, j \in DOMAIN Branches : i < j => at[<<Branches[i], 1>>] < at[<<Branches[j], 1>>]
    BY <1>11
  <2>2. Settled = {}  BY <1>1 DEF Settled
  <2> QED  BY <2>1, <2>2, <1>5, <1>7 DEF ByTheLog
<1>15. Claimed  BY <1>1, <1>5 DEF Claimed
<1>16. Heard
  <2>1. \A c \in Call : ~(c[2] <= answered[c[1]])
    <3> TAKE c \in Call
    <3>1. c[1] \in Branch /\ c[2] \in Nat \ {0}  BY <1>4
    <3>2. answered[c[1]] = 0  BY <3>1, <1>1
    <3> QED  BY <3>1, <3>2
  <2> QED  BY <2>1, <1>1 DEF Heard
<1> QED  BY <1>1, <1>10, <1>12, <1>13, <1>14, <1>15, <1>16 DEF RInv

(* A crash that tears nothing, and a stop, leave the log as the next life   *)
(* needs it.                                                                *)
LEMMA CrashReplays ==
  ASSUME IInv, Claimed, Heard, NEW at, NEW top, Fit(at, top), Crash({})
  PROVE  Claimed' /\ Heard' /\ Fit(at, top)' /\ status' # "errored"
<1>1. rows' = rows
  <2>1. rows' = [n \in Instance |-> rows[n]]
    BY DEF Crash
  <2> QED  BY <2>1 DEF IInv, Rows
<1>2. log' = log /\ told' = told
  BY DEF Crash
<1>3. Begin(rows, log')  BY <1>1, <1>2 DEF Crash
<1> DEFINE t == <<>>
<1>4. t \in Seq(Instance) /\ log' = log \o t  BY <1>2, ConcatEmptySeq DEF IInv, Gate
<1>5. Once(log')  BY <1>2 DEF IInv, Gate
<1> HIDE DEF t
<1> QED  BY <1>1, <1>2, <1>3, <1>4, <1>5, BeginReplays

(* A stop logs the asks in flight behind all that were answered.            *)
LEMMA StopReplays ==
  ASSUME IInv, Claimed, Heard, NEW at, NEW top, Fit(at, top), Stop
  PROVE  Claimed' /\ Heard' /\ Fit(at, top)' /\ status' # "errored"
<1>1. rows' = rows /\ told' = told /\ Record(live)
  BY DEF Stop
<1>2. Begin(rows, log')  BY DEF Stop
<1> DEFINE t == Those(live, Instance \ Elems(log))
<1>3. live \in Seq(Instance) /\ Once(live) /\ log \in Seq(Instance) /\ Once(log)
  BY DEF IInv, Apart, Gate
<1>4. t \in Seq(Instance) /\ log' = log \o t
  BY <1>1, <1>3, ThoseElems DEF Record
<1>5. Once(log')  BY <1>1, <1>3, RecordFits
<1> HIDE DEF t
<1> QED  BY <1>1, <1>2, <1>4, <1>5, BeginReplays

(* What was left is not kept again, and a step that does not leave it has   *)
(* no cause to.                                                             *)
LEMMA StaysKept ==
  ASSUME [Next]_vars, course' = "kept"
  PROVE  /\ course = "kept"
         /\ \A n \in Instance : SettleOk(n) => ~Departs(n)
         /\ \A S : Crash(S) => S = {}
<1>1. ASSUME NEW n \in Instance, SettleOk(n)  PROVE ~Departs(n)
  BY <1>1 DEF SettleOk, LeavesIf
<1>2. ASSUME NEW S, Crash(S)  PROVE S = {}  BY <1>2 DEF Crash, LeavesIf
<1>3. course = "kept"
  <2>1. CASE AskRecorded  BY <2>1 DEF AskRecorded, Mismatch, history
  <2>2. CASE AskFresh  BY <2>2 DEF AskFresh
  <2>3. CASE Flush  BY <2>3 DEF Flush
  <2>4. CASE Complete  BY <2>4 DEF Complete, history
  <2>5. CASE \E n \in Instance : SettleOk(n)  BY <2>5 DEF SettleOk, LeavesIf
  <2>6. CASE \E S \in {{}} \cup {{n} : n \in Tearable} : Crash(S)  BY <2>6 DEF Crash, LeavesIf
  <2>7. CASE Stop  BY <2>7 DEF Stop
  <2>8. CASE UNCHANGED vars  BY <2>8 DEF vars, history
  <2> QED  BY <2>1, <2>2, <2>3, <2>4, <2>5, <2>6, <2>7, <2>8 DEF Next, Proceed
<1> QED  BY <1>1, <1>2, <1>3

(* Every step that departs from nothing keeps the calls in their order.     *)
LEMMA NextReplays ==
  ASSUME IInv, RInv, [Next]_vars, course' = "kept"
  PROVE  RInv'
<1>1. PICK at, top : Fit(at, top)  BY DEF RInv, Fit
<1>2. status # "errored" /\ Claimed /\ Heard  BY DEF RInv
<1>3. ASSUME Claimed', Heard', status' # "errored", \E at2, top2 : Fit(at2, top2)'
      PROVE  RInv'
  BY <1>3 DEF RInv, Fit
<1>4. CASE AskRecorded
  BY <1>1, <1>2, <1>3, <1>4, AskRecordedReplays
<1>5. CASE AskFresh
  BY <1>1, <1>2, <1>3, <1>5, AskFreshReplays
<1>6. CASE Flush
  BY <1>1, <1>2, <1>3, <1>6, FlushReplays
<1>7. CASE \E n \in Instance : SettleOk(n)
  <2>1. PICK n \in Instance : SettleOk(n)  BY <1>7
  <2>2. ~Departs(n)  BY <2>1, StaysKept
  <2> QED  BY <1>1, <1>2, <1>3, <2>1, <2>2, SettleOkReplays
<1>8. CASE \E S \in {{}} \cup {{n} : n \in Tearable} : Crash(S)
  <2>1. PICK S : Crash(S)  BY <1>8
  <2>2. Crash({})  BY <2>1, StaysKept
  <2> QED  BY <1>1, <1>2, <1>3, <2>2, CrashReplays
<1>9. CASE Stop
  BY <1>1, <1>2, <1>3, <1>9, StopReplays
<1>10. ASSUME UNCHANGED <<journal, history, script, admission, gate>>, status' # "errored"
       PROVE  RInv'
  <2>1. UNCHANGED <<rows, log, told, pos, answered, pipe, fresh, order, cursor, due>>
    BY <1>10 DEF journal, history, script, admission, gate
  <2>2. Claimed' /\ Heard'
    BY <2>1, <1>2 DEF Claimed, Heard, Claims, Rest
  <2>3. Line' = Line /\ UnderWay' = UnderWay /\ ToCome' = ToCome /\ Rest' = Rest
    BY <2>1 DEF Line, UnderWay, ToCome, Rest, Claims, NextOf, CallOf, Began
  <2>4. InLine(at, top)'
    <3>1. InLine(at, top)  BY <1>1 DEF Fit
    <3> QED  BY <2>1, <2>3, <3>1 DEF InLine, Sooner, NextOf, CallOf, Began
  <2>5. Canonical(at)'  BY <2>1, <2>3, <1>1 DEF Fit, Canonical, Canon
  <2>6. ByTheLog(at)'
    <3>1. ByTheLog(at)  BY <1>1 DEF Fit
    <3> QED  BY <2>1, <2>3, <3>1 DEF ByTheLog, Settled, Sooner, NextOf, Firsts
  <2> QED  BY <2>2, <2>4, <2>5, <2>6, <1>1, <1>10 DEF RInv, Fit
<1>11. CASE Complete
  <2>1. status' # "errored"  BY <1>11 DEF Complete
  <2> QED  BY <2>1, <1>10, <1>11 DEF Complete
<1>12. CASE UNCHANGED vars
  BY <1>2, <1>10, <1>12 DEF vars
<1> QED  BY <1>4, <1>5, <1>6, <1>7, <1>8, <1>9, <1>11, <1>12 DEF Next, Proceed

(* As long as the journal kept the order of the answers, it has every call  *)
(* in its place.                                                            *)
KInv == IInv /\ (course = "kept" => RInv)

LEMMA InitKept == Init => KInv
<1> QED  BY InitFits, InitReplays DEF KInv

LEMMA NextKept == KInv /\ [Next]_vars => KInv'
<1> SUFFICES ASSUME KInv, [Next]_vars  PROVE KInv'
  OBVIOUS
<1>1. IInv /\ IInv'  BY NextKeeps DEF KInv
<1>2. ASSUME course' = "kept"  PROVE RInv'
  <2>1. course = "kept"  BY <1>2, StaysKept
  <2>2. RInv  BY <2>1 DEF KInv
  <2> QED  BY <1>1, <1>2, <2>2, NextReplays
<1> QED  BY <1>1, <1>2 DEF KInv

(* A script is accused of having changed only after one of the three        *)
(* departures: a live answer ahead of a recorded one, an answer to an ask   *)
(* that a stop had logged as cancelled, a crash between row and event.      *)
(* Without one the journal never has another call in the place of the one   *)
(* that arrives, however often the run crashes, is stopped and is resumed.  *)
THEOREM FaithfulUntilDeparture == Spec => []FaithfulWhileKept
<1>1. KInv => FaithfulWhileKept
  BY DEF KInv, RInv, FaithfulWhileKept, ReplayFaithful
<1> QED  BY <1>1, InitKept, NextKept, PTL DEF Spec

(* Who is told something hears it for the first time, and after what came   *)
(* before it.                                                               *)
LEMMA ToldOnce ==
  ASSUME IInv, RInv, Flush \/ \E n \in Instance : SettleOk(n), NEW c \in Call, told'[c] # told[c]
  PROVE  /\ told[c] = 0
         /\ \A d \in Call : d[1] = c[1] /\ d[2] < c[2] => told[d] # 0
<1>1. PICK at, top : Fit(at, top)  BY DEF RInv, Fit
<1>2. Heard  BY DEF RInv
<1> DEFINE Q == Asked(rows, Waiting, fresh)
<1>3. ScriptFits(Q, pos, answered, pipe)  BY DEF IInv
<1>4. ASSUME NEW n \in Instance, rows[n].call = c, rows[n].status # "none",
             told'[c] # 0 => rows[n].status = "running" \/ told'[c] = rows[n].result,
             c[2] = answered[c[1]] + 1, answered[c[1]] \in Nat, told'[c] # 0
      PROVE  /\ told[c] = 0
             /\ \A d \in Call : d[1] = c[1] /\ d[2] < c[2] => told[d] # 0
  <2>1. told[c] = 0
    <3> SUFFICES ASSUME told[c] # 0  PROVE FALSE
      OBVIOUS
    <3>1. PICK m \in Instance : rows[m].call = c /\ rows[m].status = "completed"
                                /\ rows[m].result = told[c]
      BY <1>2 DEF Heard
    <3>2. m = n  BY <3>1, <1>1, <1>4, OneRow
    <3> QED  BY <3>1, <3>2, <1>4
  <2>2. ASSUME NEW d \in Call, d[1] = c[1], d[2] < c[2]  PROVE told[d] # 0
    <3>1. d[2] \in Nat  BY CallIsPlace
    <3>2. d[2] <= answered[d[1]]  BY <3>1, <2>2, <1>4
    <3> QED  BY <3>2, <1>2 DEF Heard
  <2> QED  BY <2>1, <2>2
<1> HIDE DEF Q
<1>5. CASE Flush
  <2>1. Answer(due, rows, pipe)  BY <1>5 DEF Flush
  <2>2. due \in Seq(Instance) /\ Once(due)
        /\ \A n \in Elems(due) : n \in Instance /\ rows[n].status = "completed"
    BY SeqElems DEF IInv, Apart
  <2>3. \A n \in Elems(due) : <<n, rows[n].call>> \in Q  BY DEF Asked, Waiting, Q
  <2>4. /\ \A n \in Elems(due) : /\ answered[rows[n].call[1]] \in Nat
                                 /\ rows[n].call[2] = answered[rows[n].call[1]] + 1
                                 /\ told'[rows[n].call] = rows[n].result
        /\ \A d \in Call : (\A n \in Elems(due) : rows[n].call # d) => told'[d] = told[d]
    BY <2>1, <2>2, <2>3, <1>3, AnswerTells
  <2>5. PICK n \in Elems(due) : rows[n].call = c  BY <2>4
  <2>6. rows[n].result # 0  BY <2>2, <1>2 DEF Heard
  <2> QED  BY <2>2, <2>4, <2>5, <2>6, <1>4
<1>6. ASSUME NEW n \in Instance, SettleOk(n)
      PROVE  /\ told[c] = 0
             /\ \A d \in Call : d[1] = c[1] /\ d[2] < c[2] => told[d] # 0
  <2> DEFINE ns == <<n>>
             rs == rows'
  <2>1. Answer(ns, rs, pipe) /\ Current(n) /\ rows' = Completed(n)
    BY <1>6 DEF SettleOk, MaySettle
  <2>2. /\ n \in Elems(live) /\ rows[n].status = "running"
        /\ rs[n].call = rows[n].call /\ rs[n].result = life
    BY <2>1, SettledFits
  <2>3. ns \in Seq(Instance) /\ Once(ns) /\ Elems(ns) = {n}  BY DEF Once, Elems
  <2>4. <<n, rs[n].call>> \in Q  BY <2>2 DEF Asked, Waiting, Q
  <2> HIDE DEF ns, rs
  <2>5. /\ \A m \in Elems(ns) : /\ answered[rs[m].call[1]] \in Nat
                                /\ rs[m].call[2] = answered[rs[m].call[1]] + 1
                                /\ told'[rs[m].call] = rs[m].result
        /\ \A d \in Call : (\A m \in Elems(ns) : rs[m].call # d) => told'[d] = told[d]
    BY <2>1, <2>3, <2>4, <1>3, AnswerTells
  <2>6. rs[n].call = c  BY <2>3, <2>5
  <2>7. life # 0  BY DEF IInv, History
  <2> QED  BY <2>2, <2>3, <2>5, <2>6, <2>7, <1>4
<1> QED  BY <1>5, <1>6

(* Until then the script hears each answer once over all its lives, and a   *)
(* branch hears its answers in the order of its calls.                      *)
THEOREM OneStoryIsTold == Spec => OneStory
<1> DEFINE Tells == \A c \in Call : told'[c] # told[c] =>
                      /\ told[c] = 0
                      /\ \A d \in Call : d[1] = c[1] /\ d[2] < c[2] => told[d] # 0
<1>1. KInv /\ [Next]_vars => [course = "kept" => Tells]_vars
  <2> SUFFICES ASSUME IInv, RInv, Next  PROVE Tells
    BY DEF KInv
  <2>1. CASE Flush \/ \E n \in Instance : SettleOk(n)  BY <2>1, ToldOnce
  <2>2. CASE told' = told  BY <2>2
  <2>3. CASE AskRecorded \/ AskFresh
    <3>1. PICK at, top : Fit(at, top)  BY DEF RInv, Fit
    <3>2. told' = told
      BY <3>1, <2>3, AskRecordedReplays, AskFreshReplays DEF RInv
    <3> QED  BY <3>2, <2>2
  <2>4. CASE Complete  BY <2>2, <2>4 DEF Complete, history
  <2>5. CASE \E S \in {{}} \cup {{n} : n \in Tearable} : Crash(S)  BY <2>2, <2>5 DEF Crash
  <2>6. CASE Stop  BY <2>2, <2>6 DEF Stop
  <2> QED  BY <2>1, <2>3, <2>4, <2>5, <2>6 DEF Next, Proceed
<1> QED  BY <1>1, InitKept, NextKept, PTL DEF Spec, OneStory
=============================================================================
