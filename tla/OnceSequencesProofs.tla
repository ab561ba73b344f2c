------------------------ MODULE OnceSequencesProofs ------------------------
(* What the operations on sequences without repetition do to their length  *)
(* and their elements.                                                     *)
EXTENDS OnceSequences, FiniteSetTheorems, SequenceTheorems, WellFoundedInduction, TLAPS

(* Of some numbers one is the least: what an induction over places needs.   *)
LEMMA LeastNat ==
  ASSUME NEW T, T \subseteq Nat, T # {}
  PROVE  \E x \in T : \A y \in T : x <= y
<1>1. IsWellFoundedOn(OpToRel(<, Nat), Nat)  BY NatLessThanWellFounded
<1>2. PICK x \in T : \A y \in T : ~(<<y, x>> \in OpToRel(<, Nat))
  BY <1>1, WFMin
<1>3. \A y \in T : ~(y < x)  BY <1>2 DEF OpToRel
<1> QED  BY <1>3

(* The empty sequence.                                                      *)
LEMMA EmptyOnce == Elems(<<>>) = {} /\ Once(<<>>)
BY DEF Elems, Once

(* A sequence without elements is empty.                                    *)
LEMMA NonemptyElems ==
  ASSUME NEW S, NEW s \in Seq(S)
  PROVE  s = <<>> <=> Elems(s) = {}
<1>1. CASE s = <<>>  BY <1>1, EmptyOnce
<1>2. CASE s # <<>>
  <2>1. 1 \in DOMAIN s  BY <1>2, EmptySeq, LenProperties
  <2> QED  BY <2>1, <1>2 DEF Elems
<1> QED  BY <1>1, <1>2

(* A new element at the end.                                                *)
LEMMA AppendOnce ==
  ASSUME NEW S, NEW s \in Seq(S), NEW x \in S, Once(s), x \notin Elems(s)
  PROVE  /\ Append(s, x) \in Seq(S)
         /\ Elems(Append(s, x)) = Elems(s) \cup {x}
         /\ Once(Append(s, x))
<1> DEFINE t == Append(s, x)
<1>1. /\ t \in Seq(S) /\ Len(t) = Len(s) + 1
      /\ \A i \in 1..Len(s) : t[i] = s[i]
      /\ t[Len(s) + 1] = x
  BY AppendProperties
<1>2. DOMAIN s = 1..Len(s) /\ DOMAIN t = 1..(Len(s) + 1) /\ Len(s) \in Nat
  BY <1>1, LenProperties
<1> HIDE DEF t
<1>3. Elems(t) = Elems(s) \cup {x}  BY <1>1, <1>2 DEF Elems
<1>4. Once(t)
  <2>1. \A i \in 1..Len(s) : s[i] # x  BY <1>2 DEF Elems
  <2> QED  BY <2>1, <1>1, <1>2 DEF Once
<1> QED  BY <1>1, <1>3, <1>4 DEF t

(* The first element is taken off.                                          *)
LEMMA TailOnce ==
  ASSUME NEW S, NEW s \in Seq(S), Once(s), s # <<>>
  PROVE  /\ Head(s) \in S /\ Tail(s) \in Seq(S)
         /\ Head(s) \in Elems(s)
         /\ Elems(Tail(s)) = Elems(s) \ {Head(s)}
         /\ Once(Tail(s))
<1> DEFINE t == Tail(s)
<1>1. /\ Head(s) \in S /\ t \in Seq(S) /\ Len(t) = Len(s) - 1 /\ Head(s) = s[1]
      /\ \A i \in 1..Len(t) : t[i] = s[i + 1]
  BY HeadTailProperties
<1>2. DOMAIN s = 1..Len(s) /\ DOMAIN t = 1..(Len(s) - 1) /\ Len(s) \in Nat \ {0}
  BY <1>1, LenProperties, EmptySeq
<1> HIDE DEF t
<1>3. ASSUME NEW y \in Elems(t)  PROVE y \in Elems(s) \ {s[1]}
  <2>1. PICK i \in 1..(Len(s) - 1) : t[i] = y  BY <1>2, <1>3 DEF Elems
  <2>2. i + 1 \in DOMAIN s /\ 1 \in DOMAIN s /\ i + 1 # 1  BY <1>2
  <2>3. s[i + 1] = y  BY <2>1, <1>1, <1>2
  <2> QED  BY <2>2, <2>3 DEF Elems, Once
<1>4. ASSUME NEW y \in Elems(s) \ {s[1]}  PROVE y \in Elems(t)
  <2>1. PICK i \in DOMAIN s : s[i] = y  BY <1>4 DEF Elems
  <2>2. i - 1 \in 1..Len(t) /\ t[i - 1] = y  BY <2>1, <1>1, <1>2, <1>4
  <2> QED  BY <2>2, <1>1, <1>2 DEF Elems
<1>5. Once(t)
  <2> SUFFICES ASSUME NEW i \in 1..(Len(s) - 1), NEW j \in 1..(Len(s) - 1), t[i] = t[j]
               PROVE  i = j
    BY <1>2 DEF Once
  <2>1. i + 1 \in DOMAIN s /\ j + 1 \in DOMAIN s  BY <1>2
  <2>2. s[i + 1] = s[j + 1]  BY <1>1, <1>2
  <2> QED  BY <2>1, <2>2, <1>2 DEF Once
<1>6. Head(s) \in Elems(s)  BY <1>1, <1>2 DEF Elems
<1>7. Elems(t) = Elems(s) \ {Head(s)}  BY <1>1, <1>3, <1>4
<1> QED  BY <1>1, <1>5, <1>6, <1>7 DEF t

(* An element is taken out, wherever it is; the rest keep their order.      *)
LEMMA WithoutOnce ==
  ASSUME NEW S, NEW s \in Seq(S), Once(s), NEW x \in Elems(s)
  PROVE  /\ Without(s, x) \in Seq(S)
         /\ Elems(Without(s, x)) = Elems(s) \ {x}
         /\ Once(Without(s, x))
         /\ \A i, j \in DOMAIN Without(s, x) : i < j =>
              \E p, q \in DOMAIN s :
                p < q /\ Without(s, x)[i] = s[p] /\ Without(s, x)[j] = s[q]
<1> DEFINE k == IndexOf(s, x)
           n == Len(s)
           before == SubSeq(s, 1, k - 1)
           after  == SubSeq(s, k + 1, n)
           t == Without(s, x)
<1>1. n \in Nat /\ DOMAIN s = 1..n /\ \A i \in 1..n : s[i] \in S
  BY LenProperties, ElementOfSeq
<1>2. k \in 1..n /\ s[k] = x
  BY <1>1 DEF IndexOf, Elems
<1>3. t = before \o after  BY DEF Without, Seqs!RemoveAt
<1> HIDE DEF k, n, t
<1>4. /\ before \in Seq(S) /\ Len(before) = k - 1
      /\ \A i \in 1..(k - 1) : before[i] = s[i]
  <2>1. \A i \in 1..(k - 1) : s[i] \in S  BY <1>1, <1>2
  <2>2. /\ before \in Seq(S) /\ Len(before) = IF 1 <= k - 1 THEN k - 1 - 1 + 1 ELSE 0
        /\ \A i \in 1..(k - 1 - 1 + 1) : before[i] = s[1 + i - 1]
    BY <1>2, <2>1, SubSeqProperties
  <2> QED  BY <2>2, <1>1, <1>2
<1>5. /\ after \in Seq(S) /\ Len(after) = n - k
      /\ \A i \in 1..(n - k) : after[i] = s[k + i]
  <2>1. \A i \in (k + 1)..n : s[i] \in S  BY <1>1, <1>2
  <2>2. /\ after \in Seq(S) /\ Len(after) = IF k + 1 <= n THEN n - (k + 1) + 1 ELSE 0
        /\ \A i \in 1..(n - (k + 1) + 1) : after[i] = s[k + 1 + i - 1]
    BY <1>1, <1>2, <2>1, SubSeqProperties
  <2> QED  BY <2>2, <1>1, <1>2
<1> HIDE DEF before, after
<1>6. /\ t \in Seq(S) /\ Len(t) = n - 1
      /\ \A i \in 1..(n - 1) : t[i] = IF i <= k - 1 THEN before[i] ELSE after[i - (k - 1)]
  <2>1. /\ t \in Seq(S) /\ Len(t) = Len(before) + Len(after)
        /\ \A i \in 1..(Len(before) + Len(after)) :
             t[i] = IF i <= Len(before) THEN before[i] ELSE after[i - Len(before)]
    BY <1>3, <1>4, <1>5, ConcatProperties
  <2>2. Len(before) + Len(after) = n - 1  BY <1>4, <1>5, <1>1, <1>2
  <2> QED  BY <2>1, <2>2, <1>4
<1>7. \A i \in 1..(n - 1) : t[i] = IF i < k THEN s[i] ELSE s[i + 1]
  BY <1>6, <1>4, <1>5, <1>1, <1>2
<1>8. DOMAIN t = 1..(n - 1)  BY <1>6, <1>1, <1>2, LenProperties
<1>9. ASSUME NEW y \in Elems(t)  PROVE y \in Elems(s) \ {x}
  <2>1. PICK i \in 1..(n - 1) : t[i] = y  BY <1>8, <1>9 DEF Elems
  <2>2. PICK j \in 1..n : s[j] = y /\ j # k
    <3>1. CASE i < k  BY <3>1, <2>1, <1>7, <1>1, <1>2
    <3>2. CASE i >= k
      <4>1. i + 1 \in 1..n /\ i + 1 # k  BY <3>2, <1>1, <1>2
      <4>2. s[i + 1] = y  BY <3>2, <2>1, <1>7, <1>1, <1>2
      <4> QED  BY <4>1, <4>2
    <3> QED  BY <3>1, <3>2, <1>1, <1>2
  <2>3. y # x  BY <2>2, <1>1, <1>2 DEF Once
  <2> QED  BY <2>2, <2>3, <1>1 DEF Elems
<1>10. ASSUME NEW y \in Elems(s) \ {x}  PROVE y \in Elems(t)
  <2>1. PICK i \in 1..n : s[i] = y  BY <1>1, <1>10 DEF Elems
  <2>2. CASE i < k
    <3>1. i \in 1..(n - 1) /\ t[i] = y  BY <2>1, <2>2, <1>1, <1>2, <1>7
    <3> QED  BY <3>1, <1>8 DEF Elems
  <2>3. CASE i > k
    <3>1. i - 1 \in 1..(n - 1) /\ t[i - 1] = y  BY <2>1, <2>3, <1>1, <1>2, <1>7
    <3> QED  BY <3>1, <1>8 DEF Elems
  <2>4. i # k  BY <2>1, <1>2, <1>10
  <2> QED  BY <2>2, <2>3, <2>4, <1>1, <1>2
<1>11. Once(t)
  <2> SUFFICES ASSUME NEW i \in 1..(n - 1), NEW j \in 1..(n - 1), t[i] = t[j]  PROVE i = j
    BY <1>8 DEF Once
  <2> DEFINE place(m) == IF m < k THEN m ELSE m + 1
  <2>1. place(i) \in 1..n /\ place(j) \in 1..n  BY <1>1, <1>2
  <2>2. t[i] = s[place(i)] /\ t[j] = s[place(j)]  BY <1>7
  <2>3. place(i) = place(j)
    <3> HIDE DEF place
    <3> QED  BY <2>1, <2>2, <1>1 DEF Once
  <2> QED  BY <2>3, <1>1, <1>2
<1>12. \A i, j \in DOMAIN t : i < j =>
         \E p, q \in DOMAIN s : p < q /\ t[i] = s[p] /\ t[j] = s[q]
  <2> SUFFICES ASSUME NEW i \in DOMAIN t, NEW j \in DOMAIN t, i < j
               PROVE  \E p, q \in DOMAIN s : p < q /\ t[i] = s[p] /\ t[j] = s[q]
    OBVIOUS
  <2>3. i \in 1..(n - 1) /\ j \in 1..(n - 1)  BY <1>8
  <2> DEFINE place(m) == IF m < k THEN m ELSE m + 1
  <2>1. place(i) \in 1..n /\ place(j) \in 1..n /\ place(i) < place(j)  BY <2>3, <1>1, <1>2
  <2>2. t[i] = s[place(i)] /\ t[j] = s[place(j)]  BY <2>3, <1>7
  <2> HIDE DEF place
  <2> QED  BY <2>1, <2>2, <1>1
<1> QED  BY <1>6, <1>9, <1>10, <1>11, <1>12 DEF t

(* Who is not there cannot leave.                                           *)
LEMMA WithoutAbsent ==
  ASSUME NEW S, NEW s \in Seq(S), NEW x, x \notin Elems(s)
  PROVE  Without(s, x) = s
<1>1. IndexOf(s, x) = 0  BY DEF IndexOf, Elems
<1>2. Without(s, x) = SubSeq(s, 1, 0 - 1) \o SubSeq(s, 0 + 1, Len(s))
  BY <1>1 DEF Without, Seqs!RemoveAt
<1>3. SubSeq(s, 1, 0 - 1) = <<>>  BY SubSeqEmpty
<1>4. SubSeq(s, 0 + 1, Len(s)) = s  BY SubSeqFull
<1> QED  BY <1>2, <1>3, <1>4, ConcatEmptySeq

(* The length counts the elements.                                          *)
LEMMA OnceLen ==
  ASSUME NEW S, NEW s \in Seq(S), Once(s)
  PROVE  Len(s) = Cardinality(Elems(s))
<1> DEFINE D == 1..Len(s)
<1>1. DOMAIN s = D /\ Len(s) \in Nat  BY LenProperties
<1>2. s \in [D -> Elems(s)]
  <2>1. s = [i \in D |-> s[i]]  BY <1>1, LenProperties
  <2>2. \A i \in D : s[i] \in Elems(s)  BY <1>1 DEF Elems
  <2> QED  BY <2>1, <2>2
<1>3. s \in Bijection(D, Elems(s))
  <2>1. \A i, j \in D : s[i] = s[j] => i = j  BY <1>1 DEF Once
  <2>2. \A y \in Elems(s) : \E i \in D : s[i] = y  BY <1>1 DEF Elems
  <2>3. s \in Injection(D, Elems(s))  BY <1>2, <2>1 DEF Injection, IsInjective
  <2>4. s \in Surjection(D, Elems(s))  BY <1>2, <2>2 DEF Surjection
  <2> QED  BY <2>3, <2>4 DEF Bijection
<1>4. ExistsBijection(D, Elems(s))  BY <1>3 DEF ExistsBijection
<1>5. IsFiniteSet(D) /\ Cardinality(D) = Len(s)  BY <1>1, FS_Interval
<1> QED  BY <1>4, <1>5, FS_Bijection

(* The first k elements are dropped.                                        *)
LEMMA DropOnce ==
  ASSUME NEW S, NEW s \in Seq(S), Once(s), NEW k \in 0..Len(s)
  PROVE  LET t == SubSeq(s, k + 1, Len(s))
         IN /\ t \in Seq(S) /\ Len(t) = Len(s) - k
            /\ Elems(t) = Elems(s) \ {s[i] : i \in 1..k}
            /\ Once(t)
<1> DEFINE n == Len(s)
           t == SubSeq(s, k + 1, n)
<1>0. k \in 0..n  OBVIOUS
<1>1. n \in Nat /\ DOMAIN s = 1..n /\ \A i \in 1..n : s[i] \in S
  BY LenProperties, ElementOfSeq
<1>2. /\ t \in Seq(S) /\ Len(t) = n - k
      /\ \A i \in 1..(n - k) : t[i] = s[k + i]
  <2>1. \A i \in (k + 1)..n : s[i] \in S  BY <1>1
  <2>2. /\ t \in Seq(S) /\ Len(t) = IF k + 1 <= n THEN n - (k + 1) + 1 ELSE 0
        /\ \A i \in 1..(n - (k + 1) + 1) : t[i] = s[k + 1 + i - 1]
    BY <1>1, <2>1, SubSeqProperties
  <2> HIDE DEF n, t
  <2>3. Len(t) = n - k  BY <2>2, <1>1, <1>0
  <2>4. ASSUME NEW i \in 1..(n - k)  PROVE t[i] = s[k + i]
    <3>1. i \in 1..(n - (k + 1) + 1) /\ k + 1 + i - 1 = k + i  BY <1>1, <1>0
    <3> QED  BY <3>1, <2>2
  <2> QED  BY <2>2, <2>3, <2>4
<1> HIDE DEF n, t
<1>3. DOMAIN t = 1..(n - k)  BY <1>1, <1>2, LenProperties
<1>4. k \in 0..n  BY <1>0
<1>5. ASSUME NEW y \in Elems(t)  PROVE y \in Elems(s) \ {s[i] : i \in 1..k}
  <2>1. PICK i \in 1..(n - k) : t[i] = y  BY <1>3, <1>5 DEF Elems
  <2>2. k + i \in 1..n /\ s[k + i] = y  BY <2>1, <1>1, <1>2, <1>4
  <2>3. \A j \in 1..k : s[j] # y  BY <2>1, <2>2, <1>1, <1>4 DEF Once
  <2> QED  BY <2>2, <2>3, <1>1 DEF Elems
<1>6. ASSUME NEW y \in Elems(s) \ {s[i] : i \in 1..k}  PROVE y \in Elems(t)
  <2>1. PICK i \in 1..n : s[i] = y  BY <1>1, <1>6 DEF Elems
  <2>2. i > k  BY <2>1, <1>1, <1>4, <1>6
  <2>3. i - k \in 1..(n - k) /\ t[i - k] = y  BY <2>1, <2>2, <1>1, <1>2, <1>4
  <2> QED  BY <2>3, <1>3 DEF Elems
<1>7. Once(t)
  <2> SUFFICES ASSUME NEW i \in 1..(n - k), NEW j \in 1..(n - k), t[i] = t[j]  PROVE i = j
    BY <1>3 DEF Once
  <2>1. k + i \in 1..n /\ k + j \in 1..n  BY <1>1, <1>4
  <2>2. s[k + i] = s[k + j]  BY <1>2
  <2>3. k + i = k + j  BY <2>1, <2>2, <1>1 DEF Once
  <2> QED  BY <2>3, <1>4
<1> QED  BY <1>2, <1>5, <1>6, <1>7 DEF n, t

(* The first k elements are k.                                              *)
LEMMA TakeCount ==
  ASSUME NEW S, NEW s \in Seq(S), Once(s), NEW k \in 0..Len(s)
  PROVE  LET T == {s[i] : i \in 1..k}
         IN IsFiniteSet(T) /\ Cardinality(T) = k /\ T \subseteq Elems(s)
<1> DEFINE D == 1..k
           T == {s[i] : i \in D}
           f == [i \in D |-> s[i]]
<1>1. D \subseteq DOMAIN s /\ k \in Nat  BY LenProperties
<1>2. f \in Bijection(D, T)
  <2>1. \A i, j \in D : f[i] = f[j] => i = j  BY <1>1 DEF Once
  <2>2. f \in Injection(D, T)  BY <2>1 DEF Injection, IsInjective
  <2>3. f \in Surjection(D, T)  BY DEF Surjection
  <2> QED  BY <2>2, <2>3 DEF Bijection
<1>3. ExistsBijection(D, T)  BY <1>2 DEF ExistsBijection
<1>4. IsFiniteSet(D) /\ Cardinality(D) = k  BY <1>1, FS_Interval
<1> QED  BY <1>1, <1>3, <1>4, FS_Bijection DEF Elems

(* A sequence without repetition after another that shares nothing with it. *)
LEMMA ConcatOnce ==
  ASSUME NEW S, NEW s \in Seq(S), NEW t \in Seq(S)
  PROVE  /\ s \o t \in Seq(S)
         /\ Elems(s \o t) = Elems(s) \cup Elems(t)
         /\ Once(s) /\ Once(t) /\ Elems(s) \cap Elems(t) = {} => Once(s \o t)
<1> DEFINE u == s \o t
<1>1. /\ u \in Seq(S) /\ Len(u) = Len(s) + Len(t)
      /\ \A i \in 1..(Len(s) + Len(t)) : u[i] = IF i <= Len(s) THEN s[i] ELSE t[i - Len(s)]
  BY ConcatProperties
<1>2. /\ DOMAIN s = 1..Len(s) /\ DOMAIN t = 1..Len(t) /\ DOMAIN u = 1..(Len(s) + Len(t))
      /\ Len(s) \in Nat /\ Len(t) \in Nat
  BY <1>1, LenProperties
<1> HIDE DEF u
<1>3. ASSUME NEW x \in Elems(u)  PROVE x \in Elems(s) \cup Elems(t)
  <2>1. PICK i \in 1..(Len(s) + Len(t)) : u[i] = x  BY <1>2, <1>3 DEF Elems
  <2>2. CASE i <= Len(s)
    <3>1. i \in DOMAIN s /\ s[i] = x  BY <2>1, <2>2, <1>1, <1>2
    <3> QED  BY <3>1 DEF Elems
  <2>3. CASE i > Len(s)
    <3>1. i - Len(s) \in DOMAIN t /\ t[i - Len(s)] = x  BY <2>1, <2>3, <1>1, <1>2
    <3> QED  BY <3>1 DEF Elems
  <2> QED  BY <2>2, <2>3, <1>2
<1>4. ASSUME NEW x \in Elems(s)  PROVE x \in Elems(u)
  <2>1. PICK i \in 1..Len(s) : s[i] = x  BY <1>2, <1>4 DEF Elems
  <2>2. i \in DOMAIN u /\ u[i] = x  BY <2>1, <1>1, <1>2
  <2> QED  BY <2>2 DEF Elems
<1>5. ASSUME NEW x \in Elems(t)  PROVE x \in Elems(u)
  <2>1. PICK i \in 1..Len(t) : t[i] = x  BY <1>2, <1>5 DEF Elems
  <2>2. i + Len(s) \in DOMAIN u /\ u[i + Len(s)] = x  BY <2>1, <1>1, <1>2
  <2> QED  BY <2>2 DEF Elems
<1>6. ASSUME Once(s), Once(t), Elems(s) \cap Elems(t) = {}  PROVE Once(u)
  <2> SUFFICES ASSUME NEW i \in DOMAIN u, NEW j \in DOMAIN u, u[i] = u[j], i < j
               PROVE  FALSE
    BY <1>2 DEF Once
  <2>1. CASE j <= Len(s)
    <3>1. i \in DOMAIN s /\ j \in DOMAIN s /\ s[i] = s[j]  BY <2>1, <1>1, <1>2
    <3> QED  BY <3>1, <1>6, <1>2 DEF Once
  <2>2. CASE i > Len(s)
    <3>1. /\ i - Len(s) \in DOMAIN t /\ j - Len(s) \in DOMAIN t
          /\ t[i - Len(s)] = t[j - Len(s)]
      BY <2>2, <1>1, <1>2
    <3>2. i - Len(s) = j - Len(s)  BY <3>1, <1>6 DEF Once
    <3> QED  BY <3>2, <1>2
  <2>3. CASE i <= Len(s) /\ j > Len(s)
    <3>1. i \in DOMAIN s /\ j - Len(s) \in DOMAIN t /\ s[i] = t[j - Len(s)]
      BY <2>3, <1>1, <1>2
    <3>2. s[i] \in Elems(s) /\ s[i] \in Elems(t)  BY <3>1 DEF Elems
    <3> QED  BY <3>2, <1>6
  <2> QED  BY <2>1, <2>2, <2>3, <1>2
<1> QED  BY <1>1, <1>3, <1>4, <1>5, <1>6 DEF u

(* The places Those takes from: all that are in P, each once, in order.     *)
LEMMA ThosePlaces ==
  ASSUME NEW S, NEW s \in Seq(S), NEW P
  PROVE  LET t == Those(s, P)
         IN \E at \in [1..Len(t) -> DOMAIN s] :
              /\ t \in Seq(S)
              /\ \A k \in 1..Len(t) : t[k] = s[at[k]] /\ t[k] \in P
              /\ \A k, l \in 1..Len(t) : k < l => at[k] < at[l]
              /\ \A i \in DOMAIN s : s[i] \in P => \E k \in 1..Len(t) : at[k] = i
<1> DEFINE I == {i \in DOMAIN s : s[i] \in P}
           c == Cardinality(I)
           upTo(i) == {j \in I : j <= i}
           rank == [i \in I |-> Cardinality(upTo(i))]
           at == [k \in 1..c |-> CHOOSE i \in I : Cardinality({j \in I : j <= i}) = k]
           t == Those(s, P)
<1>1. DOMAIN s = 1..Len(s) /\ Len(s) \in Nat /\ \A i \in DOMAIN s : s[i] \in S
  BY LenProperties, ElementOfSeq
<1>2. IsFiniteSet(I) /\ c \in Nat /\ I \subseteq Nat
  <2>1. IsFiniteSet(1..Len(s))  BY <1>1, FS_Interval
  <2>2. I \in SUBSET (1..Len(s))  BY <1>1
  <2>3. IsFiniteSet(I)  BY <2>1, <2>2, FS_Subset
  <2>4. c \in Nat  BY <2>3, FS_CardinalityType
  <2> QED  BY <2>2, <2>3, <2>4
<1>3. t = [k \in 1..c |-> s[at[k]]]  BY DEF Those
<1> HIDE DEF t
<1>4. \A i \in I : /\ IsFiniteSet(upTo(i)) /\ rank[i] \in 1..c
  <2> TAKE i \in I
  <2>1. upTo(i) \in SUBSET I  OBVIOUS
  <2>2. IsFiniteSet(upTo(i)) /\ Cardinality(upTo(i)) <= c  BY <2>1, <1>2, FS_Subset
  <2>3. Cardinality(upTo(i)) \in Nat  BY <2>2, FS_CardinalityType
  <2>4. i \in upTo(i)  BY <1>2
  <2>5. Cardinality(upTo(i)) # 0  BY <2>2, <2>4, FS_EmptySet
  <2> QED  BY <2>2, <2>3, <2>5, <1>2
<1>5. \A i, j \in I : i < j => rank[i] < rank[j]
  <2> SUFFICES ASSUME NEW i \in I, NEW j \in I, i < j  PROVE rank[i] < rank[j]
    OBVIOUS
  <2>1. upTo(i) \in SUBSET upTo(j)  BY <1>2
  <2>2. j \in upTo(j) /\ j \notin upTo(i)  BY <1>2
  <2>3. Cardinality(upTo(i)) <= Cardinality(upTo(j))
        /\ (Cardinality(upTo(j)) = Cardinality(upTo(i)) => upTo(j) = upTo(i))
    BY <1>4, <2>1, FS_Subset
  <2>4. Cardinality(upTo(i)) # Cardinality(upTo(j))  BY <2>2, <2>3
  <2>5. Cardinality(upTo(i)) \in Nat /\ Cardinality(upTo(j)) \in Nat
    BY <1>4, FS_CardinalityType
  <2> QED  BY <2>3, <2>4, <2>5
<1>6. rank \in Surjection(I, 1..c)
  <2>1. rank \in [I -> 1..c]  BY <1>4
  <2>2. \A i, j \in I : rank[i] = rank[j] => i = j
    <3> SUFFICES ASSUME NEW i \in I, NEW j \in I, rank[i] = rank[j]  PROVE i = j
      OBVIOUS
    <3>1. i < j \/ j < i \/ i = j  BY <1>2
    <3>2. rank[i] \in 1..c  BY <1>4
    <3>3. rank[i] \in Nat
      <4> HIDE DEF rank, c
      <4> QED  BY <3>2
    <3> HIDE DEF rank
    <3> QED  BY <3>1, <3>3, <1>5
  <2>3. rank \in Injection(I, 1..c)
    <3> HIDE DEF rank
    <3> QED  BY <2>1, <2>2 DEF Injection, IsInjective
  <2>4. IsFiniteSet(1..c) /\ Cardinality(1..c) = c  BY <1>2, FS_Interval
  <2>5. Cardinality(I) = Cardinality(1..c)  BY <2>4
  <2> HIDE DEF rank, I, c
  <2> QED  BY <2>3, <2>4, <2>5, <1>2, FS_Injection
<1>7. \A k \in 1..c : at[k] \in I /\ rank[at[k]] = k
  <2> TAKE k \in 1..c
  <2>1. \E i \in I : rank[i] = k
    <3> HIDE DEF rank
    <3> QED  BY <1>6 DEF Surjection
  <2>2. \E i \in I : Cardinality({j \in I : j <= i}) = k  BY <2>1
  <2>3. at[k] \in I /\ Cardinality({j \in I : j <= at[k]}) = k  BY <2>2
  <2> HIDE DEF at
  <2> QED  BY <2>3
<1> HIDE DEF rank, at
<1>8. \A i \in I : rank[i] \in 1..c /\ at[rank[i]] = i
  <2> TAKE i \in I
  <2>1. rank[i] \in 1..c  BY <1>4
  <2>2. at[rank[i]] \in I /\ rank[at[rank[i]]] = rank[i]  BY <2>1, <1>7
  <2>3. at[rank[i]] < i \/ i < at[rank[i]] \/ i = at[rank[i]]  BY <2>2, <1>2
  <2>4. rank[i] \in Nat  BY <2>1
  <2> QED  BY <2>1, <2>2, <2>3, <2>4, <1>5
<1>9. t \in Seq(S) /\ Len(t) = c
  <2>1. \A k \in 1..c : s[at[k]] \in S  BY <1>1, <1>7
  <2>2. t \in [1..c -> S]  BY <1>3, <2>1
  <2> HIDE DEF I, c
  <2>3. t \in Seq(S)  BY <2>2, <1>2, SeqDef
  <2>4. DOMAIN t = 1..c  BY <2>2
  <2> QED  BY <2>3, <2>4, <1>2, LenProperties
<1>10. at \in [1..c -> DOMAIN s]  BY <1>7 DEF at
<1>11. \A k \in 1..c : t[k] = s[at[k]] /\ t[k] \in P  BY <1>3, <1>7
<1>12. \A k, l \in 1..c : k < l => at[k] < at[l]
  <2> SUFFICES ASSUME NEW k \in 1..c, NEW l \in 1..c, k < l  PROVE at[k] < at[l]
    OBVIOUS
  <2>1. at[k] \in I /\ at[l] \in I /\ rank[at[k]] = k /\ rank[at[l]] = l  BY <1>7
  <2>2. at[k] < at[l] \/ at[l] < at[k] \/ at[l] = at[k]  BY <2>1, <1>2
  <2> QED  BY <2>1, <2>2, <1>5
<1>13. \A i \in DOMAIN s : s[i] \in P => \E k \in 1..c : at[k] = i  BY <1>8
<1> HIDE DEF I, c
<1> QED  BY <1>9, <1>10, <1>11, <1>12, <1>13 DEF t

(* What Those takes, taken as a set.                                        *)
LEMMA ThoseElems ==
  ASSUME NEW S, NEW s \in Seq(S), NEW P
  PROVE  /\ Those(s, P) \in Seq(S)
         /\ Elems(Those(s, P)) = Elems(s) \cap P
         /\ Once(s) => Once(Those(s, P))
<1> DEFINE t == Those(s, P)
<1>1. PICK at \in [1..Len(t) -> DOMAIN s] :
        /\ t \in Seq(S)
        /\ \A k \in 1..Len(t) : t[k] = s[at[k]] /\ t[k] \in P
        /\ \A k, l \in 1..Len(t) : k < l => at[k] < at[l]
        /\ \A i \in DOMAIN s : s[i] \in P => \E k \in 1..Len(t) : at[k] = i
  BY ThosePlaces
<1> HIDE DEF t
<1>2. DOMAIN t = 1..Len(t) /\ DOMAIN s = 1..Len(s) /\ Len(t) \in Nat /\ Len(s) \in Nat
  BY <1>1, LenProperties
<1>3. Elems(t) = Elems(s) \cap P
  <2>1. Elems(t) \subseteq Elems(s) \cap P  BY <1>1, <1>2 DEF Elems
  <2>2. ASSUME NEW x \in Elems(s) \cap P  PROVE x \in Elems(t)
    <3>1. PICK i \in DOMAIN s : s[i] = x  BY <2>2 DEF Elems
    <3>2. PICK k \in 1..Len(t) : at[k] = i  BY <3>1, <2>2, <1>1
    <3>3. t[k] = x  BY <3>1, <3>2, <1>1
    <3> QED  BY <3>3, <1>2 DEF Elems
  <2> QED  BY <2>1, <2>2
<1>4. ASSUME Once(s)  PROVE Once(t)
  <2> SUFFICES ASSUME NEW k \in 1..Len(t), NEW l \in 1..Len(t), t[k] = t[l]  PROVE k = l
    BY <1>2 DEF Once
  <2>1. at[k] \in DOMAIN s /\ at[l] \in DOMAIN s /\ s[at[k]] = s[at[l]]  BY <1>1
  <2>2. at[k] = at[l]  BY <2>1, <1>4 DEF Once
  <2>3. ~(k < l) /\ ~(l < k)  BY <2>1, <2>2, <1>1, <1>2
  <2> QED  BY <2>3, <1>2
<1> QED  BY <1>1, <1>3, <1>4 DEF t

(* A stretch of a sequence without repetition.                              *)
LEMMA SliceOnce ==
  ASSUME NEW S, NEW s \in Seq(S), Once(s), NEW k \in 0..Len(s), NEW m \in k..Len(s)
  PROVE  LET t == SubSeq(s, k + 1, m)
         IN /\ t \in Seq(S) /\ Once(t) /\ Len(t) = m - k
            /\ Elems(t) = {s[i] : i \in (k + 1)..m}
<1> DEFINE n == Len(s)
           t == SubSeq(s, k + 1, m)
<1>1. n \in Nat /\ DOMAIN s = 1..n /\ \A i \in 1..n : s[i] \in S
  BY LenProperties, ElementOfSeq
<1>2. k \in Nat /\ m \in Nat /\ k <= m /\ m <= n  BY <1>1
<1> HIDE DEF n
<1>3. /\ t \in Seq(S) /\ Len(t) = m - k
      /\ \A i \in 1..(m - k) : t[i] = s[k + i]
  <2>1. \A i \in (k + 1)..m : s[i] \in S  BY <1>1, <1>2
  <2>2. k + 1 \in Int /\ m \in Int  BY <1>2
  <2>3. /\ t \in Seq(S) /\ Len(t) = IF k + 1 <= m THEN m - (k + 1) + 1 ELSE 0
        /\ \A i \in 1..(m - (k + 1) + 1) : t[i] = s[k + 1 + i - 1]
    BY <2>1, <2>2, SubSeqProperties
  <2> HIDE DEF t
  <2>4. Len(t) = m - k  BY <2>3, <1>2
  <2>5. ASSUME NEW i \in 1..(m - k)  PROVE t[i] = s[k + i]
    <3>1. i \in 1..(m - (k + 1) + 1) /\ k + 1 + i - 1 = k + i  BY <1>2
    <3> QED  BY <3>1, <2>3
  <2> QED  BY <2>3, <2>4, <2>5
<1> HIDE DEF t
<1>4. DOMAIN t = 1..(m - k)  BY <1>2, <1>3, LenProperties
<1>5. Elems(t) = {s[i] : i \in (k + 1)..m}
  <2>1. ASSUME NEW i \in 1..(m - k)  PROVE \E j \in (k + 1)..m : t[i] = s[j]
    <3>1. k + i \in (k + 1)..m  BY <1>2
    <3> QED  BY <3>1, <1>3
  <2>2. ASSUME NEW j \in (k + 1)..m  PROVE \E i \in 1..(m - k) : t[i] = s[j]
    <3>1. j - k \in 1..(m - k) /\ k + (j - k) = j  BY <1>2
    <3>2. t[j - k] = s[j]  BY <3>1, <1>3
    <3> QED  BY <3>1, <3>2
  <2>3. \A x : x \in Elems(t) <=> \E i \in 1..(m - k) : t[i] = x  BY <1>4 DEF Elems
  <2>4. ASSUME NEW x  PROVE x \in Elems(t) <=> x \in {s[i] : i \in (k + 1)..m}
    <3>1. ASSUME x \in Elems(t)  PROVE \E j \in (k + 1)..m : x = s[j]
      BY <2>1, <2>3, <3>1
    <3>2. ASSUME NEW j \in (k + 1)..m, x = s[j]  PROVE x \in Elems(t)
      BY <2>2, <2>3, <3>2
    <3> QED  BY <3>1, <3>2
  <2> QED  BY <2>4
<1>6. Once(t)
  <2> SUFFICES ASSUME NEW i \in 1..(m - k), NEW j \in 1..(m - k), t[i] = t[j]  PROVE i = j
    BY <1>4 DEF Once
  <2>0. i \in Nat /\ j \in Nat /\ i >= 1 /\ j >= 1 /\ i <= m - k /\ j <= m - k  BY <1>2
  <2>1. k + i \in 1..n /\ k + j \in 1..n  BY <2>0, <1>1, <1>2
  <2>2. s[k + i] = s[k + j]  BY <1>3
  <2>3. k + i = k + j  BY <2>1, <2>2, <1>1 DEF Once
  <2> QED  BY <2>3, <1>2
<1> QED  BY <1>3, <1>5, <1>6 DEF t
=============================================================================
