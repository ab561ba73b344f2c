--------------------------- MODULE OnceSequences ---------------------------
(* Sequences that hold each of their elements once: queues of waiters.     *)
EXTENDS Integers, Sequences, FiniteSets

Seqs == INSTANCE SequencesExt

Elems(s) == {s[i] : i \in DOMAIN s}

Once(s) == \A i, j \in DOMAIN s : s[i] = s[j] => i = j

(* Position of x in s, 0 if it is not there. *)
IndexOf(s, x) ==
  IF \E i \in DOMAIN s : s[i] = x THEN CHOOSE i \in DOMAIN s : s[i] = x ELSE 0

Without(s, x) == Seqs!RemoveAt(s, IndexOf(s, x))

(* The elements of s that are in P, in their order: SelectSeq, told by the *)
(* places they are taken from, which can be reasoned about.                *)
Those(s, P) ==
  LET I     == {i \in DOMAIN s : s[i] \in P}
      at(k) == CHOOSE i \in I : Cardinality({j \in I : j <= i}) = k
  IN  [k \in 1..Cardinality(I) |-> s[at(k)]]
=============================================================================
