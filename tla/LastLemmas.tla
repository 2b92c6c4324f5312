----------------------------- MODULE LastLemmas -----------------------------
(***************************************************************************)
(* Changing, dropping and adding the last element of a sequence: the facts *)
(* about stacks and lists of lines that the proofs rest on.                *)
(***************************************************************************)
EXTENDS Naturals, Sequences, SequenceTheorems, TLAPS

(* Another last element: a frame of a stack that moves on. *)
LEMMA LastReplaced ==
  ASSUME NEW S, NEW s \in Seq(S), s # <<>>, NEW x \in S
  PROVE  LET t == [s EXCEPT ![Len(s)] = x] IN
         /\ t \in Seq(S)
         /\ Len(t) = Len(s)
         /\ t[Len(s)] = x
         /\ \A i \in 1..(Len(s) - 1) : t[i] = s[i]
  OBVIOUS

(* No last element: a return. *)
LEMMA LastDropped ==
  ASSUME NEW S, NEW s \in Seq(S), s # <<>>
  PROVE  LET t == SubSeq(s, 1, Len(s) - 1) IN
         /\ t \in Seq(S)
         /\ Len(t) = Len(s) - 1
         /\ \A i \in 1..(Len(s) - 1) : t[i] = s[i]
<1>1. Len(s) \in Nat /\ Len(s) > 0 /\ \A i \in 1..Len(s) : s[i] \in S
  OBVIOUS
<1>2. /\ SubSeq(s, 1, Len(s) - 1) \in Seq(S)
      /\ Len(SubSeq(s, 1, Len(s) - 1)) = Len(s) - 1
      /\ \A i \in 1..(Len(s) - 1) : SubSeq(s, 1, Len(s) - 1)[i] = s[i]
  <2> DEFINE n == Len(s) - 1
             t == SubSeq(s, 1, n)
  <2>1. n \in Nat /\ 1 \in Int /\ \A i \in 1..n : s[i] \in S
    BY <1>1
  <2>2. /\ t \in Seq(S)
        /\ Len(t) = IF 1 <= n THEN n - 1 + 1 ELSE 0
        /\ \A i \in 1..(n - 1 + 1) : t[i] = s[1 + i - 1]
    <3> HIDE DEF n
    <3> QED BY <2>1, SubSeqProperties
  <2>3. Len(t) = n /\ \A i \in 1..n : t[i] = s[i]
    <3> HIDE DEF n, t
    <3>1. n - 1 + 1 = n /\ \A i \in 1..n : 1 + i - 1 = i
      BY <2>1
    <3> QED BY <2>1, <2>2, <3>1
  <2> QED
    BY <2>2, <2>3
<1> QED
  BY <1>2

(* One more: a call, or one more line. *)
LEMMA LastAdded ==
  ASSUME NEW S, NEW s \in Seq(S), NEW x \in S
  PROVE  LET t == Append(s, x) IN
         /\ t \in Seq(S)
         /\ Len(t) = Len(s) + 1
         /\ t[Len(t)] = x
         /\ \A i \in 1..Len(s) : t[i] = s[i]
  OBVIOUS

(* A frame that moves on and calls. *)
LEMMA LastReplacedAndAdded ==
  ASSUME NEW S, NEW s \in Seq(S), s # <<>>, NEW x \in S, NEW y \in S
  PROVE  LET t == Append([s EXCEPT ![Len(s)] = x], y) IN
         /\ t \in Seq(S)
         /\ Len(t) = Len(s) + 1
         /\ t[Len(s) + 1] = y
         /\ t[Len(s)] = x
         /\ \A i \in 1..(Len(s) - 1) : t[i] = s[i]
<1> DEFINE w == [s EXCEPT ![Len(s)] = x]
<1>1. /\ w \in Seq(S) /\ Len(w) = Len(s) /\ w[Len(s)] = x
      /\ \A i \in 1..(Len(s) - 1) : w[i] = s[i]
      /\ Len(s) \in Nat \ {0}
  BY LastReplaced
<1> HIDE DEF w
<1>2. /\ Append(w, y) \in Seq(S)
      /\ Len(Append(w, y)) = Len(w) + 1
      /\ Append(w, y)[Len(Append(w, y))] = y
      /\ \A i \in 1..Len(w) : Append(w, y)[i] = w[i]
  BY <1>1, LastAdded
<1>3. /\ Append(w, y)[Len(s)] = x
      /\ \A i \in 1..(Len(s) - 1) : Append(w, y)[i] = s[i]
  BY <1>1, <1>2
<1> QED
  BY <1>1, <1>2, <1>3 DEF w
=============================================================================
