--------------------------- MODULE SequenceLemmas ---------------------------
(***************************************************************************)
(* Facts about numbers and about parts of sequences that the proofs of     *)
(* this project share.                                                     *)
(***************************************************************************)
EXTENDS Integers, Sequences, TLAPS, SequenceTheorems, WellFoundedInduction

\* A set of numbers has a least.
LEMMA LeastOf ==
  ASSUME NEW T, T \subseteq Nat, T # {}
  PROVE  \E m \in T : \A n \in T : m <= n
<1>1. PICK m \in T : \A n \in T : <<n, m>> \notin OpToRel(<, Nat)
  BY NatLessThanWellFounded, WFMin, Zenon
<1>2. \A n \in T : ~(n < m)
  BY <1>1 DEF OpToRel
<1> QED
  BY <1>2

\* A prefix, one element at a time.
LEMMA PrefixStep ==
  ASSUME NEW S, NEW s \in Seq(S), NEW k \in 1 .. Len(s)
  PROVE  SubSeq(s, 1, k) = SubSeq(s, 1, k - 1) \o <<s[k]>>
<1>1. Len(s) \in Nat
  BY LenProperties
<1>2. 1 \in 1 .. Len(s) /\ k \in 1 .. Len(s)
  BY <1>1
<1> QED  BY <1>2, SubSeqRecursiveSecond

\* A run of a concatenation that starts where the second sequence does.
LEMMA MiddleOfConcat ==
  ASSUME NEW S, NEW s \in Seq(S), NEW t \in Seq(S), NEW k \in 0 .. Len(t)
  PROVE  SubSeq(s \o t, Len(s) + 1, Len(s) + k) = SubSeq(t, 1, k)
<1>1. Len(s) \in Nat /\ Len(t) \in Nat
  BY LenProperties
<1>2. /\ s \o t \in Seq(S)
      /\ Len(s \o t) = Len(s) + Len(t)
      /\ \A i \in 1 .. Len(s) + Len(t) : (s \o t)[i] = IF i <= Len(s) THEN s[i] ELSE t[i - Len(s)]
  BY ConcatProperties
<1> DEFINE m == Len(s)
           u == s \o t
<1>3. m \in Nat /\ \A i \in 1 .. k : m + i \in 1 .. Len(u) /\ u[m + i] = t[i]
  BY <1>1, <1>2
<1>4. \A i \in 1 .. k : t[i] \in S
  BY <1>1, ElementOfSeq
<1>5. SubSeq(t, 1, k) \in Seq(S) /\ Len(SubSeq(t, 1, k)) = k
      /\ \A i \in 1 .. k : SubSeq(t, 1, k)[i] = t[i]
  BY <1>1, <1>4, SubSeqProperties
<1>6. \A j \in m + 1 .. m + k : u[j] \in S
  <2>1. ASSUME NEW j \in m + 1 .. m + k PROVE u[j] \in S
    <3>1. j \in 1 .. Len(u)
      BY <1>1, <1>2
    <3> QED  BY <1>2, <3>1, ElementOfSeq
  <2> QED  BY <2>1
<1> HIDE DEF m, u
<1>7. SubSeq(u, m + 1, m + k) \in Seq(S) /\ Len(SubSeq(u, m + 1, m + k)) = k
      /\ \A i \in 1 .. k : SubSeq(u, m + 1, m + k)[i] = u[m + i]
  <2>1. m + 1 \in Int /\ m + k \in Int /\ (m + k) - (m + 1) + 1 = k
    BY <1>3
  <2>2. /\ SubSeq(u, m + 1, m + k) \in Seq(S)
        /\ Len(SubSeq(u, m + 1, m + k)) = IF m + 1 <= m + k THEN (m + k) - (m + 1) + 1 ELSE 0
        /\ \A i \in 1 .. (m + k) - (m + 1) + 1 : SubSeq(u, m + 1, m + k)[i] = u[(m + 1) + i - 1]
    BY <1>6, <2>1, SubSeqProperties
  <2> QED  BY <1>3, <2>1, <2>2
<1>8. SubSeq(u, m + 1, m + k) = SubSeq(t, 1, k)
  BY <1>3, <1>5, <1>7, SeqEqual
<1> QED  BY <1>8 DEF m, u

\* The first part of a concatenation.
LEMMA HeadOfConcat ==
  ASSUME NEW S, NEW s \in Seq(S), NEW t \in Seq(S)
  PROVE  SubSeq(s \o t, 1, Len(s)) = s
<1>1. Len(s) \in Nat /\ Len(t) \in Nat
  BY LenProperties
<1>2. /\ s \o t \in Seq(S)
      /\ Len(s \o t) = Len(s) + Len(t)
      /\ \A i \in 1 .. Len(s) + Len(t) : (s \o t)[i] = IF i <= Len(s) THEN s[i] ELSE t[i - Len(s)]
  BY ConcatProperties
<1> DEFINE u == s \o t
<1>3. \A i \in 1 .. Len(s) : u[i] = s[i] /\ s[i] \in S
  BY <1>1, <1>2, ElementOfSeq
<1> HIDE DEF u
<1>4. SubSeq(u, 1, Len(s)) \in Seq(S) /\ Len(SubSeq(u, 1, Len(s))) = Len(s)
      /\ \A i \in 1 .. Len(s) : SubSeq(u, 1, Len(s))[i] = u[i]
  BY <1>1, <1>3, SubSeqProperties
<1>5. SubSeq(u, 1, Len(s)) = s
  BY <1>3, <1>4, SeqEqual
<1> QED  BY <1>5 DEF u

\* The second part of a concatenation.
LEMMA TailOfConcat ==
  ASSUME NEW S, NEW s \in Seq(S), NEW t \in Seq(S)
  PROVE  SubSeq(s \o t, Len(s) + 1, Len(s \o t)) = t
<1>1. Len(t) \in 0 .. Len(t) /\ Len(s \o t) = Len(s) + Len(t)
  BY LenProperties, ConcatProperties
<1>2. SubSeq(s \o t, Len(s) + 1, Len(s) + Len(t)) = SubSeq(t, 1, Len(t))
  BY <1>1, MiddleOfConcat
<1> QED  BY <1>1, <1>2, SubSeqFull

\* A prefix of a suffix.
LEMMA PrefixOfSuffix ==
  ASSUME NEW S, NEW s \in Seq(S), NEW t \in 0 .. Len(s), NEW n \in 0 .. Len(s) - t
  PROVE  SubSeq(SubSeq(s, t + 1, Len(s)), 1, n) = SubSeq(s, t + 1, t + n)
<1>1. Len(s) \in Nat
  BY LenProperties
<1> DEFINE u == SubSeq(s, t + 1, Len(s))
<1>2. /\ u \in Seq(S) /\ Len(u) = Len(s) - t
      /\ \A i \in 1 .. Len(s) - t : u[i] = s[t + i]
  <2>1. \A i \in t + 1 .. Len(s) : s[i] \in S
    BY <1>1, ElementOfSeq
  <2>2. /\ u \in Seq(S)
        /\ Len(u) = IF t + 1 <= Len(s) THEN Len(s) - (t + 1) + 1 ELSE 0
        /\ \A i \in 1 .. Len(s) - (t + 1) + 1 : u[i] = s[(t + 1) + i - 1]
    BY <1>1, <2>1, SubSeqProperties
  <2> HIDE DEF u
  <2> QED  BY <1>1, <2>2
<1> HIDE DEF u
<1>3. /\ SubSeq(u, 1, n) \in Seq(S) /\ Len(SubSeq(u, 1, n)) = n
      /\ \A i \in 1 .. n : SubSeq(u, 1, n)[i] = u[i]
  <2>1. \A i \in 1 .. n : u[i] \in S
    BY <1>1, <1>2, ElementOfSeq
  <2> QED  BY <1>1, <2>1, SubSeqProperties
<1>4. /\ SubSeq(s, t + 1, t + n) \in Seq(S) /\ Len(SubSeq(s, t + 1, t + n)) = n
      /\ \A i \in 1 .. n : SubSeq(s, t + 1, t + n)[i] = s[t + i]
  <2>1. \A i \in t + 1 .. t + n : s[i] \in S
    BY <1>1, ElementOfSeq
  <2>2. /\ SubSeq(s, t + 1, t + n) \in Seq(S)
        /\ Len(SubSeq(s, t + 1, t + n)) = IF t + 1 <= t + n THEN (t + n) - (t + 1) + 1 ELSE 0
        /\ \A i \in 1 .. (t + n) - (t + 1) + 1 : SubSeq(s, t + 1, t + n)[i] = s[(t + 1) + i - 1]
    BY <1>1, <2>1, SubSeqProperties
  <2> QED  BY <1>1, <2>2
<1>5. \A i \in 1 .. n : u[i] = s[t + i]
  BY <1>1, <1>2
<1>6. SubSeq(u, 1, n) = SubSeq(s, t + 1, t + n)
  BY <1>3, <1>4, <1>5, SeqEqual
<1> QED  BY <1>6 DEF u

\* Where the parts of a concatenation lie.
LEMMA ConcatPlaces ==
  ASSUME NEW S, NEW s \in Seq(S), NEW t \in Seq(S), NEW k \in 0 .. Len(t)
  PROVE  Len(s) + 1 \in 1 .. Len(s \o t) + 1 /\ Len(s) + k \in 0 .. Len(s \o t)
<1>1. Len(s) \in Nat /\ Len(t) \in Nat /\ Len(s \o t) = Len(s) + Len(t)
  BY LenProperties, ConcatProperties
<1> QED  BY <1>1

\* A first part that is as long as allowed, or all there is.
LEMMA ConcatTaken ==
  ASSUME NEW S, NEW s \in Seq(S), NEW t \in Seq(S), NEW m \in Nat,
         Len(s) <= m, Len(s) < m => t = <<>>
  PROVE  (IF Len(s \o t) < m THEN Len(s \o t) ELSE m) = Len(s)
<1>1. Len(s) \in Nat /\ Len(t) \in Nat /\ Len(s \o t) = Len(s) + Len(t)
  BY LenProperties, ConcatProperties
<1>2. t = <<>> => Len(t) = 0
  OBVIOUS
<1> QED  BY <1>1, <1>2
=============================================================================
