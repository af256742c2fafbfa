-------------------------- MODULE CmdOutput_proofs --------------------------
(***************************************************************************)
(* Proofs about CmdOutput, for any characters and outputs of any length:   *)
(* its types, that no text is lost, and that the lines pushed are the      *)
(* lines of the output.                                                    *)
(***************************************************************************)
EXTENDS CmdOutput, SequenceLemmas, FiniteSetTheorems

\* Every reachable state has its types.
THEOREM TypeCorrect == Spec => []TypeOK
<1>1. Init => TypeOK
  <2>1. <<>> \in Seq(Bytes) /\ <<>> \in Seq(Chars) /\ <<>> \in Seq(Seq(Chars))
    BY EmptySeq
  <2> QED
    BY <2>1 DEF Init, TypeOK
<1>2. TypeOK /\ [Next]_vars => TypeOK'
  <2> SUFFICES ASSUME TypeOK, [Next]_vars PROVE TypeOK'
    OBVIOUS
  <2> USE DEF TypeOK
  <2>b. CR \in Bytes /\ LF \in Bytes /\ Chars \subseteq Bytes
    BY DEF Bytes
  <2>a. ASSUME NEW c \in Bytes, Read(c) PROVE output' \in Seq(Bytes) /\ ended' \in BOOLEAN
    BY <2>a, AppendProperties DEF Read
  <2>1. ASSUME NEW c \in Chars, ReadChar(c) PROVE TypeOK'
    BY <2>a, <2>b, <2>1, AppendProperties DEF ReadChar
  <2>2. CASE SkipLineFeed
    BY <2>a, <2>b, <2>2 DEF SkipLineFeed
  <2>3. ASSUME NEW c \in {CR, LF}, EndLine(c) PROVE TypeOK'
    <3>1. lines' \in Seq(Seq(Chars)) /\ line' \in Seq(Chars)
      BY <2>3, AppendProperties, EmptySeq DEF EndLine
    <3>2. c \in Bytes
      BY <2>b
    <3> QED
      BY <2>a, <2>3, <3>1, <3>2 DEF EndLine
  <2>4. CASE End
    BY <2>4 DEF End
  <2>5. CASE UNCHANGED vars
    BY <2>5 DEF vars
  <2> QED
    BY <2>1, <2>2, <2>3, <2>4, <2>5 DEF Next
<1> QED
  BY <1>1, <1>2, PTL DEF Spec

-----------------------------------------------------------------------------
(* What FlattenSeq returns for a sequence one element longer. *)

\* The first n values of the function FlattenSeq is defined with.
Flat(f, ss, n) == f = [i \in 1 .. n |-> IF i = 1 THEN ss[i] ELSE f[i - 1] \o ss[i]]

\* There is such a function for every n,
LEMMA FlatExists ==
  ASSUME NEW ss, NEW m \in Nat
  PROVE  \E f : Flat(f, ss, m)
<1> DEFINE T == {n \in Nat : ~\E f : Flat(f, ss, n)}
<1> SUFFICES ASSUME T # {} PROVE FALSE
  OBVIOUS
<1>1. PICK n \in T : \A k \in T : n <= k
  BY LeastOf
<1>2. n \in Nat /\ ~\E f : Flat(f, ss, n)
  OBVIOUS
<1>3. n # 0
  <2>1. Flat([i \in 1 .. 0 |-> ss[i]], ss, 0)
    BY DEF Flat
  <2> QED
    BY <1>2, <2>1
<1>4. n - 1 \in Nat /\ n - 1 \notin T
  BY <1>1, <1>2, <1>3
<1>5. PICK f : Flat(f, ss, n - 1)
  BY <1>4
<1> DEFINE g == [i \in 1 .. n |-> IF i < n THEN f[i]
                                  ELSE IF n = 1 THEN ss[n] ELSE f[n - 1] \o ss[n]]
<1>6. ASSUME NEW i \in 1 .. n
      PROVE  g[i] = IF i = 1 THEN ss[i] ELSE g[i - 1] \o ss[i]
  <2>1. CASE i = n
    BY <1>2, <1>3, <2>1
  <2>2. CASE i # n
    <3>1. i \in 1 .. n - 1 /\ i < n /\ (i # 1 => i - 1 \in 1 .. n /\ i - 1 < n)
      BY <1>2, <2>2
    <3>2. f[i] = IF i = 1 THEN ss[i] ELSE f[i - 1] \o ss[i]
      BY <1>5, <3>1 DEF Flat
    <3> QED
      BY <3>1, <3>2
  <2> QED
    BY <2>1, <2>2
<1>7. Flat(g, ss, n)
  BY <1>6 DEF Flat
<1> QED
  BY <1>2, <1>7

\* its values are sequences,
LEMMA FlatType ==
  ASSUME NEW S, NEW n \in Nat, NEW ss, \A i \in 1 .. n : ss[i] \in Seq(S),
         NEW f, Flat(f, ss, n)
  PROVE  \A i \in 1 .. n : f[i] \in Seq(S)
<1> DEFINE T == {i \in 1 .. n : f[i] \notin Seq(S)}
<1> SUFFICES ASSUME T # {} PROVE FALSE
  OBVIOUS
<1>1. PICK i \in T : \A k \in T : i <= k
  <2>1. T \subseteq Nat
    OBVIOUS
  <2> HIDE DEF T
  <2> QED
    BY <2>1, LeastOf
<1>2. i \in 1 .. n /\ f[i] \notin Seq(S)
  OBVIOUS
<1>3. f[i] = IF i = 1 THEN ss[i] ELSE f[i - 1] \o ss[i]
  BY <1>2 DEF Flat
<1>4. CASE i = 1
  BY <1>2, <1>3, <1>4
<1>5. CASE i # 1
  <2>1. i - 1 \in 1 .. n /\ i - 1 \notin T
    BY <1>1, <1>2, <1>5
  <2>2. f[i - 1] \in Seq(S) /\ ss[i] \in Seq(S)
    BY <1>2, <2>1
  <2> QED
    BY <1>2, <1>3, <1>5, <2>2, ConcatProperties
<1> QED
  BY <1>4, <1>5

\* and they are the same whatever follows.
LEMMA FlatSame ==
  ASSUME NEW n \in Nat, NEW m \in Nat, n <= m,
         NEW ss, NEW f, Flat(f, ss, n), NEW tt, NEW g, Flat(g, tt, m),
         \A i \in 1 .. n : ss[i] = tt[i]
  PROVE  \A i \in 1 .. n : f[i] = g[i]
<1> DEFINE T == {i \in 1 .. n : f[i] # g[i]}
<1> SUFFICES ASSUME T # {} PROVE FALSE
  OBVIOUS
<1>1. PICK i \in T : \A k \in T : i <= k
  <2>1. T \subseteq Nat
    OBVIOUS
  <2> HIDE DEF T
  <2> QED
    BY <2>1, LeastOf
<1>2. i \in 1 .. n /\ i \in 1 .. m /\ f[i] # g[i]
  OBVIOUS
<1>3. f[i] = IF i = 1 THEN ss[i] ELSE f[i - 1] \o ss[i]
  BY <1>2 DEF Flat
<1>4. g[i] = IF i = 1 THEN tt[i] ELSE g[i - 1] \o tt[i]
  BY <1>2 DEF Flat
<1>5. ss[i] = tt[i]
  BY <1>2
<1>6. CASE i = 1
  BY <1>2, <1>3, <1>4, <1>5, <1>6
<1>7. CASE i # 1
  <2>1. i - 1 \in 1 .. n /\ i - 1 \notin T
    BY <1>1, <1>2, <1>7
  <2>2. f[i - 1] = g[i - 1]
    BY <2>1
  <2> QED
    BY <1>2, <1>3, <1>4, <1>5, <1>7, <2>2
<1> QED
  BY <1>6, <1>7

\* FlattenSeq is the last of those values.
LEMMA FlattenFlat ==
  ASSUME NEW ss, Len(ss) \in Nat, Len(ss) # 0
  PROVE  \E f : Flat(f, ss, Len(ss)) /\ FlattenSeq(ss) = f[Len(ss)]
<1> DEFINE F == CHOOSE f : Flat(f, ss, Len(ss))
<1>1. Flat(F, ss, Len(ss))
  BY FlatExists
<1>2. FlattenSeq(ss) = F[Len(ss)]
  BY DEF FlattenSeq, Flat
<1> QED
  BY <1>1, <1>2

\* FlattenSeq concatenates: it adds the last sequence at the end.
LEMMA FlattenAppend ==
  ASSUME NEW S, NEW ss \in Seq(Seq(S)), NEW t \in Seq(S)
  PROVE  /\ FlattenSeq(ss) \in Seq(S)
         /\ FlattenSeq(Append(ss, t)) = FlattenSeq(ss) \o t
<1> DEFINE tt == Append(ss, t)
           n == Len(ss)
<1>1. /\ n \in Nat /\ Len(tt) = n + 1 /\ tt \in Seq(Seq(S))
      /\ \A i \in 1 .. n : tt[i] = ss[i]
      /\ tt[n + 1] = t
  BY LenProperties, AppendProperties
<1>2. \A i \in 1 .. n : ss[i] \in Seq(S)
  BY ElementOfSeq
<1> HIDE DEF tt
<1>3. PICK g : Flat(g, tt, n + 1) /\ FlattenSeq(tt) = g[n + 1]
  BY <1>1, FlattenFlat
<1>4. g[n + 1] = IF n + 1 = 1 THEN t ELSE g[n] \o t
  <2>1. n + 1 \in 1 .. n + 1 /\ (n + 1) - 1 = n
    BY <1>1
  <2> QED
    BY <1>1, <1>3, <2>1 DEF Flat
<1>5. CASE n = 0
  <2>1. FlattenSeq(ss) = <<>> /\ ss = <<>>
    BY <1>5, EmptySeq DEF FlattenSeq
  <2> QED
    BY <1>1, <1>3, <1>4, <1>5, <2>1, ConcatEmptySeq DEF tt
<1>6. CASE n # 0
  <2>1. PICK f : Flat(f, ss, n) /\ FlattenSeq(ss) = f[n]
    BY <1>1, <1>6, FlattenFlat
  <2>2. n \in 1 .. n
    BY <1>1, <1>6
  <2>3. f[n] \in Seq(S)
    BY <1>1, <1>2, <2>1, <2>2, FlatType
  <2>4. f[n] = g[n]
    <3>1. n \in Nat /\ n <= n + 1 /\ n + 1 \in Nat
      BY <1>1
    <3>4. Flat(f, ss, n) /\ Flat(g, tt, n + 1)
      BY <1>3, <2>1
    <3>2. \A i \in 1 .. n : ss[i] = tt[i]
      BY <1>1
    <3>3. \A i \in 1 .. n : f[i] = g[i]
      BY <3>1, <3>2, <3>4, FlatSame
    <3> QED
      BY <2>2, <3>3
  <2> QED
    BY <1>1, <1>3, <1>4, <1>6, <2>1, <2>3, <2>4 DEF tt
<1> QED
  BY <1>5, <1>6

\* The text of no bytes is empty, and one byte more adds itself unless it ends a
\* line.
LEMMA TextAppend ==
  ASSUME NEW s \in Seq(Bytes), NEW c \in Bytes
  PROVE  /\ Text(<<>>) = <<>>
         /\ Text(s) \in Seq(Chars)
         /\ Text(Append(s, c)) = IF c \in Chars THEN Append(Text(s), c) ELSE Text(s)
<1> DEFINE b(x) == IF x \in Chars THEN <<x>> ELSE <<>>
           ss == [i \in 1 .. Len(s) |-> b(s[i])]
           tt == [i \in 1 .. Len(Append(s, c)) |-> b(Append(s, c)[i])]
<1>1. /\ Len(s) \in Nat /\ Len(Append(s, c)) = Len(s) + 1
      /\ \A i \in 1 .. Len(s) : Append(s, c)[i] = s[i]
      /\ Append(s, c)[Len(s) + 1] = c
  BY LenProperties, AppendProperties
<1>2. \A x : b(x) \in Seq(Chars)
  <2>1. \A x \in Chars : <<x>> \in Seq(Chars)
    OBVIOUS
  <2>2. <<>> \in Seq(Chars)
    BY EmptySeq
  <2> QED
    BY <2>1, <2>2
<1>3. ss \in Seq(Seq(Chars)) /\ Len(ss) = Len(s)
  BY <1>1, <1>2
<1>4. tt = Append(ss, b(c))
  <2>1. /\ Append(ss, b(c)) \in Seq(Seq(Chars)) /\ Len(Append(ss, b(c))) = Len(s) + 1
        /\ \A i \in 1 .. Len(s) : Append(ss, b(c))[i] = b(s[i])
        /\ Append(ss, b(c))[Len(s) + 1] = b(c)
    BY <1>1, <1>2, <1>3, AppendProperties
  <2>2. tt \in Seq(Seq(Chars)) /\ Len(tt) = Len(s) + 1
    BY <1>1, <1>2
  <2>3. \A i \in 1 .. Len(s) + 1 : tt[i] = Append(ss, b(c))[i]
    BY <1>1, <2>1
  <2> QED
    BY <2>1, <2>2, <2>3, SeqEqual
<1>5. FlattenSeq(ss) \in Seq(Chars) /\ FlattenSeq(tt) = FlattenSeq(ss) \o b(c)
  BY <1>2, <1>3, <1>4, FlattenAppend
<1>6. Text(s) = FlattenSeq(ss) /\ Text(Append(s, c)) = FlattenSeq(tt)
  BY DEF Text
<1>7. Text(<<>>) = <<>>
  <2>1. [i \in 1 .. 0 |-> b(<<>>[i])] = <<>> /\ Len(<<>>) = 0
    BY EmptySeq
  <2> QED
    BY <2>1 DEF Text, FlattenSeq
<1>8. CASE c \in Chars
  <2>1. b(c) = <<c>>
    BY <1>8
  <2> QED
    BY <1>5, <1>6, <1>7, <1>8, <2>1, AppendIsConcat
<1>9. CASE c \notin Chars
  <2>1. b(c) = <<>>
    BY <1>9
  <2> QED
    BY <1>5, <1>6, <1>7, <1>9, <2>1, ConcatEmptySeq
<1> QED
  BY <1>8, <1>9

-----------------------------------------------------------------------------
\* No text is lost: every byte that ends no line is in a line pushed or in the
\* one being read, once and in its place.
THEOREM NoTextLost == Spec => []NothingLost
<1>1. Init => NothingLost
  <2> SUFFICES ASSUME Init PROVE NothingLost
    OBVIOUS
  <2>1. FlattenSeq(<<>>) = <<>> /\ <<>> \o <<>> = <<>>
    BY EmptySeq, ConcatEmptySeq DEF FlattenSeq
  <2>2. Text(<<>>) = <<>>
    BY TextAppend, EmptySeq DEF Bytes
  <2> QED
    BY <2>1, <2>2 DEF Init, NothingLost
<1>2. TypeOK /\ NothingLost /\ [Next]_vars => NothingLost'
  <2> SUFFICES ASSUME TypeOK, NothingLost, [Next]_vars PROVE NothingLost'
    OBVIOUS
  <2>b. CR \in Bytes /\ LF \in Bytes /\ CR \notin Chars /\ LF \notin Chars /\ Chars \subseteq Bytes
    BY BytesAssumption DEF Bytes
  <2>t. output \in Seq(Bytes) /\ line \in Seq(Chars) /\ lines \in Seq(Seq(Chars))
    BY DEF TypeOK
  <2>f. /\ FlattenSeq(lines) \in Seq(Chars)
        /\ \A l \in Seq(Chars) : FlattenSeq(Append(lines, l)) = FlattenSeq(lines) \o l
    BY <2>t, FlattenAppend, EmptySeq
  <2>1. ASSUME NEW c \in Chars, ReadChar(c) PROVE NothingLost'
    <3>1. output' = Append(output, c) /\ line' = Append(line, c) /\ lines' = lines
      BY <2>1 DEF ReadChar, Read
    <3>2. Text(Append(output, c)) = Append(Text(output), c)
      BY <2>b, <2>t, TextAppend
    <3>3. FlattenSeq(lines) \o Append(line, c) = Append(FlattenSeq(lines) \o line, c)
      <4>1. \A s, u \in Seq(Chars) : s \o Append(u, c) = Append(s \o u, c)
        OBVIOUS
      <4> QED
        BY <2>f, <2>t, <4>1
    <3> QED
      BY <3>1, <3>2, <3>3 DEF NothingLost
  <2>2. CASE SkipLineFeed
    <3>1. output' = Append(output, LF) /\ line' = line /\ lines' = lines
      BY <2>2 DEF SkipLineFeed, Read
    <3>2. Text(Append(output, LF)) = Text(output)
      BY <2>b, <2>t, TextAppend
    <3> QED
      BY <3>1, <3>2 DEF NothingLost
  <2>3. ASSUME NEW c \in {CR, LF}, EndLine(c) PROVE NothingLost'
    <3>1. output' = Append(output, c) /\ line' = <<>> /\ lines' = Append(lines, line)
      BY <2>3 DEF EndLine, Read
    <3>2. Text(Append(output, c)) = Text(output)
      BY <2>b, <2>t, TextAppend
    <3>3. FlattenSeq(lines') \o <<>> = FlattenSeq(lines) \o line
      <4>1. FlattenSeq(lines') = FlattenSeq(lines) \o line
        BY <2>f, <2>t, <3>1
      <4>2. FlattenSeq(lines) \o line \in Seq(Chars)
        BY <2>f, <2>t, ConcatProperties
      <4> QED
        BY <4>1, <4>2, ConcatEmptySeq
    <3> QED
      BY <3>1, <3>2, <3>3 DEF NothingLost
  <2>4. CASE End \/ UNCHANGED vars
    BY <2>4 DEF End, vars, NothingLost
  <2> QED
    BY <2>1, <2>2, <2>3, <2>4 DEF Next
<1> QED
  BY <1>1, <1>2, TypeCorrect, PTL DEF Spec

-----------------------------------------------------------------------------
(* The lines. *)

\* previous_char_is_cr tells whether the last byte that is no text is a carriage
\* return,
LastEndIsCr == \E i \in DOMAIN output :
                 output[i] = CR /\ \A k \in i + 1 .. Len(output) : ~Ends(k)
CrRemembered == previousCharIsCr <=> LastEndIsCr

\* and the line being read is the text since the last line end.
LineRead == \E from \in 1 .. Len(output) + 1 :
              /\ LineStarts(from, Len(output) + 1)
              /\ line = Text(SubSeq(output, from, Len(output)))

LinesInv == CrRemembered /\ (~LateLineFeed => LineRead /\ LinesOfOutputPushed)

\* One byte more, and the bytes before it.
LEMMA ReadByte ==
  ASSUME TypeOK, NEW c \in Bytes, Read(c)
  PROVE  /\ Len(output) \in Nat /\ Len(output') = Len(output) + 1
         /\ DOMAIN output = 1 .. Len(output) /\ DOMAIN output' = 1 .. Len(output) + 1
         /\ \A i \in 1 .. Len(output) : output'[i] = output[i]
         /\ output'[Len(output) + 1] = c
<1>1. output \in Seq(Bytes) /\ output' = Append(output, c)
  BY DEF TypeOK, Read
<1> QED
  BY <1>1, LenProperties, AppendProperties

\* Where lines end is settled by the bytes up to there.
LEMMA LineEndsKept ==
  ASSUME TypeOK, NEW c \in Bytes, Read(c)
  PROVE  /\ LineEnds \subseteq 1 .. Len(output)
         /\ LineEnds' \subseteq 1 .. Len(output) + 1
         /\ \A i \in 1 .. Len(output) : i \in LineEnds' <=> i \in LineEnds
         /\ Len(output) + 1 \in LineEnds' <=>
              c \in {CR, LF} /\ ~(c = LF /\ Len(output) > 0 /\ output[Len(output)] = CR)
<1> DEFINE n == Len(output)
<1>1. /\ n \in Nat
      /\ DOMAIN output = 1 .. n /\ DOMAIN output' = 1 .. n + 1
      /\ \A i \in 1 .. n : output'[i] = output[i]
      /\ output'[n + 1] = c
  BY ReadByte
<1>2. LineEnds \subseteq 1 .. n /\ LineEnds' \subseteq 1 .. n + 1
  BY <1>1 DEF LineEnds
<1>3. ASSUME NEW i \in 1 .. n PROVE i \in LineEnds' <=> i \in LineEnds
  <2>1. i \in 1 .. n + 1 /\ (i > 1 => i - 1 \in 1 .. n)
    BY <1>1
  <2>2. output'[i] = output[i] /\ (i > 1 => output'[i - 1] = output[i - 1])
    BY <1>1, <2>1
  <2>3. i \in LineEnds' <=> output'[i] \in {CR, LF} /\ ~(output'[i] = LF /\ i > 1 /\ output'[i - 1] = CR)
    BY <1>1, <2>1 DEF LineEnds, Ends
  <2>4. i \in LineEnds <=> output[i] \in {CR, LF} /\ ~(output[i] = LF /\ i > 1 /\ output[i - 1] = CR)
    BY <1>1 DEF LineEnds, Ends
  <2> QED
    BY <2>2, <2>3, <2>4
<1>4. n + 1 \in LineEnds' <=> c \in {CR, LF} /\ ~(c = LF /\ n > 0 /\ output[n] = CR)
  <2>1. n + 1 \in 1 .. n + 1 /\ (n + 1) - 1 = n /\ (n + 1 > 1 <=> n > 0) /\ (n > 0 => n \in 1 .. n)
    BY <1>1
  <2>2. n + 1 \in LineEnds' <=>
          output'[n + 1] \in {CR, LF} /\ ~(output'[n + 1] = LF /\ n + 1 > 1 /\ output'[(n + 1) - 1] = CR)
    BY <1>1, <2>1 DEF LineEnds, Ends
  <2>3. n > 0 => output'[n] = output[n]
    BY <1>1, <2>1
  <2> QED
    BY <1>1, <2>1, <2>2, <2>3
<1> QED
  BY <1>2, <1>3, <1>4

\* So is where a line starts,
LEMMA LineStartsKept ==
  ASSUME TypeOK, NEW c \in Bytes, Read(c),
         NEW i \in 1 .. Len(output) + 1, NEW from \in 1 .. i
  PROVE  LineStarts(from, i)' <=> LineStarts(from, i)
<1>1. Len(output) \in Nat
  BY ReadByte
<1>2. from - 1 \in LineEnds' \cup {0} <=> from - 1 \in LineEnds \cup {0}
  <2>1. from - 1 = 0 \/ from - 1 \in 1 .. Len(output)
    BY <1>1
  <2> QED
    BY <2>1, LineEndsKept
<1>3. ASSUME NEW k \in from .. i - 1 PROVE k \in LineEnds' <=> k \in LineEnds
  <2>1. k \in 1 .. Len(output)
    BY <1>1
  <2> QED
    BY <2>1, LineEndsKept
<1> QED
  BY <1>2, <1>3 DEF LineStarts

\* and the text of a line.
LEMMA PartsKept ==
  ASSUME NEW s \in Seq(Bytes), NEW c \in Bytes, NEW from \in 1 .. Len(s) + 1
  PROVE  /\ \A i \in 0 .. Len(s) : SubSeq(Append(s, c), from, i) = SubSeq(s, from, i)
         /\ SubSeq(s, from, Len(s)) \in Seq(Bytes)
         /\ SubSeq(Append(s, c), from, Len(s) + 1) = Append(SubSeq(s, from, Len(s)), c)
<1> DEFINE n == Len(s)
           t == Append(s, c)
<1>1. /\ n \in Nat /\ Len(t) = n + 1 /\ t \in Seq(Bytes)
      /\ \A i \in 1 .. n : t[i] = s[i]
      /\ t[n + 1] = c
      /\ \A i \in 1 .. n : s[i] \in Bytes
      /\ \A i \in 1 .. n + 1 : t[i] \in Bytes
  BY LenProperties, AppendProperties, ElementOfSeq
<1> HIDE DEF t, n
<1>2. ASSUME NEW i \in 0 .. n PROVE SubSeq(t, from, i) = SubSeq(s, from, i)
  <2>1. from \in Int /\ i \in Int
    BY <1>1
  <2>2. \A k \in from .. i : s[k] \in Bytes /\ t[k] \in Bytes
    BY <1>1
  <2>3. /\ SubSeq(s, from, i) \in Seq(Bytes)
        /\ Len(SubSeq(s, from, i)) = IF from <= i THEN i - from + 1 ELSE 0
        /\ \A k \in 1 .. i - from + 1 : SubSeq(s, from, i)[k] = s[from + k - 1]
    BY <2>1, <2>2, SubSeqProperties
  <2>4. /\ SubSeq(t, from, i) \in Seq(Bytes)
        /\ Len(SubSeq(t, from, i)) = IF from <= i THEN i - from + 1 ELSE 0
        /\ \A k \in 1 .. i - from + 1 : SubSeq(t, from, i)[k] = t[from + k - 1]
    BY <2>1, <2>2, SubSeqProperties
  <2>5. \A k \in 1 .. i - from + 1 : t[from + k - 1] = s[from + k - 1]
    BY <1>1
  <2>6. \A k \in 1 .. Len(SubSeq(s, from, i)) : SubSeq(t, from, i)[k] = SubSeq(s, from, i)[k]
    BY <1>1, <2>3, <2>4, <2>5
  <2> QED
    BY <2>3, <2>4, <2>6, SeqEqual
<1>3. /\ SubSeq(s, from, n) \in Seq(Bytes)
      /\ Len(SubSeq(s, from, n)) = n - from + 1
      /\ \A k \in 1 .. n - from + 1 : SubSeq(s, from, n)[k] = s[from + k - 1]
  <2>1. from \in Int /\ n \in Int /\ \A k \in from .. n : s[k] \in Bytes
    BY <1>1
  <2>2. /\ SubSeq(s, from, n) \in Seq(Bytes)
        /\ Len(SubSeq(s, from, n)) = IF from <= n THEN n - from + 1 ELSE 0
        /\ \A k \in 1 .. n - from + 1 : SubSeq(s, from, n)[k] = s[from + k - 1]
    BY <2>1, SubSeqProperties
  <2>3. (IF from <= n THEN n - from + 1 ELSE 0) = n - from + 1
    BY <1>1 DEF n
  <2> QED
    BY <2>2, <2>3
<1>4. SubSeq(t, from, n + 1) = Append(SubSeq(s, from, n), c)
  <2> DEFINE u == SubSeq(s, from, n)
             m == n - from + 1
  <2>1. from \in Int /\ n + 1 \in Int /\ m \in Nat /\ \A k \in from .. n + 1 : t[k] \in Bytes
    BY <1>1 DEF n
  <2>2. /\ SubSeq(t, from, n + 1) \in Seq(Bytes)
        /\ Len(SubSeq(t, from, n + 1)) = IF from <= n + 1 THEN (n + 1) - from + 1 ELSE 0
        /\ \A k \in 1 .. (n + 1) - from + 1 : SubSeq(t, from, n + 1)[k] = t[from + k - 1]
    BY <2>1, SubSeqProperties
  <2>3. from <= n + 1 /\ (n + 1) - from + 1 = m + 1
    BY <1>1 DEF n
  <2>4. /\ Append(u, c) \in Seq(Bytes) /\ Len(Append(u, c)) = m + 1
        /\ \A k \in 1 .. m : Append(u, c)[k] = u[k]
        /\ Append(u, c)[m + 1] = c
    BY <1>3, AppendProperties
  <2>5. ASSUME NEW k \in 1 .. m + 1 PROVE t[from + k - 1] = Append(u, c)[k]
    <3>1. CASE k = m + 1
      <4>1. from + k - 1 = n + 1
        BY <1>1, <3>1
      <4> QED
        BY <1>1, <2>4, <3>1, <4>1
    <3>2. CASE k # m + 1
      <4>1. k \in 1 .. m /\ from + k - 1 \in 1 .. n
        BY <1>1, <2>1, <3>2
      <4> QED
        BY <1>1, <1>3, <2>4, <4>1
    <3> QED
      BY <3>1, <3>2
  <2> HIDE DEF u, m
  <2>6. SubSeq(t, from, n + 1) = Append(u, c)
    BY <2>2, <2>3, <2>4, <2>5, SeqEqual
  <2> QED
    BY <2>6 DEF u
<1> QED
  BY <1>2, <1>3, <1>4 DEF n, t

\* A byte more ends a line more or none.
LEMMA OneMoreLineEnd ==
  ASSUME TypeOK, NEW c \in Bytes, Read(c)
  PROVE  /\ Len(output) + 1 \notin LineEnds
         /\ Len(output) + 1 \notin LineEnds' => LineEnds' = LineEnds
         /\ Len(output) + 1 \in LineEnds' => LineEnds' = LineEnds \cup {Len(output) + 1}
<1>1. Len(output) \in Nat /\ LineEnds \subseteq 1 .. Len(output)
      /\ LineEnds' \subseteq 1 .. Len(output) + 1
      /\ \A i \in 1 .. Len(output) : i \in LineEnds' <=> i \in LineEnds
  BY ReadByte, LineEndsKept
<1>2. \A i \in 1 .. Len(output) + 1 : i \in 1 .. Len(output) \/ i = Len(output) + 1
  BY <1>1
<1>3. Len(output) + 1 \notin 1 .. Len(output)
  BY <1>1
<1> QED
  BY <1>1, <1>2, <1>3

\* A late line feed stays one.
LEMMA LateForEver ==
  ASSUME TypeOK, NEW c \in Bytes, Read(c), LateLineFeed
  PROVE  LateLineFeed'
<1>1. /\ Len(output) \in Nat
      /\ DOMAIN output = 1 .. Len(output) /\ DOMAIN output' = 1 .. Len(output) + 1
      /\ \A i \in 1 .. Len(output) : output'[i] = output[i]
  BY ReadByte
<1>2. PICK i \in 1 .. Len(output), j \in 1 .. Len(output) :
        /\ i + 1 < j /\ output[i] = CR /\ output[j] = LF
        /\ \A k \in i + 1 .. j - 1 : ~Ends(k)
  BY <1>1 DEF LateLineFeed
<1>3. i \in 1 .. Len(output) + 1 /\ j \in 1 .. Len(output) + 1
      /\ output'[i] = CR /\ output'[j] = LF
  BY <1>1, <1>2
<1>4. ASSUME NEW k \in i + 1 .. j - 1 PROVE ~(output'[k] \in {CR, LF})
  <2>1. k \in 1 .. Len(output)
    BY <1>1
  <2> QED
    BY <1>1, <1>2, <2>1 DEF Ends
<1> QED
  BY <1>1, <1>2, <1>3, <1>4 DEF LateLineFeed, Ends

\* The last byte that is no text.
LEMMA LastEnd ==
  ASSUME TypeOK, NEW c \in Bytes, Read(c)
  PROVE  /\ c \in Chars => (LastEndIsCr' <=> LastEndIsCr)
         /\ c = CR => LastEndIsCr'
         /\ c = LF => ~LastEndIsCr'
<1> DEFINE n == Len(output)
<1>1. /\ n \in Nat /\ Len(output') = n + 1
      /\ DOMAIN output = 1 .. n /\ DOMAIN output' = 1 .. n + 1
      /\ \A i \in 1 .. n : output'[i] = output[i]
      /\ output'[n + 1] = c
  BY ReadByte
<1>2. LastEndIsCr <=> \E i \in 1 .. n : output[i] = CR /\ \A k \in i + 1 .. n : output[k] \notin {CR, LF}
  BY <1>1 DEF LastEndIsCr, Ends
<1>3. LastEndIsCr' <=> \E i \in 1 .. n + 1 :
                         output'[i] = CR /\ \A k \in i + 1 .. n + 1 : output'[k] \notin {CR, LF}
  BY <1>1 DEF LastEndIsCr, Ends
<1>4. n + 1 \in 1 .. n + 1
  BY <1>1
<1>5. CASE c = CR
  <2>1. (n + 1) + 1 .. n + 1 = {}
    BY <1>1
  <2>2. LastEndIsCr'
    BY <1>1, <1>3, <1>4, <1>5, <2>1
  <2> QED
    BY <1>5, <2>2, BytesAssumption
<1>6. CASE c = LF
  <2>1. ASSUME NEW i \in 1 .. n + 1, output'[i] = CR, \A k \in i + 1 .. n + 1 : output'[k] \notin {CR, LF}
        PROVE  FALSE
    <3>1. i # n + 1
      BY <1>1, <1>6, <2>1, BytesAssumption
    <3>2. n + 1 \in i + 1 .. n + 1
      BY <1>1, <3>1
    <3> QED
      BY <1>1, <1>6, <2>1, <3>2
  <2> QED
    BY <1>3, <1>6, <2>1, BytesAssumption
<1>7. CASE c \in Chars
  <2>1. c # CR /\ c # LF
    BY <1>7, BytesAssumption
  <2>2. ASSUME NEW i \in 1 .. n + 1, output'[i] = CR, \A k \in i + 1 .. n + 1 : output'[k] \notin {CR, LF}
        PROVE  i \in 1 .. n /\ output[i] = CR /\ \A k \in i + 1 .. n : output[k] \notin {CR, LF}
    <3>1. i \in 1 .. n
      BY <1>1, <2>1, <2>2
    <3>2. \A k \in i + 1 .. n : k \in i + 1 .. n + 1 /\ k \in 1 .. n
      BY <1>1
    <3> QED
      BY <1>1, <2>2, <3>1, <3>2
  <2>3. ASSUME NEW i \in 1 .. n, output[i] = CR, \A k \in i + 1 .. n : output[k] \notin {CR, LF}
        PROVE  i \in 1 .. n + 1 /\ output'[i] = CR /\ \A k \in i + 1 .. n + 1 : output'[k] \notin {CR, LF}
    <3>1. i \in 1 .. n + 1 /\ \A k \in i + 1 .. n + 1 : k = n + 1 \/ (k \in i + 1 .. n /\ k \in 1 .. n)
      BY <1>1
    <3> QED
      BY <1>1, <2>1, <2>3, <3>1
  <2>4. LastEndIsCr' <=> LastEndIsCr
    BY <1>2, <1>3, <2>2, <2>3
  <2> QED
    BY <2>1, <2>4
<1> QED
  BY <1>5, <1>6, <1>7, BytesAssumption DEF Bytes

\* The lines of the output that had ended before a byte more are still the ones
\* pushed.
LEMMA EarlierLines ==
  ASSUME TypeOK, NEW c \in Bytes, Read(c), LinesOfOutputPushed, NEW i \in LineEnds
  PROVE  /\ Cardinality({j \in LineEnds' : j <= i}) \in 1 .. Len(lines)
         /\ \E from \in 1 .. i :
              /\ LineStarts(from, i)'
              /\ lines[Cardinality({j \in LineEnds' : j <= i})] = Text(SubSeq(output', from, i))
<1>1. Len(output) \in Nat /\ output \in Seq(Bytes) /\ output' = Append(output, c)
  BY ReadByte DEF TypeOK, Read
<1>2. i \in 1 .. Len(output) /\ LineEnds \subseteq 1 .. Len(output)
  BY LineEndsKept
<1>3. {j \in LineEnds' : j <= i} = {j \in LineEnds : j <= i}
  <2>1. \A j \in LineEnds' : j <= i => j \in 1 .. Len(output)
    BY <1>1, <1>2, LineEndsKept
  <2> QED
    BY <1>2, <2>1, LineEndsKept
<1>4. PICK from \in 1 .. i :
        /\ LineStarts(from, i)
        /\ lines[Cardinality({j \in LineEnds : j <= i})] = Text(SubSeq(output, from, i))
  BY DEF LinesOfOutputPushed
<1>5. i \in 1 .. Len(output) + 1 /\ from \in 1 .. Len(output) + 1 /\ i \in 0 .. Len(output)
  BY <1>1, <1>2
<1>6. LineStarts(from, i)'
  BY <1>4, <1>5, LineStartsKept
<1>7. SubSeq(output', from, i) = SubSeq(output, from, i)
  BY <1>1, <1>5, PartsKept
<1>8. Cardinality({j \in LineEnds : j <= i}) \in 1 .. Len(lines)
  <2> DEFINE T == {j \in LineEnds : j <= i}
  <2>1. IsFiniteSet(1 .. Len(output))
    BY <1>1, FS_Interval
  <2>2. IsFiniteSet(LineEnds)
    BY <1>2, <2>1, FS_Subset
  <2>3. T \in SUBSET LineEnds /\ i \in T
    BY <1>2
  <2> HIDE DEF T
  <2>4. IsFiniteSet(T) /\ Cardinality(T) <= Cardinality(LineEnds)
    BY <2>2, <2>3, FS_Subset
  <2>5. Cardinality(T) \in Nat /\ Cardinality(T) # 0 /\ Cardinality(LineEnds) \in Nat
    BY <2>2, <2>3, <2>4, FS_EmptySet, FS_CardinalityType
  <2>6. Cardinality(T) \in 1 .. Len(lines)
    BY <2>4, <2>5 DEF LinesOfOutputPushed
  <2> QED
    BY <2>6 DEF T
<1> QED
  BY <1>3, <1>4, <1>6, <1>7, <1>8

\* A byte that ends no line leaves the lines as they are.
LEMMA NoLineEnded ==
  ASSUME TypeOK, NEW c \in Bytes, Read(c), Len(output) + 1 \notin LineEnds', lines' = lines,
         line' = IF c \in Chars THEN Append(line, c) ELSE line,
         LineRead, LinesOfOutputPushed
  PROVE  LineRead' /\ LinesOfOutputPushed'
<1>0. PICK n \in Nat : n = Len(output)
  BY ReadByte
<1>1. output \in Seq(Bytes) /\ output' = Append(output, c) /\ Len(output') = n + 1
  BY <1>0, ReadByte DEF TypeOK, Read
<1>2. LineEnds' = LineEnds
  BY OneMoreLineEnd
<1>3. LinesOfOutputPushed'
  <2>1. Len(lines') = Cardinality(LineEnds')
    BY <1>2 DEF LinesOfOutputPushed
  <2>2. ASSUME NEW i \in LineEnds'
        PROVE  \E from \in 1 .. i :
                 /\ LineStarts(from, i)'
                 /\ lines'[Cardinality({j \in LineEnds' : j <= i})] = Text(SubSeq(output', from, i))
    BY <1>2, EarlierLines
  <2> QED
    BY <2>1, <2>2 DEF LinesOfOutputPushed
<1>4. PICK from \in 1 .. n + 1 :
        LineStarts(from, n + 1) /\ line = Text(SubSeq(output, from, n))
  BY <1>0 DEF LineRead
<1>5. from - 1 \in LineEnds' \cup {0} /\ \A k \in from .. (n + 2) - 1 : k \notin LineEnds'
  <2>1. from - 1 \in LineEnds' \cup {0}
    BY <1>2, <1>4 DEF LineStarts
  <2>2. ASSUME NEW k \in from .. (n + 2) - 1 PROVE k \notin LineEnds'
    <3>1. k = n + 1 \/ k \in from .. (n + 1) - 1
      BY <1>0
    <3> QED
      BY <1>0, <1>2, <1>4, <3>1 DEF LineStarts
  <2> QED
    BY <2>1, <2>2
<1>6. line' = Text(SubSeq(output', from, n + 1))
  <2>1. /\ SubSeq(output, from, n) \in Seq(Bytes)
        /\ SubSeq(output', from, n + 1) = Append(SubSeq(output, from, n), c)
    BY <1>0, <1>1, PartsKept
  <2> QED
    BY <1>4, <2>1, TextAppend
<1>7. from \in 1 .. Len(output') + 1 /\ Len(output') + 1 = n + 2
  BY <1>0, <1>1
<1>8. LineRead'
  BY <1>1, <1>5, <1>6, <1>7 DEF LineRead, LineStarts
<1> QED
  BY <1>3, <1>8

\* A byte that ends a line pushes it, and the next line starts after it.
LEMMA LineEnded ==
  ASSUME TypeOK, NEW c \in Bytes \ Chars, Read(c), Len(output) + 1 \in LineEnds',
         lines' = Append(lines, line), line' = <<>>,
         LineRead, LinesOfOutputPushed
  PROVE  LineRead' /\ LinesOfOutputPushed'
<1>0. PICK n \in Nat : n = Len(output)
  BY ReadByte
<1>1. output \in Seq(Bytes) /\ output' = Append(output, c) /\ Len(output') = n + 1
  BY <1>0, ReadByte DEF TypeOK, Read
<1>2. LineEnds' = LineEnds \cup {n + 1} /\ n + 1 \notin LineEnds /\ LineEnds \subseteq 1 .. n
  BY <1>0, OneMoreLineEnd, LineEndsKept
<1>3. /\ Len(lines) \in Nat /\ Len(lines') = Len(lines) + 1
      /\ \A m \in 1 .. Len(lines) : lines'[m] = lines[m]
      /\ lines'[Len(lines) + 1] = line
  BY LenProperties, AppendProperties DEF TypeOK
<1>4. Cardinality(LineEnds') = Len(lines) + 1
  <2>1. IsFiniteSet(1 .. n)
    BY FS_Interval
  <2>2. IsFiniteSet(LineEnds)
    BY <1>2, <2>1, FS_Subset
  <2> QED
    BY <1>2, <2>2, FS_AddElement DEF LinesOfOutputPushed
<1>5. PICK from \in 1 .. n + 1 :
        LineStarts(from, n + 1) /\ line = Text(SubSeq(output, from, n))
  BY <1>0 DEF LineRead
<1>6. LineStarts(from, n + 1)'
  <2>1. n + 1 \in 1 .. Len(output) + 1
    BY <1>0
  <2>2. LineStarts(from, n + 1)' <=> LineStarts(from, n + 1)
    BY <2>1, LineStartsKept
  <2> QED
    BY <1>5, <2>2
<1>7. line = Text(SubSeq(output', from, n + 1))
  <2>1. /\ SubSeq(output, from, n) \in Seq(Bytes)
        /\ SubSeq(output', from, n + 1) = Append(SubSeq(output, from, n), c)
    BY <1>0, <1>1, PartsKept
  <2> QED
    BY <1>5, <2>1, TextAppend
<1>8. ASSUME NEW i \in LineEnds'
      PROVE  \E f \in 1 .. i :
               /\ LineStarts(f, i)'
               /\ lines'[Cardinality({j \in LineEnds' : j <= i})] = Text(SubSeq(output', f, i))
  <2>1. CASE i = n + 1
    <3>1. {j \in LineEnds' : j <= i} = LineEnds'
      <4>1. \A j \in LineEnds' : j <= n + 1
        BY <1>2
      <4> QED
        BY <2>1, <4>1
    <3> QED
      BY <1>3, <1>4, <1>6, <1>7, <2>1, <3>1
  <2>2. CASE i \in LineEnds
    BY <1>3, <2>2, EarlierLines
  <2> QED
    BY <1>2, <2>1, <2>2
<1>9. LinesOfOutputPushed'
  BY <1>3, <1>4, <1>8 DEF LinesOfOutputPushed
<1>10. LineRead'
  <2>1. n + 2 \in 1 .. Len(output') + 1 /\ (n + 2) - 1 = n + 1 /\ Len(output') + 1 = n + 2
    BY <1>1
  <2>2. n + 2 .. (n + 2) - 1 = {}
    OBVIOUS
  <2>3. (n + 2) - 1 \in LineEnds' \cup {0} /\ \A k \in n + 2 .. (n + 2) - 1 : k \notin LineEnds'
    BY <1>2, <2>1, <2>2
  <2>4. line' = Text(SubSeq(output', n + 2, Len(output')))
    <3>1. SubSeq(output', n + 2, n + 1) = <<>>
      BY <1>1, SubSeqEmpty
    <3> QED
      BY <1>1, <3>1, TextAppend
  <2> QED
    BY <2>1, <2>3, <2>4 DEF LineRead, LineStarts
<1> QED
  BY <1>9, <1>10

-----------------------------------------------------------------------------
\* A step keeps what is remembered, the line being read and the lines pushed.
LEMMA NextLines == TypeOK /\ LinesInv /\ [Next]_vars => LinesInv'
<1> SUFFICES ASSUME TypeOK, LinesInv, [Next]_vars PROVE LinesInv'
  OBVIOUS
<1>b. CR \in Bytes /\ LF \in Bytes /\ CR \notin Chars /\ LF \notin Chars /\ CR # LF /\ Chars \subseteq Bytes
  BY BytesAssumption DEF Bytes
<1>c. CrRemembered /\ (~LateLineFeed => LineRead /\ LinesOfOutputPushed)
  BY DEF LinesInv
<1>1. ASSUME NEW c \in Chars, ReadChar(c) PROVE LinesInv'
  <2>1. c \in Bytes /\ Read(c) /\ line' = Append(line, c) /\ UNCHANGED <<previousCharIsCr, lines>>
    BY <1>b, <1>1 DEF ReadChar
  <2>2. CrRemembered'
    BY <1>c, <2>1, LastEnd DEF CrRemembered
  <2>3. Len(output) + 1 \notin LineEnds'
    BY <1>b, <2>1, LineEndsKept
  <2>4. ~LateLineFeed' => LineRead' /\ LinesOfOutputPushed'
    BY <1>c, <2>1, <2>3, LateForEver, NoLineEnded
  <2> QED
    BY <2>2, <2>4 DEF LinesInv
<1>2. CASE SkipLineFeed
  <2>1. Read(LF) /\ previousCharIsCr /\ previousCharIsCr' = FALSE /\ UNCHANGED <<line, lines>>
    BY <1>2 DEF SkipLineFeed
  <2>2. CrRemembered'
    BY <1>b, <2>1, LastEnd DEF CrRemembered
  <2>3. ASSUME ~LateLineFeed' PROVE LineRead' /\ LinesOfOutputPushed'
    <3>1. Len(output) \in Nat /\ DOMAIN output = 1 .. Len(output)
          /\ DOMAIN output' = 1 .. Len(output) + 1 /\ output'[Len(output) + 1] = LF
          /\ \A i \in 1 .. Len(output) : output'[i] = output[i]
      BY <1>b, <2>1, ReadByte
    <3>2. PICK i \in 1 .. Len(output) :
            output[i] = CR /\ \A k \in i + 1 .. Len(output) : ~Ends(k)
      BY <1>c, <2>1, <3>1 DEF CrRemembered, LastEndIsCr
    <3>3. i = Len(output)
      <4> SUFFICES ASSUME i # Len(output) PROVE FALSE
        OBVIOUS
      <4>0. i < Len(output)
        <5>1. Len(output) \in Nat
          BY <3>1
        <5>2. PICK n \in Nat : n = Len(output)
          BY <5>1
        <5>3. i \in 1 .. n /\ i # n
          BY <5>2
        <5>4. i < n
          BY <5>3
        <5> QED
          BY <5>2, <5>4
      <4>1. /\ i \in 1 .. Len(output) + 1 /\ Len(output) + 1 \in 1 .. Len(output) + 1
            /\ i + 1 < Len(output) + 1 /\ (Len(output) + 1) - 1 = Len(output)
        <5>1. PICK n \in Nat : n = Len(output)
          BY <3>1
        <5>2. i \in 1 .. n /\ i < n
          BY <4>0, <5>1
        <5> QED
          BY <5>1, <5>2
      <4>2. \A k \in i + 1 .. Len(output) : output'[k] \notin {CR, LF}
        <5>1. \A k \in i + 1 .. Len(output) : k \in 1 .. Len(output)
          BY <3>1
        <5> QED
          BY <3>1, <3>2, <5>1 DEF Ends
      <4>3. output'[i] = CR
        BY <3>1, <3>2
      <4>4. LateLineFeed'
        BY <3>1, <4>1, <4>2, <4>3 DEF LateLineFeed, Ends
      <4> QED
        BY <2>3, <4>4
    <3>4. Len(output) + 1 \notin LineEnds'
      <4>1. Len(output) > 0 /\ output[Len(output)] = CR
        BY <3>1, <3>2, <3>3
      <4> QED
        BY <1>b, <2>1, <4>1, LineEndsKept
    <3>5. ~LateLineFeed
      BY <1>b, <2>1, <2>3, LateForEver
    <3> QED
      BY <1>b, <1>c, <2>1, <3>4, <3>5, NoLineEnded
  <2> QED
    BY <2>2, <2>3 DEF LinesInv
<1>3. ASSUME NEW c \in {CR, LF}, EndLine(c) PROVE LinesInv'
  <2>1. /\ c \in Bytes \ Chars /\ Read(c) /\ ~(c = LF /\ previousCharIsCr)
        /\ lines' = Append(lines, line) /\ line' = <<>> /\ previousCharIsCr' = (c = CR)
    BY <1>b, <1>3 DEF EndLine
  <2>2. CrRemembered'
    BY <1>b, <2>1, LastEnd DEF CrRemembered
  <2>3. Len(output) + 1 \in LineEnds'
    <3>1. ASSUME c = LF, Len(output) > 0, output[Len(output)] = CR PROVE FALSE
      <4>1. Len(output) \in Nat /\ DOMAIN output = 1 .. Len(output)
        BY <2>1, ReadByte
      <4>2. Len(output) \in DOMAIN output /\ Len(output) + 1 .. Len(output) = {}
        BY <3>1, <4>1
      <4>3. LastEndIsCr
        BY <3>1, <4>2 DEF LastEndIsCr
      <4> QED
        BY <1>c, <2>1, <3>1, <4>3 DEF CrRemembered
    <3> QED
      BY <1>3, <2>1, <3>1, LineEndsKept
  <2>4. ~LateLineFeed' => LineRead' /\ LinesOfOutputPushed'
    BY <1>c, <2>1, <2>3, LateForEver, LineEnded
  <2> QED
    BY <2>2, <2>4 DEF LinesInv
<1>4. CASE End \/ UNCHANGED vars
  <2>1. UNCHANGED <<output, line, previousCharIsCr, lines>>
    BY <1>4 DEF End, vars
  <2>2. UNCHANGED LineEnds
    BY <2>1 DEF LineEnds, Ends
  <2>3. CrRemembered'
    BY <1>c, <2>1 DEF CrRemembered, LastEndIsCr, Ends
  <2>4. UNCHANGED LateLineFeed
    BY <2>1 DEF LateLineFeed, Ends
  <2>5. LineRead => LineRead'
    BY <2>1, <2>2 DEF LineRead, LineStarts
  <2>6. LinesOfOutputPushed => LinesOfOutputPushed'
    BY <2>1, <2>2 DEF LinesOfOutputPushed, LineStarts
  <2> QED
    BY <1>c, <2>3, <2>4, <2>5, <2>6 DEF LinesInv
<1> QED
  BY <1>1, <1>2, <1>3, <1>4 DEF Next

\* The lines pushed are the lines of the output, however long it is, unless a
\* line that starts at a carriage return ends with a line feed.
THEOREM LinesAreSplit == Spec => []LinesSplit
<1>1. Init => LinesInv
  <2> SUFFICES ASSUME Init PROVE LinesInv
    OBVIOUS
  <2>1. output = <<>> /\ line = <<>> /\ lines = <<>> /\ Len(output) = 0 /\ Len(lines) = 0
        /\ DOMAIN output = {} /\ previousCharIsCr = FALSE
    BY EmptySeq DEF Init
  <2>2. LineEnds = {}
    BY <2>1 DEF LineEnds
  <2>3. CrRemembered
    BY <2>1 DEF CrRemembered, LastEndIsCr
  <2>4. LinesOfOutputPushed
    BY <2>1, <2>2, FS_EmptySet DEF LinesOfOutputPushed
  <2>5. LineRead
    <3>1. SubSeq(output, 1, Len(output)) = <<>>
      BY <2>1, SubSeqEmpty
    <3>2. line = Text(SubSeq(output, 1, Len(output)))
      BY <2>1, <3>1, TextAppend, EmptySeq DEF Bytes
    <3>3. 1 \in 1 .. Len(output) + 1 /\ LineStarts(1, Len(output) + 1)
      BY <2>1, <2>2 DEF LineStarts
    <3> QED
      BY <3>2, <3>3 DEF LineRead
  <2> QED
    BY <2>3, <2>4, <2>5 DEF LinesInv
<1>2. LinesInv => LinesSplit
  BY DEF LinesInv, LinesSplit
<1> QED
  BY <1>1, <1>2, NextLines, TypeCorrect, PTL DEF Spec
=============================================================================
