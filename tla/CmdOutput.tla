----------------------------- MODULE CmdOutput -----------------------------
(***************************************************************************)
(* How run_cmd_ws turns the output of a command, read byte by byte, into   *)
(* the lines it pushes to a WebSocket.  A line ends at a carriage return,  *)
(* as in a progress report, or at a line feed; a line feed that comes      *)
(* after a carriage return is not to end another, empty, line.             *)
(***************************************************************************)
EXTENDS Integers, Sequences, SequencesExt, FiniteSets

CONSTANTS Chars,      \* The bytes that end no line.
          CR, LF,     \* Carriage return, line feed.
          MaxOutput   \* Bytes a command writes at most (bound).

ASSUME BytesAssumption == CR \notin Chars /\ LF \notin Chars /\ CR # LF
ASSUME OutputAssumption == MaxOutput \in Nat

Bytes == Chars \cup {CR, LF}

VARIABLES output,             \* History: the bytes read.
          line,               \* line_u8: the line being read.
          previousCharIsCr,   \* previous_char_is_cr.
          lines,              \* The lines pushed.
          ended               \* Whether the reading has ended.

vars == <<output, line, previousCharIsCr, lines, ended>>

TypeOK == /\ output \in Seq(Bytes)
          /\ line \in Seq(Chars)
          /\ previousCharIsCr \in BOOLEAN
          /\ lines \in Seq(Seq(Chars))
          /\ ended \in BOOLEAN

Init == /\ output = <<>> /\ line = <<>> /\ lines = <<>>
        /\ previousCharIsCr = FALSE
        /\ ended = FALSE

Read(c) == /\ ~ended /\ Len(output) < MaxOutput
           /\ output' = Append(output, c)
           /\ UNCHANGED ended

\* An ordinary byte joins the line; previous_char_is_cr stays as it was.
ReadChar(c) == /\ Read(c)
               /\ line' = Append(line, c)
               /\ UNCHANGED <<previousCharIsCr, lines>>

\* Slip: the line feed that is skipped takes the line read so far with it.
SkipLineFeedAndLine == /\ Read(LF) /\ previousCharIsCr
                       /\ previousCharIsCr' = FALSE
                       /\ line' = <<>>
                       /\ UNCHANGED lines

\* A line feed after a carriage return is skipped.
SkipLineFeed == /\ Read(LF) /\ previousCharIsCr
                /\ previousCharIsCr' = FALSE
                /\ UNCHANGED <<line, lines>>

\* Slip: the carriage return is not remembered.
EndLineForgettingCr(c) == /\ Read(c) /\ ~(c = LF /\ previousCharIsCr)
                          /\ lines' = Append(lines, line)
                          /\ line' = <<>>
                          /\ previousCharIsCr' = FALSE

\* Slip: the byte joins the line before it is looked at.
EndLineWithItsEnd(c) == /\ Read(c) /\ ~(c = LF /\ previousCharIsCr)
                        /\ lines' = Append(lines, Append(line, c))
                        /\ line' = <<>>
                        /\ previousCharIsCr' = (c = CR)

\* Any other line end pushes the line and starts the next one.
EndLine(c) == /\ Read(c) /\ ~(c = LF /\ previousCharIsCr)
              /\ lines' = Append(lines, line)
              /\ line' = <<>>
              /\ previousCharIsCr' = (c = CR)

\* The command closes its output, or reading it fails: the loop ends.
End == /\ ~ended
       /\ ended' = TRUE
       /\ UNCHANGED <<output, line, previousCharIsCr, lines>>

Next == \/ \E c \in Chars : ReadChar(c)
        \/ SkipLineFeed
        \/ \E c \in {CR, LF} : EndLine(c)
        \/ End

Spec == Init /\ [][Next]_vars

-----------------------------------------------------------------------------
(* Properties. *)

Ends(i) == output[i] \in {CR, LF}

\* The bytes of s that end no line.
Text(s) == FlattenSeq([i \in 1 .. Len(s) |-> IF s[i] \in Chars THEN <<s[i]>> ELSE <<>>])

\* Where the lines of the output end: at a carriage return, a line feed, or
\* the two together.
LineEnds == {i \in DOMAIN output :
               Ends(i) /\ ~(output[i] = LF /\ i > 1 /\ output[i - 1] = CR)}

\* Whether the line that byte i belongs to, or would, starts at byte from.
LineStarts(from, i) == /\ from - 1 \in LineEnds \cup {0}
                       /\ \A k \in from .. i - 1 : k \notin LineEnds

\* The lines pushed are the lines of the output: for each line end in turn, the
\* text from the end before it.  run_cmd_ws says that "we avoid adding an empty
\* line when we found a sequence of '\r' and '\n' characters" -- an empty line, so
\* every other line is added; this is not so of every output (see LateLineFeed).
LinesOfOutputPushed ==
  /\ Len(lines) = Cardinality(LineEnds)
  /\ \A i \in LineEnds : \E from \in 1 .. i :
       /\ LineStarts(from, i)
       /\ lines[Cardinality({j \in LineEnds : j <= i})] = Text(SubSeq(output, from, i))

\* Until the output ends, no byte of text is lost, duplicated or moved: the
\* lines pushed and the one being read are the text of the output.
NothingLost == FlattenSeq(lines) \o line = Text(output)

\* Whether some line feed follows a carriage return with only text between.
LateLineFeed ==
  \E i, j \in DOMAIN output :
    /\ i + 1 < j /\ output[i] = CR /\ output[j] = LF
    /\ \A k \in i + 1 .. j - 1 : ~Ends(k)

\* The lines pushed are the lines of the output, whatever mixture of carriage
\* returns, line feeds and pairs of them the command writes, as long as no line
\* that starts at a carriage return ends with a line feed.
LinesSplit == ~LateLineFeed => LinesOfOutputPushed
=============================================================================
