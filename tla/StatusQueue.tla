---------------------------- MODULE StatusQueue ----------------------------
(***************************************************************************)
(* What the agent promises about the OpenVPN status rows of one file: a    *)
(* FIFO queue.  The collector adds rows at the end; a status request takes *)
(* the oldest rows, at most MaxLines of them, and hands them to its        *)
(* client.  A lossy queue may also forget rows at either end, but it never *)
(* reorders, duplicates or invents one.                                    *)
(***************************************************************************)
EXTENDS Integers, Sequences

CONSTANTS Files,      \* The configured status files.
          Row,        \* The rows the queue may hold.
          MaxLines,   \* Rows a request takes at most.
          Lossy       \* Whether rows may be forgotten.

VARIABLES pending,    \* pending[f]: rows collected and not handed out.
          answered    \* answered[f]: rows handed out, in order.

vars == <<pending, answered>>

Oldest(f) == IF Len(pending[f]) < MaxLines THEN Len(pending[f]) ELSE MaxLines

Init == /\ pending = [f \in Files |-> <<>>]
        /\ answered = [f \in Files |-> <<>>]

Collect(f) ==
  /\ \E row \in Row : pending' = [pending EXCEPT ![f] = Append(@, row)]
  /\ UNCHANGED answered

Answer(f) ==
  /\ answered' = [answered EXCEPT ![f] = @ \o SubSeq(pending[f], 1, Oldest(f))]
  /\ pending' = [pending EXCEPT ![f] = SubSeq(@, Oldest(f) + 1, Len(@))]

\* Forgetting keeps one run of consecutive rows.
Lose(f) ==
  /\ Lossy
  /\ \E i \in 1 .. Len(pending[f]) + 1, j \in 0 .. Len(pending[f]) :
       pending' = [pending EXCEPT ![f] = SubSeq(@, i, j)]
  /\ UNCHANGED answered

Next == \E f \in Files : Collect(f) \/ Answer(f) \/ Lose(f)

Spec == Init /\ [][Next]_vars
=============================================================================
