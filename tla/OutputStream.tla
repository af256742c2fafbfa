---------------------------- MODULE OutputStream ----------------------------
(***************************************************************************)
(* What the agent promises the client of a WebSocket: a stream of lines.   *)
(* Handlers push lines at one end; the client gets every line pushed, in   *)
(* the order they were pushed, and the stream is closed only after it has  *)
(* been told to finish and the client has got all there is.  A client that *)
(* goes away gets nothing more.                                            *)
(***************************************************************************)
EXTENDS Sequences

CONSTANTS Line        \* The lines a handler may push.

VARIABLES pushed,     \* The lines pushed, in order,
          delivered,  \* those the client has got,
          told,       \* whether the stream is to finish, and
          state       \* "new", "open", "closed", or "lost" by its client.

vars == <<pushed, delivered, told, state>>

Init == pushed = <<>> /\ delivered = <<>> /\ told = FALSE /\ state = "new"

\* A request for a stream may fail to get one.
Open == /\ state = "new"
        /\ state' \in {"open", "lost"}
        /\ UNCHANGED <<pushed, delivered, told>>

\* Lines may be pushed to a stream that is no longer read.
Push == /\ state # "new"
        /\ \E line \in Line : pushed' = Append(pushed, line)
        /\ UNCHANGED <<delivered, told, state>>

Finish == /\ told' = TRUE
          /\ UNCHANGED <<pushed, delivered, state>>

Deliver == /\ state = "open" /\ (delivered # pushed \/ told)
           /\ delivered' = pushed
           /\ state' = IF told THEN "closed" ELSE "open"
           /\ UNCHANGED <<pushed, told>>

Lose == /\ state = "open" /\ state' = "lost"
        /\ UNCHANGED <<pushed, delivered, told>>

Next == Open \/ Push \/ Finish \/ Deliver \/ Lose

Spec == Init /\ [][Next]_vars
=============================================================================
