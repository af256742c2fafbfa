---------------------------- MODULE MCWebSockets ----------------------------
(***************************************************************************)
(* Small instances of WebSockets.  WebSockets are interchangeable, and so  *)
(* are workers; the requests differ by their kind.                         *)
(***************************************************************************)
EXTENDS WebSockets, TLC

Symmetry == Permutations(Sockets) \cup Permutations(Workers) \cup Permutations(Scripts)
=============================================================================
