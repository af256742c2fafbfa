--------------------------- MODULE MCManagedFiles ---------------------------
(***************************************************************************)
(* Small instances of ManagedFiles: an upload, a removal and a digest      *)
(* request of one kind, and an upload of another.  File names other than   *)
(* the script's are interchangeable, and so are the directories.           *)
(***************************************************************************)
EXTENDS ManagedFiles, TLC

CONSTANTS own, foreign, u2

MCKind == [r \in Requests |-> IF r = u2 THEN foreign ELSE own]

Symmetry == Permutations(Names \ {ScriptName}) \cup Permutations(Dirs)
=============================================================================
