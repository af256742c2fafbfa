-------------------------- MODULE MCOpenVPNStatus --------------------------
(***************************************************************************)
(* Small instances of OpenVPNStatus: what OpenVPN may leave in a status    *)
(* file in each of them, and the symmetry of the requests.                 *)
(***************************************************************************)
EXTENDS OpenVPNStatus, FiniteSets, TLC

Symmetry == Permutations(Requests)

File(head, rows) == [head |-> head, rows |-> rows]

\* A server with one client or two; a file without its "Updated" line; a row
\* that makes the collector panic, one that ends the sampling with an error, and
\* one whose date does not parse.
MCReadable == {File("ok", rows) : rows \in {<<"client">>, <<"client", "client">>}}
MCBad == File("bad", <<>>)
MCShortRow == File("ok", <<"client", "short">>)
MCGarbledRow == File("ok", <<"client", "garbled">>)
MCBadDate == File("ok", <<"badDate", "client">>)

MCPlainContents == MCReadable \cup {MCBad, File("absent", <<>>), MCBadDate}
MCFaultyContents == {File("ok", <<"client", "client">>), MCBad, MCShortRow,
                     File("short", <<>>), File("garbled", <<>>)}
MCGarbledContents == MCReadable \cup {MCGarbledRow}
MCLiveContents == {File("ok", <<"client">>), File("ok", <<"garbled">>), MCShortRow}
=============================================================================
