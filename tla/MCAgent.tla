------------------------------ MODULE MCAgent ------------------------------
(***************************************************************************)
(* A small instance of Agent: what the administrator may write.            *)
(***************************************************************************)
EXTENDS Agent, TLC

CONSTANTS a, b, k1, k2

Symmetry == Permutations(Keys)

\* A number that is missing, no number, zero, one, in range, and out of its range
\* or of its type.
MCNumbers == {Unset, Garbage, 0, 1, 2000, 70000}

MCLists == {<<>>, <<a>>, <<a, Space, b>>, <<a, b>>, <<b, Space, a, Space>>, <<Space, a>>,
            <<a, Space, Space, b>>, <<Junk>>}

MCTexts == [s \in Settings |->
              CASE s \in {"BIND_PORT", "WORKERS"} -> MCNumbers
                [] s \in Numbers -> {Unset, 0, 70000}
                [] s \in Checked -> {Unset, "bad"}
                [] s = "ENABLE_API_KEY" -> {Unset, Garbage, "true", "false"}
                [] s = "API_KEY" -> {Unset, BadKey, k1, k2}
                [] s = "ALLOWED_IPS" -> MCLists]
=============================================================================
