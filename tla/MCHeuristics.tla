----------------------------- MODULE MCHeuristics -----------------------------
(* Two commands and two processes at most, so that a process which outlives  *)
(* its execution leaves no room for the next one.                            *)
EXTENDS Heuristics

Conf(m, l) == [mode |-> m, list |-> l]

MCConfs == {Conf("enabled", <<"a", "b">>), Conf("sync", <<"a">>),
            Conf("enabled", <<>>)}
=============================================================================
