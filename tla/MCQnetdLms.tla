------------------------------ MODULE MCQnetdLms ------------------------------
(* Three nodes with lms, two with 2nodelms; rings of all, two and one node. *)
EXTENDS QnetdLms

MCConfigured == [a \in {"lms", "2nodelms"} |-> IF a = "lms" THEN {1, 2, 3} ELSE {1, 2}]
MCRings      == <<{1, 2, 3}, {1, 2}, {3}, {1}>>
MCTieBreaker == [mode |-> "lowest", id |-> 1]
=============================================================================
