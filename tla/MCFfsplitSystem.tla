---------------------------- MODULE MCFfsplitSystem ----------------------------
(* A two-node cluster and its qnetd.                                        *)
EXTENDS FfsplitSystem

MCTieBreaker == [mode |-> "lowest", id |-> 1]
MCRings      == 1 .. MaxRing
MCNodeLists  == (SUBSET Nodes) \ {{}}
=============================================================================
