---------------------------- MODULE MCQnetdFfsplit ----------------------------
(***************************************************************************)
(* qnetd with clients that send any message at any time.  What a message   *)
(* in a send buffer says does not influence qnetd any more, so states that *)
(* differ only in that are identified: the view keeps the number of        *)
(* buffers in use.                                                         *)
(***************************************************************************)
EXTENDS QnetdFfsplit

MCTieBreaker == [mode |-> "lowest", id |-> 1]

BuffersInUse ==
    <<clients, report, algo, clusterState, quorate, lastVote,
      [n \in Nodes |-> Len(toClient[n])], scheduled, aborted>>
=============================================================================
