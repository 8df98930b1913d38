--------------------------- MODULE HeuristicsPromise ---------------------------
(***************************************************************************)
(* What heuristics promise to the device: a request to run the configured  *)
(* commands is answered at most once and only as long as it is the latest  *)
(* one, and the answer is about the commands that were configured when the *)
(* request was made.  Pass means that every one of them succeeded, in a    *)
(* process that was started for this request.                              *)
(***************************************************************************)
EXTENDS Naturals

CONSTANT Names     \* of commands

VARIABLES
    request,  \* number of the latest request
    wanted,   \* the commands configured when it was made
    passed,   \* those of them that succeeded
    answer    \* "none" until it is answered

promiseVars == <<request, wanted, passed, answer>>

Init ==
    /\ request = 0
    /\ wanted = {}
    /\ passed = {}
    /\ answer = "none"

Ask(S) ==
    /\ request' = request + 1
    /\ wanted' = S
    /\ passed' = {}
    /\ answer' = "none"

Succeed(n) ==
    /\ passed' = passed \cup {n}
    /\ UNCHANGED <<request, wanted, answer>>

Answer(r) ==
    /\ answer = "none" /\ request > 0
    /\ (r = "DISABLED") = (wanted = {})
    /\ r = "PASS" => wanted \subseteq passed
    /\ answer' = r
    /\ UNCHANGED <<request, wanted, passed>>

Next ==
    \/ \E S \in SUBSET Names : Ask(S)
    \/ \E n \in Names : Succeed(n)
    \/ \E r \in {"PASS", "FAIL", "DISABLED"} : Answer(r)

Spec == Init /\ [][Next]_promiseVars
=============================================================================
