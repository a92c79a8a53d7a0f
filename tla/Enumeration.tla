----------------------------- MODULE Enumeration -----------------------------
(***************************************************************************)
(* What a path operator promises its parent: between two resets it hands   *)
(* out the answers to its input one by one, none twice, and it says that   *)
(* there are no more only when it has handed out all of them.              *)
(***************************************************************************)
CONSTANTS Inputs, Expected

VARIABLES input, reported, status

vars == <<input, reported, status>>

Init ==
    /\ input \in Inputs
    /\ reported = {}
    /\ status = "open"

Report(a) ==
    /\ status = "open"
    /\ a \in Expected[input] \ reported
    /\ reported' = reported \cup {a}
    /\ status' \in {"open", "done"}
    /\ status' = "done" => reported' = Expected[input]
    /\ UNCHANGED input

Finish ==
    /\ status = "open"
    /\ reported = Expected[input]
    /\ status' = "done"
    /\ UNCHANGED <<input, reported>>

\* An exception ends the query, whatever was reported.
Abort ==
    /\ status' = "aborted"
    /\ UNCHANGED <<input, reported>>

Restart(i) ==
    /\ input' = i
    /\ reported' = {}
    /\ status' = "open"

Next ==
    \/ \E a \in Expected[input] : Report(a)
    \/ Finish
    \/ Abort
    \/ \E i \in Inputs : Restart(i)

Spec == Init /\ [][Next]_vars
=============================================================================
