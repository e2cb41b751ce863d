--------------------------- MODULE MCRunLifecycle ---------------------------
(***************************************************************************)
(* Small workflows for checking RunLifecycle.                              *)
(***************************************************************************)
EXTENDS RunLifecycle, TLC

CONSTANTS n1, n2, end

(* Two nodes in a row: n1, then n2, then the end.                          *)
Chain == [n \in Nodes |-> IF n = n1 THEN <<n2>> ELSE <<end>>]

(* A review loop: n1 chooses between another visit to itself and n2.       *)
Loop == [n \in Nodes |-> IF n = n1 THEN <<n1, n2>> ELSE <<end>>]

(* Nothing tells one answer from another before it is given.               *)
Symmetry == Permutations(Requests)
=============================================================================
