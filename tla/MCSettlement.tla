--------------------------- MODULE MCSettlement ---------------------------
(***************************************************************************)
(* Three nodes, one of which reports confirmations as it likes, a quorum   *)
(* of two: a quorum can be met with and without the liar, and a node can   *)
(* be missed by each broadcast.                                            *)
(***************************************************************************)
EXTENDS Settlement

CONSTANTS n1, n2, n3

ThreeNodes == {n1, n2, n3}
OneLiar == {n3}
=============================================================================
