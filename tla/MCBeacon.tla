------------------------------ MODULE MCBeacon ------------------------------
(***************************************************************************)
(* Constant values for checking Beacon with TLC.                           *)
(***************************************************************************)
EXTENDS Beacon, TLC

CONSTANTS n1, n2, liar

Three == {n1, n2, liar}
OneLiar == {liar}
Rough == {{}, {"overlap"}, {"lag"}, {"lie"}, {"deaf"}, {"echo"}, {"minus"}}

\* Where a lying node says most, one intent beside the message is enough.
Bounded == windows \cap {"echo", "minus"} # {} => ids <= 1

Off == {0, 2}
Sym == Permutations({n1, n2})
=============================================================================
