---------------------------- MODULE MCMakerAgent ----------------------------
(***************************************************************************)
(* Constant values for checking MakerAgent with TLC.                       *)
(***************************************************************************)
EXTENDS MakerAgent

CONSTANTS t1, t2, p1, p2

Two == {t1, t2}
OneProc == {p1}
TwoProcs == {p1, p2}
CronSeller == {[watch |-> FALSE, isA |-> TRUE]}
TwoMakers == {[watch |-> TRUE, isA |-> TRUE], [watch |-> FALSE, isA |-> FALSE]}
First == {t1}
NoWindow == {{}}
FaultSets == {{}, {"relay"}, {"lock"}, {"gap", "reuse", "abandon", "unopened", "torn"}}

\* One block and one taker are enough for a tick over a live one, one block for
\* the other faults of a settlement; the price moves over a single block.
Bounded ==
    /\ windows \subseteq {"relay"} \/ posted < 2
    /\ "lock" \in windows => taker[t1].pc = "idle"
    /\ (\E p \in Procs : proc[p].pr = "good") => windows = {} /\ posted < 2
=============================================================================
