----------------------------- MODULE AtomicSwap -----------------------------
(***************************************************************************)
(* What a NearInstant swap promises, with no protocol in it: two legs and  *)
(* the order in which they may move.  The Nano leg goes from its owner     *)
(* (party A) into a joint account and from there to exactly one of B (the  *)
(* claim) and A (the refund).  The Monero leg is locked by B only while    *)
(* the Nano is in the joint account or after it left, and is spent by the  *)
(* party that did NOT get the Nano: by A after the claim, by B after the   *)
(* refund.  README.md: "Either the swap completes for both sides, or it    *)
(* unwinds and both sides recover."                                        *)
(***************************************************************************)
VARIABLES xno,   \* "home" -> "joint" -> "claimed" | "refunded"
          xmr    \* "home" -> "joint" -> "swept" | "recovered"

vars == <<xno, xmr>>

Init == xno = "home" /\ xmr = "home"

FundXno == xno = "home" /\ xno' = "joint" /\ UNCHANGED xmr

\* B may be late: it can lock after the refund landed, never before the funding.
LockXmr == xmr = "home" /\ xno # "home" /\ xmr' = "joint" /\ UNCHANGED xno

\* The claim is possible only while B's Monero stands in the joint address.
Claim == xno = "joint" /\ xmr = "joint" /\ xno' = "claimed" /\ UNCHANGED xmr

Refund == xno = "joint" /\ xno' = "refunded" /\ UNCHANGED xmr

Sweep == xno = "claimed" /\ xmr = "joint" /\ xmr' = "swept" /\ UNCHANGED xno

Recover == xno = "refunded" /\ xmr = "joint" /\ xmr' = "recovered" /\ UNCHANGED xno

Next == FundXno \/ LockXmr \/ Claim \/ Refund \/ Sweep \/ Recover

Spec == Init /\ [][Next]_vars
=============================================================================
