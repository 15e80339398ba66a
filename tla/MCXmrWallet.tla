---------------------------- MODULE MCXmrWallet -----------------------------
(***************************************************************************)
(* Constant values for checking XmrWallet with TLC.                        *)
(***************************************************************************)
EXTENDS XmrWallet

CONSTANTS tick, user, swap

OneTick == {tick}
TwoCalls == {user, swap}
\* Each window alone, and the rescan beside the tick.
Every == {{}, {"overlap"}, {"calls"}, {"lock"}, {"rescan"}, {"store"}, {"torn"},
          {"overlap", "rescan"}}
One == {1}
Two == {2}
=============================================================================
