--------------------------- MODULE MCSwapMachine ---------------------------
(***************************************************************************)
(* Constant values for checking SwapMachine with TLC: an uneven schedule,  *)
(* so that the chunk in flight and the largest chunk differ.               *)
(***************************************************************************)
EXTENDS SwapMachine

TwoChunks == <<2, 3>>
ThreeChunks == <<2, 3, 1>>
=============================================================================
