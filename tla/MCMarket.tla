------------------------------ MODULE MCMarket ------------------------------
(***************************************************************************)
(* Constant values for checking Market with TLC.                           *)
(***************************************************************************)
EXTENDS Market

\* A quarter of an XMR per XNO, and moves of three per cent and of ten.
Around == {970, 1000, 1003, 1100}
=============================================================================
