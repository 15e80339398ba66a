----------------------------- MODULE MCTwoParty -----------------------------
(***************************************************************************)
(* Constant values for checking TwoParty with TLC.                         *)
(***************************************************************************)
EXTENDS TwoParty

Both(a, b) == [p \in {"A", "B"} |-> IF p = "A" THEN a ELSE b]

\* Agent: who runs each side.
CliCli == Both("cli", "cli")
CliBrowser == Both("cli", "browser")
BrowserCli == Both("browser", "cli")
BrowserBrowser == Both("browser", "browser")

\* MaxCrashes
NoCrash == Both(0, 0)
OnlyA == Both(1, 0)
OnlyB == Both(0, 1)
OneEach == Both(1, 1)
TwoEach == Both(2, 2)
=============================================================================
