----------------------------- MODULE MCDexRelay -----------------------------
(***************************************************************************)
(* Constant values for checking DexRelay with TLC.                          *)
(***************************************************************************)
EXTENDS DexRelay

CONSTANTS ra, rb, w, o1, o2

Two == {ra, rb}
OneDials == [r \in Relays |-> IF r = rb THEN {ra} ELSE {}]
Page == {w}
Both == {o1, o2}

\* One order dies within the horizon, the other after it.
Lives == [o \in Orders |-> IF o = o1 THEN 1 ELSE 2]

Calm == {{}}
Rough == {{}, {"full", "burst"}}
=============================================================================
