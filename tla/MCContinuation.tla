--------------------------- MODULE MCContinuation ---------------------------
(* Small instances of Continuation. *)
EXTENDS Continuation

CONSTANTS r0, r1, r2

TwoEarlier == <<r0, r1>>

\* r2 starts in the millisecond of r1, and has the smaller id.
Stamps == [r \in Run |-> IF r = r0 THEN 0 ELSE 1]
Ranks  == [r \in Run |-> CASE r = r0 -> 0 [] r = r2 -> 1 [] OTHER -> 2]

=============================================================================
