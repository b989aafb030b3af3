--------------------------- MODULE MCServiceStore ---------------------------
(* Instances of ServiceStore for TLC. *)
EXTENDS ServiceStore

CONSTANTS r1, m1, m2, d1, l1, a, b

(* Reader and one mutation in one process, the others in another. *)
MCProcessOf == [t \in Calls |-> IF t \in {r1, m1} THEN a ELSE b]
=============================================================================
