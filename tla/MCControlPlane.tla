--------------------------- MODULE MCControlPlane ---------------------------
(* Small instances of ControlPlane for TLC. *)
EXTENDS ControlPlane

CONSTANTS r1, r2, m1, p1, p2, j1, j2, jm

(* Every request has a journal record of its own. *)
MCJobOf == [r \in JobRequests |-> CASE r = r1 -> j1 [] r = r2 -> j2
                                    [] r = m1 -> jm]
=============================================================================
