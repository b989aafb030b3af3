--------------------------- MODULE MCCdpTransport ---------------------------
(***************************************************************************)
(* Instances of CdpTransport for TLC.                                      *)
(***************************************************************************)
EXTENDS CdpTransport

CONSTANTS c1, c2, w1, k1, k2, e1, e2

(* Two closers with the permits of two epochs. *)
MCBindingOf == [k \in Closers |-> IF k = k1 THEN e1 ELSE e2]
=============================================================================
