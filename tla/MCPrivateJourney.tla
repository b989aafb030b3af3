--------------------------- MODULE MCPrivateJourney ---------------------------
(* Instances of PrivateJourney for TLC. *)
EXTENDS PrivateJourney, TLC

CONSTANTS r1, r2, r3, k1

(* Two connections for one plan, and a second plan with a consent and a     *)
(* source slot of its own; all bring the same backup code.                  *)
MCPlanOf == (r1 :> "p1") @@ (r2 :> "p1") @@ (r3 :> "p2")
MCConsentOf == ("p1" :> "c1") @@ ("p2" :> "c2")
MCSourceOf == ("p1" :> "s1") @@ ("p2" :> "s2")
MCCodeOf == [r \in Runs |-> "x"]

(* The connections for the first plan are interchangeable. *)
MCSymmetry == Permutations({r1, r2})
=============================================================================
