--------------------------- MODULE MCPrivacyGate ---------------------------
(* Model values for the TLC run of PrivacyGate.  Connections, commands and  *)
(* private tasks are interchangeable, and only safety is checked.           *)
EXTENDS PrivacyGate, TLC

CONSTANTS k1, k2, c1, c2, p1, p2

MCSymmetry ==
  Permutations(Clients) \cup Permutations(Commands) \cup Permutations(Permits)
=============================================================================
