-------------------------- MODULE MCTaskAuthority --------------------------
(* Instances of TaskAuthority for TLC. *)
EXTENDS TaskAuthority

CONSTANTS c1, c2, t1, t2, f1, f2

Request(id, rest) == [rid |-> id, target |-> t1, rest |-> rest]

(* One authority and its replacement, requests under two ids. *)
Interrupted ==
  [fresh |-> {f1}, requests |-> {Request("r1", "x"), Request("r2", "x")},
   plan |-> <<"read", "read">>, allowed |-> {"read"}, policed |-> {}, targets |-> {t1},
   breaks |-> 2, drops |-> 1]

(* Two authorities with an explicit ceiling, stranded at a time, and        *)
(* requests under one id.                                                   *)
SharedId ==
  [fresh |-> {f1, f2}, requests |-> {Request("r1", "x"), Request("r1", "y")},
   plan |-> <<"navigate">>, allowed |-> {"read", "navigate"}, policed |-> {}, targets |-> {t1},
   breaks |-> 2, drops |-> 0]

(* A reconciliation whose page comes and goes. *)
Wandering ==
  [fresh |-> {f1}, requests |-> {Request("r1", "x")},
   plan |-> <<"read">>, allowed |-> {"read"}, policed |-> {}, targets |-> {t1, t2},
   breaks |-> 2, drops |-> 0]

(* A policed step and one above the ceiling, with two targets. *)
Confirming ==
  [fresh |-> {f1, f2}, requests |-> {},
   plan |-> <<"read", "tab">>, allowed |-> {"read"}, policed |-> {"read"}, targets |-> {t1, t2},
   breaks |-> 0, drops |-> 0]

(* Two steps above the ceiling; a confirmed command may be abandoned. *)
Abandoned ==
  [fresh |-> {f1}, requests |-> {},
   plan |-> <<"tab", "navigate">>, allowed |-> {"read"}, policed |-> {"navigate"},
   targets |-> {t1, t2}, breaks |-> 1, drops |-> 1]

MCScenarios == {Interrupted, SharedId, Wandering, Confirming, Abandoned}
=============================================================================
