------------------------- MODULE MCRemoteViewRoutes -------------------------
(* Instances of RemoteViewRoutes for TLC. *)
EXTENDS RemoteViewRoutes

CONSTANTS a, b

(* Three opens, one at a time, and a fault. *)
Calm == [opens |-> 3, entries |-> Entries, overlap |-> 1, split |-> FALSE, misses |-> FALSE,
         faults |-> 1, crashes |-> BeforeCheckout, releases |-> 0, parking |-> FALSE,
         forced |-> FALSE, repairs |-> FALSE]

(* Three opens, one at a time, and a release. *)
Operated == [Calm EXCEPT !.faults = 0, !.releases = 1]

(* Two opens that overlap on a pool of one entry. *)
Contended == [Calm EXCEPT !.opens = 2, !.entries = {1}, !.overlap = 2, !.faults = 0,
                          !.releases = 1, !.parking = TRUE, !.repairs = TRUE]

(* What may be done to the records, one at a time. *)
Rough == [Calm EXCEPT !.opens = 2, !.crashes = Steps, !.releases = 1, !.forced = TRUE, !.repairs = TRUE]

(* Three opens, one at a time, and probes that running browsers do not answer. *)
Unanswered == [Calm EXCEPT !.misses = TRUE, !.faults = 0]

(* Opens and closes between a reconciliation's read, which may miss a browser, and its write. *)
Overtaken == [Calm EXCEPT !.opens = 2, !.entries = {1}, !.split = TRUE, !.misses = TRUE, !.faults = 0]

MCScenarios == {Calm, Operated, Contended, Rough, Unanswered, Overtaken}
=============================================================================
