-------------------------- MODULE MCDaemonLifecycle --------------------------
(* Instances of DaemonLifecycle for TLC: ca runs and spawns the old build,   *)
(* cb the new one.                                                          *)
EXTENDS DaemonLifecycle

CONSTANTS ca, cb

Plain == [kind |-> [c \in Clients |-> "work"], cold |-> [c \in Clients |-> FALSE],
          build |-> [c \in Clients |-> IF c = ca THEN "old" ELSE "new"],
          slow |-> TRUE, daemons |-> 2, browsers |-> 2, tries |-> 2,
          crashes |-> 0, stops |-> 0]

(* Two builds take turns on a session. *)
Replacing == Plain

(* A cold start beside a client that asks for a hand-over. *)
ColdBesidePrepare ==
    [Plain EXCEPT !.cold = [c \in Clients |-> c = ca], !.kind[cb] = "prepare",
                  !.daemons = 3, !.crashes = 1, !.stops = 1]

(* A replacement and a close, when every start is in time. *)
InTime == [Plain EXCEPT !.kind[cb] = "close", !.slow = FALSE, !.browsers = 1, !.tries = 1]

MCScenarios == {Replacing, ColdBesidePrepare, InTime}
=============================================================================
