----------------------------- MODULE JobService -----------------------------
(***************************************************************************)
(* What the control plane promises its callers, whatever queues, journals  *)
(* and tasks it uses to keep the promise: a serial executor.  A request is *)
(* accepted once, executed at most once and never together with another;   *)
(* its caller is told something at most once, never before acceptance; a   *)
(* command is not started once its caller has been told, and the executor  *)
(* does not move on before the caller of the command it ran is told.       *)
(***************************************************************************)
CONSTANTS Requests, None

VARIABLES
  accepted,   \* requests the service has taken charge of
  started,    \* requests whose command has been started
  exec,       \* the request being executed, or None
  told        \* requests whose caller has been answered

vars == <<accepted, started, exec, told>>

Init ==
  /\ accepted = {}
  /\ started = {}
  /\ exec = None
  /\ told = {}

Accept(r) ==
  /\ r \notin accepted
  /\ accepted' = accepted \cup {r}
  /\ UNCHANGED <<started, exec, told>>

(* Turned away at the door: accepted and told in one step. *)
Refuse(r) ==
  /\ r \notin accepted
  /\ accepted' = accepted \cup {r}
  /\ told' = told \cup {r}
  /\ UNCHANGED <<started, exec>>

Start(r) ==
  /\ r \in accepted /\ r \notin started /\ r \notin told
  /\ exec = None
  /\ started' = started \cup {r}
  /\ exec' = r
  /\ UNCHANGED <<accepted, told>>

Tell(r) ==
  /\ r \in accepted /\ r \notin told
  /\ told' = told \cup {r}
  /\ UNCHANGED <<accepted, started, exec>>

(* The command is over: its caller knows already, or learns it now. *)
Finish(r) ==
  /\ exec = r
  /\ exec' = None
  /\ told' = told \cup {r}
  /\ UNCHANGED <<accepted, started>>

Next ==
  \E r \in Requests : Accept(r) \/ Refuse(r) \/ Start(r) \/ Tell(r) \/ Finish(r)

Spec == Init /\ [][Next]_vars
=============================================================================
