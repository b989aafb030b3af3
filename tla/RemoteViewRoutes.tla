-------------------------- MODULE RemoteViewRoutes --------------------------
(***************************************************************************)
(* Route-bound remote-view opens.  A pool entry stands for one remote       *)
(* desktop: its route, its display and the display allocation named after   *)
(* them have the entry's number.  An open plans on a snapshot of the         *)
(* service state, then reserves, launches, checks out and finalizes in       *)
(* separate transactions; a failed open puts back the records its lease      *)
(* remembers.  Closes, releases, the pool repair and the reconciliation      *)
(* write the same records.  A session has one browser, and its daemon runs   *)
(* one command at a time.                                                    *)
(***************************************************************************)
EXTENDS Integers, FiniteSets

CONSTANTS
    None,
    Sessions,
    Entries,        \* pool entries, in the order of their identifiers
    MaxOpens,       \* bound: opens that reach their reservation, in any scenario
    Scenarios       \* what happens to the pool: see Scenario

(* The steps of an open.  Its records name it as the owner from the checkout, which ends *)
(* the step "checkout", until the lease is finalized or its rollback is cleaned up.      *)
Steps == {"idle", "begin", "launch", "checkout", "complete", "cleanup"}
BeforeCheckout == {"idle", "begin", "launch", "checkout"}

(* A behaviour belongs to one scenario, chosen at its start. *)
Scenario ==
    [opens    : 1 .. MaxOpens,      \* bound: opens that reach their reservation
     entries  : SUBSET Entries,     \* the entries of the pool whose display is there
     overlap  : Nat,        \* opens that may be under way at once
     split    : BOOLEAN,    \* may commands run between a reconciliation's read and write?
     misses   : BOOLEAN,    \* may the probe of a browser that runs go unanswered?
     faults   : Nat,        \* bound: browser deaths, daemon crashes, display losses
     crashes  : SUBSET Steps,   \* the steps at which a daemon may crash
     releases : Nat,        \* bound: releases of a route by a client
     parking  : BOOLEAN,    \* may a release park the display too?
     forced   : BOOLEAN,    \* may a close need force?
     repairs  : BOOLEAN]    \* does an operator run the repair of the pool?

ASSUME RoutesAssumption ==
    /\ Entries \subseteq Nat \ {0}
    /\ IsFiniteSet(Entries)
    /\ MaxOpens \in Nat
    /\ Scenarios \subseteq Scenario
    /\ IsFiniteSet(Sessions)
    /\ None \notin Sessions \cup Nat

VARIABLES
    scenario, \* the scenario; it never changes
    svc,      \* the service state: pool, allocations, routes, browsers, leases
    stage,       \* where the open of each session stands
    open,     \* what each open planned: its entry, lease and whether it reuses the browser
    live,     \* the sessions whose daemon controls a browser
    alive,    \* the browser process of each session, 0 when there is none
    display,  \* the entries whose display has a socket
    probe,    \* a reconciliation between its read and its write
    shown,    \* the entry each session's last open returned, while its browser runs
    left      \* what is left of each bound

routeVars == <<scenario, svc, stage, open, live, alive, display, probe, shown, left>>

Leases == 1 .. MaxOpens
Own == 0    \* the allocation a launch makes, which belongs to no entry
NoOpen == [entry |-> None, lease |-> 0, reused |-> FALSE]

(* A readiness record is its state and the lease of the acquisition it speaks of. *)
Is(state) == [st |-> state, lease |-> 0]
PendingFor(l) == [st |-> "pending", lease |-> l]
Readiness == [st : {"none", "ready", "pending", "released", "orphaned", "degraded", "unavailable"},
              lease : 0 .. MaxOpens]

PoolRecord == [st : {"available", "pending", "checked_out", "unavailable"},
               cur : BOOLEAN, rd : Readiness, kept : Readiness]
AllocRecord == [st : {"pending", "ready", "released", "orphaned", "degraded"}, own : Sessions,
                routes : BOOLEAN, rd : Readiness]
RouteRecord == [st : {"pending", "ready", "released", "orphaned"}, own : Sessions]
BrowserRecord == [health : {"ready", "exited", "degraded"}, disp : Entries \cup {None, Own},
                  pid : 0 .. MaxOpens]
LeaseRecord == [st : {"reserved", "finalized", "rolled_back"}, s : Sessions, e : Entries,
                pool : PoolRecord, alloc : AllocRecord \cup {None}, route : RouteRecord \cup {None},
                disp : Entries \cup {None, Own}]

ServiceState == [pool : [Entries -> PoolRecord], alloc : [Entries -> AllocRecord \cup {None}],
                 route : [Entries -> RouteRecord \cup {None}],
                 browser : [Sessions -> BrowserRecord \cup {None}],
                 lease : [Leases -> LeaseRecord \cup {None}]]

ASSUME NoRecordAssumption ==
    /\ None \notin AllocRecord /\ None \notin RouteRecord
    /\ None \notin BrowserRecord /\ None \notin LeaseRecord
    /\ None \notin [before : ServiceState, after : ServiceState]

(* One type per record, and the lease of an open from its reservation on. *)
RoutesTypeOK ==
    /\ svc \in ServiceState
    /\ stage \in [Sessions -> Steps]
    /\ open \in [Sessions -> [entry : Entries \cup {None}, lease : 0 .. MaxOpens, reused : BOOLEAN]]
    /\ \A s \in Sessions : stage[s] \notin {"idle", "begin"} => svc.lease[open[s].lease].s = s
    /\ live \subseteq Sessions
    /\ alive \in [Sessions -> 0 .. MaxOpens]
    /\ display \subseteq Entries
    /\ shown \in [Sessions -> Entries \cup {None}]

RoutesInit ==
    /\ scenario \in Scenarios
    /\ svc = [pool    |-> [e \in Entries |-> [st |-> "available", cur |-> FALSE, rd |-> Is("none"),
                                              kept |-> Is("none")]],
              alloc   |-> [e \in Entries |-> None],
              route   |-> [e \in Entries |-> None],
              browser |-> [s \in Sessions |-> None],
              lease   |-> [l \in Leases |-> None]]
    /\ stage = [s \in Sessions |-> "idle"]
    /\ open = [s \in Sessions |-> NoOpen]
    /\ live = {}
    /\ alive = [s \in Sessions |-> 0]
    /\ display = scenario.entries
    /\ probe = None
    /\ shown = [s \in Sessions |-> None]
    /\ left = [opens |-> scenario.opens, faults |-> scenario.faults, releases |-> scenario.releases]

-----------------------------------------------------------------------------
(* The plan *)

BrowserReady(st, s) == st.browser[s] # None /\ st.browser[s].health = "ready"
BrowserDisplay(st, s) == IF st.browser[s] = None THEN None ELSE st.browser[s].disp

(* The route of e is recorded as the session's own. *)
RouteOwned(st, s, e) ==
    st.route[e] # None /\ st.route[e].own = s /\ st.route[e].st \in {"ready", "pending", "orphaned"}

SameOwnerEntry(st, s, e) == st.pool[e].st # "unavailable" /\ RouteOwned(st, s, e)

(* The display the session's browser is on may be used again as it is. *)
ReusableDisplay(st, s, e) ==
    /\ BrowserDisplay(st, s) = e
    /\ st.alloc[e] = None \/ (st.alloc[e].st = "ready" /\ st.alloc[e].own = s)
    /\ SameOwnerEntry(st, s, e)

(* The entries an open may be planned on: the one it names; else the one its *)
(* browser is on; else the first that is available.                          *)
Candidates(st, s, pin) ==
    LET mine == {e \in Entries : ReusableDisplay(st, s, e)}
        free == {e \in Entries : st.pool[e].st = "available"}
    IN  CASE pin # None -> {pin}
          [] pin = None /\ mine # {} -> mine
          [] OTHER -> {e \in free : \A f \in free : e <= f}

AllocInactive(a) == a.st \in {"released", "orphaned"} \/ a.rd.st \in {"released", "orphaned"}

(* Mutant: the owner of a display allocation is not compared. *)
AnyonesDisplay(st, s, e) == TRUE

DisplayFree(st, s, e) ==
    st.alloc[e] # None => st.alloc[e].own = s \/ AllocInactive(st.alloc[e])

PendingAcquisitionOwned(st, s, e) ==
    /\ st.pool[e].st = "pending" /\ st.pool[e].cur
    /\ st.alloc[e] # None /\ st.alloc[e].st = "pending" /\ st.alloc[e].own = s
    /\ st.alloc[e].routes
    /\ st.pool[e].rd.st = "pending" /\ st.pool[e].rd = st.alloc[e].rd

EntryAvailable(st, s, e) ==
    \/ st.pool[e].st = "available"
    \/ st.pool[e].st \in {"checked_out", "pending"} /\ st.pool[e].cur /\ RouteOwned(st, s, e)
    \/ PendingAcquisitionOwned(st, s, e)
    \/ st.pool[e].st # "checked_out" /\ st.pool[e].rd.st = "ready"

ReadyForCheckout(p) ==
    \/ p.rd.st \in {"none", "ready"}
    \/ p.rd.st = "pending" /\ (p.st = "pending" \/ (p.st = "available" /\ ~p.cur))

(* What plan_remote_view_acquisition and build_route_binding require of an entry. *)
Admissible(st, s, e) ==
    /\ DisplayFree(st, s, e)
    /\ EntryAvailable(st, s, e)
    /\ ReadyForCheckout(st.pool[e])
    /\ e \in display

-----------------------------------------------------------------------------
(* The transactions of an open, as functions of the service state *)

Reserved(st, s, e, l) ==
    [st EXCEPT !.pool[e] = [st |-> "pending", cur |-> TRUE, rd |-> PendingFor(l), kept |-> Is("none")],
               !.alloc[e] = [st |-> "pending", own |-> s, routes |-> TRUE, rd |-> PendingFor(l)],
               !.route[e] = [st |-> "pending", own |-> s],
               !.lease[l] = [st |-> "reserved", s |-> s, e |-> e, pool |-> st.pool[e],
                             alloc |-> st.alloc[e], route |-> st.route[e],
                             disp |-> BrowserDisplay(st, s)]]

(* A launch records the browser; the display of an earlier record is kept, and  *)
(* its allocation is written as this session's.                                 *)
Launched(st, s, p) ==
    LET d == BrowserDisplay(st, s)
        recorded == [st EXCEPT !.browser[s] = [health |-> "ready", pid |-> p,
                                               disp |-> IF d = None THEN Own ELSE d]]
    IN  IF d \notin Entries THEN recorded
        ELSE [recorded EXCEPT !.alloc[d] =
                IF st.alloc[d] = None
                THEN [st |-> "ready", own |-> s, routes |-> FALSE, rd |-> Is("none")]
                ELSE [st.alloc[d] EXCEPT !.st = "ready", !.own = s]]

Placed(st, s, e) ==
    IF st.browser[s] = None THEN st ELSE [st EXCEPT !.browser[s].disp = e]

CheckedOut(st, s, e) ==
    Placed([st EXCEPT !.pool[e] = [st |-> "checked_out", cur |-> TRUE, rd |-> Is("ready"),
                                   kept |-> Is("none")],
                      !.alloc[e] = [st |-> "ready", own |-> s, routes |-> TRUE,
                                    rd |-> IF st.alloc[e] = None THEN Is("none") ELSE st.alloc[e].rd],
                      !.route[e] = [st |-> "ready", own |-> s]], s, e)

Finalized(st, l) ==
    LET s == st.lease[l].s
        e == st.lease[l].e
    IN  Placed([st EXCEPT !.pool[e] = [st |-> "checked_out", cur |-> TRUE, rd |-> Is("ready"),
                                       kept |-> Is("none")],
                          !.alloc[e] = [st |-> "ready", own |-> s, routes |-> TRUE,
                                        rd |-> Is("ready")],
                          !.route[e] = [st |-> "ready", own |-> s],
                          !.lease[l].st = "finalized"], s, e)

Restored(st, l) ==
    LET r == st.lease[l]
        back == [st EXCEPT !.pool[r.e] = r.pool, !.alloc[r.e] = r.alloc, !.route[r.e] = r.route,
                           !.lease[l].st = "rolled_back"]
    IN  IF st.browser[r.s] = None THEN back ELSE [back EXCEPT !.browser[r.s].disp = r.disp]

(* A clean close: every allocation of the session is released, with its route  *)
(* where that is the session's, and the entry that shows the route is freed.   *)
Closed(st, s) ==
    LET mine == {e \in Entries : st.alloc[e] # None /\ st.alloc[e].own = s}
        routed == {e \in mine : st.alloc[e].routes \/ (st.route[e] # None /\ st.route[e].own = s)}
    IN  [st EXCEPT
            !.alloc = [e \in Entries |-> IF e \in mine
                THEN [st.alloc[e] EXCEPT !.st = "released", !.rd = Is("released"), !.routes = FALSE]
                ELSE @[e]],
            !.route = [e \in Entries |-> IF e \in routed /\ st.route[e] # None /\ st.route[e].own = s
                THEN [@[e] EXCEPT !.st = "released"] ELSE @[e]],
            !.pool = [e \in Entries |-> IF e \in routed /\ st.pool[e].cur
                THEN [@[e] EXCEPT !.st = "available", !.cur = FALSE] ELSE @[e]],
            !.browser[s] = None]

(* A close that had to use force: the record and the allocations stay, degraded. *)
ClosedDegraded(st, s) ==
    [st EXCEPT
        !.alloc = [e \in Entries |-> IF @[e] # None /\ @[e].own = s
            THEN [@[e] EXCEPT !.st = "degraded", !.rd = Is("degraded")] ELSE @[e]],
        !.browser[s] = [health |-> "degraded", disp |-> BrowserDisplay(st, s), pid |-> 0]]

(* The daemon saw its browser exit. *)
ExitRecorded(st, s) ==
    LET d == BrowserDisplay(st, s)
        gone == [st EXCEPT !.browser[s] = None]
    IN  IF d \in Entries /\ st.alloc[d] # None
        THEN [gone EXCEPT !.alloc[d] = [@ EXCEPT !.st = "orphaned", !.own = s, !.rd = Is("orphaned")]]
        ELSE gone

Released(st, e, park) ==
    LET p == st.pool[e]
        al == st.alloc[e]
    IN  [st EXCEPT
            !.route[e].st = "released",
            !.pool[e] = IF ~p.cur THEN p
                        ELSE [p EXCEPT !.st = "available", !.cur = FALSE,
                                       !.rd = IF p.rd.st = "pending" THEN Is("ready") ELSE p.rd],
            !.alloc[e] = IF al = None THEN None
                         ELSE IF park
                         THEN [al EXCEPT !.routes = FALSE, !.st = "released", !.rd = Is("released")]
                         ELSE [al EXCEPT !.routes = FALSE]]

-----------------------------------------------------------------------------
(* The reconciliation *)

(* The probe of each recorded browser: a process that is gone is recorded so, and one  *)
(* that runs but did not answer in time (CdpDisconnected, or Degraded without its list *)
(* of targets) is not ready until a later probe.                                       *)
Probed(st, missed) ==
    LET health(s) == CASE alive[s] # st.browser[s].pid -> "exited"
                       [] alive[s] = st.browser[s].pid /\ s \in missed -> "degraded"
                       [] OTHER -> "ready"
    IN  [st EXCEPT !.browser = [s \in Sessions |->
            IF @[s] = None \/ @[s].pid = 0 THEN @[s] ELSE [@[s] EXCEPT !.health = health(s)]]]

(* Entries whose display is gone become unavailable and remember their readiness; *)
(* entries whose display came back are available again.                          *)
DisplaysChecked(st) ==
    [st EXCEPT !.pool = [e \in Entries |->
        CASE e \notin display /\ @[e].st # "unavailable" ->
                [@[e] EXCEPT !.st = "unavailable", !.rd = Is("unavailable"), !.kept = st.pool[e].rd]
          [] e \in display /\ @[e].rd.st = "unavailable" ->
                [st |-> "available", cur |-> FALSE, rd |-> @[e].kept, kept |-> Is("none")]
          [] OTHER -> @[e]]]

AllocationsChecked(st) ==
    [st EXCEPT !.alloc = [e \in Entries |->
        IF @[e] # None /\ @[e].st # "released" /\ ~BrowserReady(st, @[e].own)
        THEN [@[e] EXCEPT !.st = "orphaned", !.rd = Is("orphaned")] ELSE @[e]]]

(* Mutant: a route keeps its state when its browser is gone. *)
RoutesUnchecked(st) == st

RoutesChecked(st) ==
    [st EXCEPT !.route = [e \in Entries |->
        IF /\ @[e] # None /\ @[e].st # "released"
           /\ \/ e \notin display
              \/ st.alloc[e] = None
              \/ st.alloc[e].st # "ready"
              \/ ~BrowserReady(st, @[e].own)
        THEN [@[e] EXCEPT !.st = "orphaned"] ELSE @[e]]]

EntriesFreed(st) ==
    [st EXCEPT !.pool = [e \in Entries |->
        IF /\ @[e].st # "unavailable" /\ @[e].cur
           /\ st.route[e] # None /\ st.route[e].st \in {"orphaned", "released"}
        THEN [st |-> "available", cur |-> FALSE, rd |-> Is("ready"), kept |-> Is("none")] ELSE @[e]]]

(* Mutant: a browser that exited stays recorded, on its display. *)
HistoryKept(st) == st

(* A browser that exited is forgotten. *)
HistoryRemoved(st) ==
    [st EXCEPT !.browser = [s \in Sessions |->
        IF @[s] # None /\ @[s].health = "exited" THEN None ELSE @[s]]]

Reconciled(st, missed) ==
    HistoryRemoved(EntriesFreed(RoutesChecked(AllocationsChecked(DisplaysChecked(
        Probed(st, missed))))))

(* A browser launched since the read stays as it is; another takes its health from the *)
(* reconciliation, or is forgotten with it.                                            *)
MergedBrowser(n, b, a) ==
    IF n # None /\ b # None /\ n.pid # b.pid THEN n
    ELSE CASE a # None /\ n # None -> [n EXCEPT !.health = a.health]
           [] a # None /\ n = None -> a
           [] a = None -> IF b # None /\ n = b THEN None ELSE n

(* merge_reconciled_service_state: an allocation or route released since the read *)
(* stays released, and an entry whose state or owner changed since stays; every   *)
(* other record is written as the reconciliation left it.                         *)
MergedState(now, before, after) ==
    LET kept(n, b) == n # None /\ n.st = "released" /\ b # None /\ b # n
        swap(n, b, a) == IF a = None \/ kept(n, b) THEN n ELSE a
    IN  [now EXCEPT
            !.alloc = [e \in Entries |-> swap(@[e], before.alloc[e], after.alloc[e])],
            !.route = [e \in Entries |-> swap(@[e], before.route[e], after.route[e])],
            !.pool = [e \in Entries |->
                IF @[e].st = before.pool[e].st /\ @[e].cur = before.pool[e].cur
                THEN after.pool[e] ELSE @[e]],
            !.browser = [s \in Sessions |-> MergedBrowser(@[s], before.browser[s], after.browser[s])]]

-----------------------------------------------------------------------------
(* The repair of the pool *)

StaleAcquisition(st, l) ==
    /\ st.lease[l] # None /\ st.lease[l].st = "reserved"
    /\ ~BrowserReady(st, st.lease[l].s)
    /\ LET e == st.lease[l].e
       IN  \/ st.route[e] # None /\ st.route[e].st = "pending"
           \/ st.alloc[e] # None /\ st.alloc[e].st = "pending"
           \/ st.pool[e].st = "pending" /\ st.pool[e].cur

StaleCheckout(st, e) ==
    /\ st.pool[e].st = "checked_out"
    /\ \/ ~st.pool[e].cur
       \/ st.route[e] = None
       \/ st.route[e].st \in {"released", "orphaned"}
       \/ st.alloc[e] = None
       \/ st.alloc[e].st # "ready"
       \/ ~BrowserReady(st, st.route[e].own)

(* The records the stale leases remember are put back one lease after the other, and of   *)
(* two that remember the same record the last one's stays.  The order is that of the lease *)
(* identifiers (route, session, time), here that of the opens.                             *)
Repaired(st) ==
    LET leases == {l \in Leases : StaleAcquisition(st, l)}
        checkouts == {e \in Entries : StaleCheckout(st, e)}
        routes == {st.lease[l].e : l \in leases}
                    \cup {e \in checkouts : st.pool[e].cur /\ st.route[e] # None}
        last(ls) == st.lease[CHOOSE l \in ls : \A k \in ls : k <= l]
        on(e) == {l \in leases : st.lease[l].e = e}
        by(s) == {l \in leases : st.lease[l].s = s}
        back == [pool    |-> [e \in Entries |-> IF on(e) = {} THEN st.pool[e] ELSE last(on(e)).pool],
                 alloc   |-> [e \in Entries |-> IF on(e) = {} THEN st.alloc[e] ELSE last(on(e)).alloc],
                 route   |-> [e \in Entries |-> IF on(e) = {} THEN st.route[e] ELSE last(on(e)).route],
                 browser |-> [s \in Sessions |-> IF by(s) = {} \/ st.browser[s] = None THEN st.browser[s]
                                                 ELSE [st.browser[s] EXCEPT !.disp = last(by(s)).disp]],
                 lease   |-> [l \in Leases |-> IF l \in leases
                                               THEN [st.lease[l] EXCEPT !.st = "rolled_back"]
                                               ELSE st.lease[l]]]
    IN  [back EXCEPT
            !.pool = [e \in Entries |-> IF e \in checkouts
                THEN [st |-> "available", cur |-> FALSE, rd |-> Is("ready"), kept |-> Is("none")]
                ELSE @[e]],
            !.route = [e \in Entries |-> IF e \in routes /\ @[e] # None
                THEN [@[e] EXCEPT !.st = "released"] ELSE @[e]],
            !.alloc = [e \in Entries |-> IF e \in routes /\ @[e] # None
                THEN [@[e] EXCEPT !.st = "released", !.rd = Is("released")] ELSE @[e]]]

-----------------------------------------------------------------------------
(* handle_remote_view_open, step by step *)

UnderWay == {s \in Sessions : stage[s] # "idle"}
Goto(s, step) == stage' = [stage EXCEPT ![s] = step]
End(s) == Goto(s, "idle") /\ open' = [open EXCEPT ![s] = NoOpen]
Quiet == probe = None \/ scenario.split

Plan(s, pin) ==
    /\ stage[s] = "idle" /\ Quiet
    /\ Cardinality(UnderWay) < scenario.overlap
    /\ left.opens > 0
    /\ \E e \in Candidates(svc, s, pin) :
        /\ Admissible(svc, s, e)
        /\ open' = [open EXCEPT ![s] = [entry |-> e, lease |-> 0,
                                        reused |-> s \in live /\ SameOwnerEntry(svc, s, e)]]
    /\ Goto(s, "begin")
    /\ UNCHANGED <<svc, live, alive, display, probe, shown, left>>

Begin(s) ==
    /\ stage[s] = "begin" /\ Quiet
    /\ IF left.opens = 0
       THEN End(s) /\ UNCHANGED <<svc, left>>   \* the bound: the open gives up before it reserves
       ELSE LET l == scenario.opens - left.opens + 1
            IN  /\ svc' = Reserved(svc, s, open[s].entry, l)
                /\ open' = [open EXCEPT ![s].lease = l]
                /\ left' = [left EXCEPT !.opens = @ - 1]
                /\ Goto(s, "launch")
    /\ UNCHANGED <<live, alive, display, probe, shown>>

(* The browser of the session is reused, or launched, or launched in place of the one  *)
(* the daemon has.                                                                     *)
Launch(s) ==
    /\ stage[s] = "launch" /\ Quiet
    /\ \/ /\ s \in live /\ alive[s] # 0
          /\ svc' = IF open[s].reused THEN svc ELSE Launched(svc, s, alive[s])
          /\ open' = [open EXCEPT ![s].reused = TRUE]
          /\ UNCHANGED <<live, alive, shown>>
       \/ /\ ~open[s].reused
          /\ svc' = Launched(svc, s, open[s].lease)
          /\ live' = live \cup {s}
          /\ alive' = [alive EXCEPT ![s] = open[s].lease]
          /\ shown' = [shown EXCEPT ![s] = None]
          /\ UNCHANGED open
    /\ Goto(s, "checkout")
    /\ UNCHANGED <<display, probe, left>>

CanRollBack(s) == svc.lease[open[s].lease].st = "reserved"

(* No access to the display, or no browser: the reservation is taken back at once. *)
LaunchFails(s) ==
    /\ stage[s] = "launch" /\ Quiet
    /\ svc' = IF CanRollBack(s) THEN Restored(svc, open[s].lease) ELSE svc
    /\ \/ UNCHANGED <<live, alive, shown>>
       \/ /\ ~open[s].reused
          /\ live' = live \ {s}
          /\ alive' = [alive EXCEPT ![s] = 0]
          /\ shown' = [shown EXCEPT ![s] = None]
    /\ End(s)
    /\ UNCHANGED <<display, probe, left>>

(* A tab, focus or proof fails, before or after the checkout; so may the checkout. *)
RollBack(s) ==
    IF CanRollBack(s)
    THEN svc' = Restored(svc, open[s].lease) /\ Goto(s, "cleanup") /\ UNCHANGED open
    ELSE UNCHANGED svc /\ End(s)

ProofFails(s) ==
    /\ stage[s] \in {"checkout", "complete"} /\ Quiet
    /\ RollBack(s)
    /\ UNCHANGED <<live, alive, display, probe, shown, left>>

Checkout(s) ==
    /\ stage[s] = "checkout" /\ Quiet
    /\ IF Admissible(svc, s, open[s].entry)
       THEN svc' = CheckedOut(svc, s, open[s].entry) /\ Goto(s, "complete") /\ UNCHANGED open
       ELSE RollBack(s)
    /\ UNCHANGED <<live, alive, display, probe, shown, left>>

(* Mutant: the lease is finalized whatever became of it. *)
CompleteAnyway(s) ==
    /\ stage[s] = "complete" /\ Quiet
    /\ svc' = Finalized(svc, open[s].lease)
    /\ shown' = [shown EXCEPT ![s] = open[s].entry]
    /\ End(s)
    /\ UNCHANGED <<live, alive, display, probe, left>>

Complete(s) ==
    /\ stage[s] = "complete" /\ Quiet
    /\ IF svc.lease[open[s].lease].st = "reserved"
       THEN /\ svc' = Finalized(svc, open[s].lease)
            /\ shown' = [shown EXCEPT ![s] = IF alive[s] = 0 THEN None ELSE open[s].entry]
       ELSE UNCHANGED <<svc, shown>>
    /\ End(s)
    /\ UNCHANGED <<live, alive, display, probe, left>>

BrowserClosed(s) ==
    /\ \/ svc' = Closed(svc, s)
       \/ scenario.forced /\ svc' = ClosedDegraded(svc, s)
    /\ live' = live \ {s}
    /\ alive' = [alive EXCEPT ![s] = 0]
    /\ shown' = [shown EXCEPT ![s] = None]

(* After a rollback: a reused browser loses the tab, a new one is closed. *)
Cleanup(s) ==
    /\ stage[s] = "cleanup" /\ Quiet
    /\ IF open[s].reused \/ s \notin live THEN UNCHANGED <<svc, live, alive, shown>> ELSE BrowserClosed(s)
    /\ End(s)
    /\ UNCHANGED <<display, probe, left>>

-----------------------------------------------------------------------------
(* Other commands, faults, reconciliation *)

Close(s) ==
    /\ stage[s] = "idle" /\ Quiet /\ s \in live
    /\ BrowserClosed(s)
    /\ UNCHANGED <<stage, open, display, probe, left>>

ReleaseRoute(e, park) ==
    /\ Quiet /\ left.releases > 0
    /\ park => scenario.parking
    /\ svc.route[e] # None
    /\ svc' = Released(svc, e, park)
    /\ shown' = [s \in Sessions |-> IF shown[s] = e THEN None ELSE shown[s]]
    /\ left' = [left EXCEPT !.releases = @ - 1]
    /\ UNCHANGED <<stage, open, live, alive, display, probe>>

Repair ==
    /\ scenario.repairs /\ Quiet
    /\ svc' = Repaired(svc) /\ svc' # svc
    /\ UNCHANGED <<stage, open, live, alive, display, probe, shown, left>>

Fault ==
    /\ left.faults > 0
    /\ left' = [left EXCEPT !.faults = @ - 1]

BrowserDies(s) ==
    /\ alive[s] # 0 /\ Fault
    /\ alive' = [alive EXCEPT ![s] = 0]
    /\ shown' = [shown EXCEPT ![s] = None]
    /\ UNCHANGED <<svc, stage, open, live, display, probe>>

(* Between commands the daemon sees that its browser is gone. *)
ObserveExit(s) ==
    /\ stage[s] = "idle" /\ Quiet
    /\ s \in live /\ alive[s] = 0
    /\ svc' = ExitRecorded(svc, s)
    /\ live' = live \ {s}
    /\ UNCHANGED <<stage, open, alive, display, probe, shown, left>>

DaemonCrash(s) ==
    /\ Fault
    /\ s \in live \/ stage[s] # "idle"
    /\ stage[s] \in scenario.crashes
    /\ End(s)
    /\ live' = live \ {s}
    /\ UNCHANGED <<svc, alive, display, probe, shown>>

DisplayChanges(e) ==
    /\ IF e \in display
       THEN Fault /\ display' = display \ {e}
       ELSE e \in scenario.entries /\ UNCHANGED left /\ display' = display \cup {e}
    /\ UNCHANGED <<svc, stage, open, live, alive, probe, shown>>

ReconcileReads(missed) ==
    /\ probe = None
    /\ missed # {} => scenario.misses
    /\ Reconciled(svc, missed) # svc \/ scenario.split
    /\ probe' = [before |-> svc, after |-> Reconciled(svc, missed)]
    /\ UNCHANGED <<svc, stage, open, live, alive, display, shown, left>>

ReconcileWrites ==
    /\ probe # None
    /\ svc' = MergedState(svc, probe.before, probe.after)
    /\ probe' = None
    /\ UNCHANGED <<stage, open, live, alive, display, shown, left>>

SessionStep(s) ==
    \/ Begin(s) \/ Launch(s) \/ LaunchFails(s) \/ ProofFails(s) \/ Checkout(s) \/ Complete(s)
    \/ Cleanup(s)

Step ==
    \/ \E s \in Sessions :
        \/ \E pin \in Entries \cup {None} : Plan(s, pin)
        \/ SessionStep(s) \/ Close(s) \/ BrowserDies(s) \/ ObserveExit(s) \/ DaemonCrash(s)
    \/ \E e \in Entries :
        \/ \E park \in BOOLEAN : ReleaseRoute(e, park)
        \/ DisplayChanges(e)
    \/ \E missed \in SUBSET Sessions : ReconcileReads(missed)
    \/ Repair \/ ReconcileWrites

RoutesNext == Step /\ UNCHANGED scenario

RoutesSpec == RoutesInit /\ [][RoutesNext]_routeVars

(* A daemon finishes the command it runs, and reconciliations go on: the timer of some    *)
(* daemon that lives is not disabled (an interval of 0).  No probe has to go unanswered.  *)
RoutesFairSpec ==
    /\ RoutesSpec
    /\ \A s \in Sessions : WF_routeVars(SessionStep(s) /\ UNCHANGED scenario)
    /\ WF_routeVars(/\ Reconciled(svc, {}) # svc
                    /\ \E missed \in SUBSET Sessions : ReconcileReads(missed)
                    /\ UNCHANGED scenario)
    /\ WF_routeVars(ReconcileWrites /\ UNCHANGED scenario)

-----------------------------------------------------------------------------
(* Properties *)

(* Opens follow one another and a reconciliation is done before the next command; every   *)
(* browser that runs answers its probes; no release parks a display, no close needs force *)
(* and no repair is run; and no daemon is killed after the checkout of its open.  Without *)
(* any one of these, enough opens put two owners on one entry: the README says how.       *)
Undisturbed ==
    /\ scenario.overlap = 1 /\ ~scenario.split /\ ~scenario.misses
    /\ ~scenario.parking /\ ~scenario.forced /\ ~scenario.repairs
    /\ scenario.crashes \subseteq BeforeCheckout

(* The route and the allocation of a display never name two active owners, in a scenario *)
(* that is Undisturbed.                                                                  *)
OwnersAgree ==
    Undisturbed => \A e \in Entries :
        svc.alloc[e] # None /\ svc.route[e] # None =>
            (svc.alloc[e].st \in {"pending", "ready"} /\ svc.route[e].st \in {"pending", "ready"}
                => svc.alloc[e].own = svc.route[e].own)

(* The records have their types in every scenario, and speak for one owner of each entry *)
(* in an undisturbed one, whatever the reconciliation, releases, deaths of browsers and   *)
(* displays and failed opens have made of them.                                           *)
RecordsAgree == RoutesTypeOK /\ OwnersAgree

(* In an undisturbed scenario, while the browser an open returned runs on its entry, no   *)
(* other session is shown on it and the entry is refused to every other session: what     *)
(* select_route_pool_entry, the owner comparison of the plan and the second plan of the   *)
(* checkout are for.                                                                      *)
OneBrowserPerRoute ==
    Undisturbed => \A s, t \in Sessions :
        s # t /\ shown[s] # None => shown[s] # shown[t] /\ ~Admissible(svc, t, shown[s])

(* A finalized or rolled-back lease is never used again: neither a late completion nor *)
(* a second rollback nor the repair touches it.                                        *)
LeaseFinal ==
    [][\A l \in Leases : svc.lease[l] # None /\ svc.lease[l].st # "reserved"
            => svc'.lease[l] = svc.lease[l]]_routeVars

(* An entry does not stay taken by nobody: always again it is available, its display is *)
(* missing, an open is under way, or it is the entry of a ready browser's route.        *)
EntryReturns ==
    \A e \in Entries : []<>(\/ svc.pool[e].st = "available"
                            \/ e \notin display
                            \/ UnderWay # {}
                            \/ /\ svc.route[e] # None /\ svc.route[e].st \in {"ready", "pending"}
                               /\ BrowserReady(svc, svc.route[e].own))

-----------------------------------------------------------------------------
(* What a comment or a document says and the code does not keep: no run     *)
(* checks these; the README names the scenario that refutes each.           *)

(* What an open reserved is refused to every other session until the open ends: the *)
(* reconciliation tells an acquisition in progress from an orphan.                  *)
ReservationHolds ==
    \A s, t \in Sessions :
        s # t /\ stage[s] \in {"launch", "checkout", "complete"} => ~Admissible(svc, t, open[s].entry)

(* The repair spares the routes of browsers that run and were returned to their session. *)
RepairSparesShown ==
    [][svc' = Repaired(svc) => \A s \in Sessions : shown[s] # None =>
            /\ svc'.route[shown[s]] # None
            /\ svc'.route[shown[s]].own = svc.route[shown[s]].own]_routeVars
=============================================================================
