--------------------------- MODULE TaskAuthority ---------------------------
(***************************************************************************)
(* Task authorities of one session: issuing, admitting and finalizing the  *)
(* steps of an ordered plan, revoking, and reconciling a stranded step     *)
(* (task_authority.rs), with the confirmation of a step in memory and the  *)
(* broker transport (actions.rs).                                          *)
(*                                                                         *)
(* The worker runs one command at a time and its daemon may be killed at   *)
(* any point; the browser part of a command is awaited, so its job may also*)
(* be cancelled or time out there.  The controls are taken as confirmed:   *)
(* their confirmations are TaskConfirmations.  Every authority has the same*)
(* plan and ceiling.  An authority is named by how it came about: a fresh  *)
(* one by its name, a replacement by its predecessor and the reconcile     *)
(* request, whose digest is its id.  A target stands for a page at its URL;*)
(* labels, expiry and evidence budgets only refuse: a refused command      *)
(* changes nothing.                                                        *)
(***************************************************************************)
EXTENDS Integers, Sequences, FiniteSets

CONSTANTS
  None,        \* no value
  Fresh,       \* names of authorities issued by `issue`
  Cmds,        \* command ids
  MaxDepth,    \* bound on replacements of replacements
  Scenarios    \* what is asked of the session and how much may go wrong

Kinds == {"read", "navigate", "tab"}

ASSUME AuthorityAssumption ==
  /\ IsFiniteSet(Fresh) /\ IsFiniteSet(Cmds) /\ MaxDepth \in Nat
  /\ None \notin Seq(Fresh \cup UNION {s.requests : s \in Scenarios})
  /\ \A s \in Scenarios :
       /\ s.fresh \subseteq Fresh /\ s.targets # {}
       /\ \A q \in s.requests : DOMAIN q = {"rid", "target", "rest"}
       /\ None \notin [req : s.requests, state : {"pending", "completed"}, step : Nat]
       /\ s.plan \in Seq(Kinds) /\ s.policed \subseteq Kinds
       /\ s.allowed = {"read"} \/ \A k \in DOMAIN s.plan : s.plan[k] \in s.allowed
       /\ s.breaks \in Nat /\ s.drops \in Nat

VARIABLES
  scenario,  \* the scenario of the behaviour; it never changes
  issued,    \* issuance files: bound target, revocation, reconciliation
  ledger,    \* ledger files: step receipts in order of admission
  active,    \* the browser's active target
  memo,      \* DaemonState::pending_confirmation of a step's command
  confirmed, \* DaemonState::confirmed_task_authority_id
  policy,    \* whether the policy and the confirm list are in force
  work,      \* what the worker is in the middle of
  ran,       \* steps dispatched, with their commands
  repeated,  \* whether a step or a command was dispatched twice
  answered,  \* steps whose response was published
  breaks, drops

vars == <<scenario, issued, ledger, active, memo, confirmed, policy, work, ran, repeated, answered,
          breaks, drops>>

Plan      == scenario.plan       \* kinds of the plan's steps
Allowed   == scenario.allowed    \* kinds within the envelope's consequence ceiling
Policed   == scenario.policed    \* kinds the action policy asks a confirmation for
Requests  == scenario.requests   \* reconcile requests: id, expected target and the rest
Targets   == scenario.targets    \* browser targets
MaxBreaks == scenario.breaks     \* bound on crashes and failed writes
MaxDrops  == scenario.drops      \* bound on commands abandoned while they run

Issued == DOMAIN issued
Idle == [at |-> "idle"]

Init ==
  /\ scenario \in Scenarios
  /\ issued = <<>> /\ ledger = <<>>
  /\ active \in Targets
  /\ memo = None /\ confirmed = None /\ policy = TRUE
  /\ work = Idle
  /\ ran = {} /\ repeated = FALSE /\ answered = {}
  /\ breaks = 0 /\ drops = 0

-----------------------------------------------------------------------------
(* Receipts.                                                                *)

Stranded(a) == {k \in DOMAIN ledger[a] : ledger[a][k].outcome = "none"}

(* validate_ordered_ledger: receipts follow the plan at the bound target,   *)
(* command ids differ, and an outcome was observed at that target.          *)
Readable(a) ==
  /\ \A k \in DOMAIN ledger[a] :
       /\ k \in DOMAIN Plan /\ ledger[a][k].step = k /\ ledger[a][k].at = issued[a].target
       /\ ~ledger[a][k].moved
  /\ \A k, m \in DOMAIN ledger[a] : k # m => ledger[a][k].cmd # ledger[a][m].cmd

(* Without a ceiling in the request a plan may navigate under an envelope   *)
(* that only reads; a ceiling in the request is the plan's and the          *)
(* envelope's.                                                              *)
AboveCeiling(n) == Plan[n] \notin Allowed

(* A command with a service tab handle is bound to its target, any other    *)
(* one to the active target.                                                *)
Binding(a, pinned) == IF pinned THEN issued[a].target ELSE active

(* admit_task_authority without the ceiling: the next step of the plan,     *)
(* under a command id the ledger does not hold.                             *)
Admissible_Reissued(a, n, c, target) ==   \* mutant: a consumed step is offered again
  /\ a \in Issued /\ ~issued[a].revoked /\ target = issued[a].target
  /\ n \in DOMAIN Plan /\ n <= Len(ledger[a]) + 1
  /\ \A k \in DOMAIN ledger[a] : ledger[a][k].cmd # c
Admissible(a, n, c, target) ==
  /\ a \in Issued /\ ~issued[a].revoked /\ target = issued[a].target
  /\ Readable(a)
  /\ n \in DOMAIN Plan /\ n = Len(ledger[a]) + 1
  /\ \A k \in DOMAIN ledger[a] : ledger[a][k].cmd # c

(* The receipt is written before the command is dispatched.  What it was    *)
(* dispatched on, and the target a confirmation was asked for, are history. *)
Reserve(a, n, c, target, how, asked) ==
  /\ ledger' = [ledger EXCEPT ![a] =
       Append(@, [step |-> n, cmd |-> c, outcome |-> "none", moved |-> FALSE, at |-> target,
                  how |-> how, asked |-> asked])]
  /\ ran' = ran \cup {<<a, n, c>>}
  /\ repeated' = (repeated \/ \E r \in ran : r[1] = a /\ (r[2] = n \/ r[3] = c))

Running(at, a, n, c, pinned) ==
  [at |-> at, auth |-> a, n |-> n, cmd |-> c, pinned |-> pinned,
   policy |-> policy, confirmed |-> confirmed]

-----------------------------------------------------------------------------
(* Steps: execute_command, stage_confirmation, handle_confirm.              *)

AsksFirst(a, n) ==
  \/ AboveCeiling(n) /\ confirmed # a
  \/ policy /\ Plan[n] \in Policed

Awaited(m) == m # None /\ ~m.expired
Submit(a, n, c, pinned) ==
  /\ work = Idle /\ Admissible(a, n, c, Binding(a, pinned))
  /\ IF AsksFirst(a, n)
     THEN /\ ~Awaited(memo)
          /\ memo' = [auth |-> a, n |-> n, cmd |-> c, pinned |-> pinned,
                      target |-> Binding(a, pinned), expired |-> FALSE]
          /\ UNCHANGED <<ledger, work, ran, repeated>>
     ELSE /\ Reserve(a, n, c, Binding(a, pinned), "direct", None)
          /\ work' = Running("step", a, n, c, pinned)
          /\ UNCHANGED memo
  /\ UNCHANGED <<issued, active, confirmed, policy, answered, breaks, drops>>

MemoExpires ==
  /\ Awaited(memo)
  /\ memo' = [memo EXCEPT !.expired = TRUE]
  /\ UNCHANGED <<issued, ledger, active, confirmed, policy, work, ran, repeated, answered,
                 breaks, drops>>

(* The confirmation is taken whatever comes of it.  While its command runs  *)
(* the policy is set aside and its authority counts as confirmed.           *)
Confirm ==
  /\ work = Idle /\ memo # None
  /\ memo' = None
  /\ IF /\ Awaited(memo) /\ Binding(memo.auth, memo.pinned) = memo.target
        /\ Admissible(memo.auth, memo.n, memo.cmd, Binding(memo.auth, memo.pinned))
     THEN /\ Reserve(memo.auth, memo.n, memo.cmd, Binding(memo.auth, memo.pinned), "confirmed",
                     memo.target)
          /\ work' = Running("step", memo.auth, memo.n, memo.cmd, memo.pinned)
          /\ policy' = FALSE /\ confirmed' = memo.auth
     ELSE UNCHANGED <<ledger, ran, repeated, work, policy, confirmed>>
  /\ UNCHANGED <<issued, active, answered, breaks, drops>>

Deny ==
  /\ work = Idle /\ memo # None
  /\ memo' = None
  /\ UNCHANGED <<issued, ledger, active, confirmed, policy, work, ran, repeated, answered,
                 breaks, drops>>

(* A command of an attached broker: no policy, and no confirmation of a step*)
(* above the ceiling.                                                       *)
BrokerCommand(a, n, c) ==
  /\ work = Idle /\ a \in Issued
  /\ Admissible(a, n, c, issued[a].target)
  /\ AboveCeiling(n) => confirmed = a
  /\ Reserve(a, n, c, issued[a].target, "broker", None)
  /\ work' = Running("broker", a, n, c, TRUE)
  /\ UNCHANGED <<issued, active, memo, confirmed, policy, answered, breaks, drops>>

(* After the admission the broker's browser turns out to be gone, or its    *)
(* target changed: the answer is an error.                                  *)
BrokerGone ==
  /\ work.at = "broker"
  /\ work' = Idle
  /\ answered' = answered \cup {<<work.auth, work.n, work.cmd>>}
  /\ UNCHANGED <<issued, ledger, active, memo, confirmed, policy, ran, repeated, breaks, drops>>

Outcome(success) == IF success THEN "completed" ELSE "failed"

(* finalize_task_authority_step: only a "tab" step moves the active target. *)
Restored_PolicyOnly == policy' = work.policy /\ UNCHANGED confirmed   \* mutant: left confirmed
Restored == policy' = work.policy /\ confirmed' = work.confirmed
Finish(success, target) ==
  /\ work.at \in {"step", "broker"}
  /\ Plan[work.n] = "tab" \/ target = active
  /\ active' = target
  /\ ledger' = [ledger EXCEPT ![work.auth] =
       [k \in DOMAIN @ |->
          IF @[k].step = work.n /\ @[k].cmd = work.cmd
          THEN [@[k] EXCEPT !.outcome = Outcome(success),
                            !.moved = ~work.pinned /\ target # issued[work.auth].target]
          ELSE @[k]]]
  /\ answered' = answered \cup {<<work.auth, work.n, work.cmd>>}
  /\ work' = Idle
  /\ Restored
  /\ UNCHANGED <<issued, memo, ran, repeated, breaks, drops>>

(* The outcome cannot be written: the answer says so and the step stays     *)
(* indeterminate.                                                           *)
FinishUnwritten ==
  /\ work.at \in {"step", "broker"} /\ breaks < MaxBreaks
  /\ work' = Idle
  /\ Restored
  /\ breaks' = breaks + 1
  /\ UNCHANGED <<issued, ledger, active, memo, ran, repeated, answered, drops>>

(* The job is cancelled or times out: the future of execute_command is      *)
(* dropped, and what follows its await is never run.                        *)
Drop ==
  /\ work.at \in {"step", "broker"} /\ drops < MaxDrops
  /\ work' = Idle
  /\ drops' = drops + 1
  /\ UNCHANGED <<issued, ledger, active, memo, confirmed, policy, ran, repeated, answered, breaks>>

Crash ==
  /\ breaks < MaxBreaks
  /\ work' = Idle /\ memo' = None /\ confirmed' = None /\ policy' = TRUE
  /\ breaks' = breaks + 1
  /\ UNCHANGED <<issued, ledger, active, ran, repeated, answered, drops>>

-----------------------------------------------------------------------------
(* Controls, each one confirmed.  Like a step, a control given a service tab*)
(* handle is bound to the handle's target, any other one to the active one. *)

(* A file of its own for each authority. *)
Put(files, a, content) == [x \in DOMAIN files \cup {a} |-> IF x = a THEN content ELSE files[x]]

Record(target) == [target |-> target, revoked |-> FALSE, recon |-> None]

Issue(f, target) ==
  /\ work = Idle /\ <<f>> \notin Issued
  /\ issued' = Put(issued, <<f>>, Record(target))
  /\ ledger' = Put(ledger, <<f>>, <<>>)
  /\ UNCHANGED <<active, memo, confirmed, policy, work, ran, repeated, answered, breaks, drops>>

Revoke(a) ==
  /\ work = Idle /\ a \in Issued /\ ~issued[a].revoked
  /\ issued' = [issued EXCEPT ![a].revoked = TRUE]
  /\ UNCHANGED <<ledger, active, memo, confirmed, policy, work, ran, repeated, answered, breaks,
                 drops>>

(* reconcile_task_authority: the reconciliation id is not bound to another  *)
(* authority, by its revocation or by its lineage.                          *)
Predecessor(x) == SubSeq(x, 1, Len(x) - 1)
BoundElsewhere(a, rid) ==
  \E x \in Issued \ {a} :
    \/ issued[x].recon # None /\ issued[x].recon.req.rid = rid
    \/ Len(x) > 1 /\ x[Len(x)].rid = rid /\ Predecessor(x) # a

OneStranded(a) == Cardinality(Stranded(a)) = 1

Reconcilable(a, q, pinned) ==
  /\ a \in Issued /\ Len(a) <= MaxDepth
  /\ q.target = Binding(a, pinned) /\ q.target = issued[a].target
  /\ ~BoundElsewhere(a, q.rid)
  /\ Readable(a) /\ OneStranded(a)

Reconciling(at, a, q) == [at |-> at, auth |-> a, req |-> q]
Revoking(a, q) ==
  issued' = [issued EXCEPT ![a].revoked = TRUE,
                           ![a].recon = [req |-> q, state |-> "pending",
                                         step |-> CHOOSE k \in Stranded(a) : TRUE]]

(* The predecessor is revoked first. *)
ReconcileRevokes(a, q, pinned) ==
  /\ work = Idle /\ Reconcilable(a, q, pinned) /\ ~issued[a].revoked
  /\ Revoking(a, q)
  /\ work' = Reconciling("replace", a, q)
  /\ UNCHANGED <<ledger, active, memo, confirmed, policy, ran, repeated, answered, breaks, drops>>

SameEvidence_Any(a, q) == issued[a].recon # None   \* mutant: any request resumes
SameEvidence_Never(a, q) == FALSE                  \* mutant: a revoked predecessor is refused
SameEvidence(a, q) == issued[a].recon # None /\ issued[a].recon.req = q

(* A request with the same evidence goes on where it was interrupted. *)
ReconcileResumes(a, q, pinned) ==
  /\ work = Idle /\ Reconcilable(a, q, pinned) /\ SameEvidence(a, q)
  /\ issued[a].recon.state = "pending" \/ Append(a, q) \notin Issued
  /\ work' = Reconciling("replace", a, q)
  /\ UNCHANGED <<issued, ledger, active, memo, confirmed, policy, ran, repeated, answered, breaks,
                 drops>>

(* A replacement that is there already must have a ledger that can be read, *)
(* or the call fails.                                                       *)
ReconcileReplaces ==
  /\ work.at = "replace"
  /\ LET new == Append(work.auth, work.req)
     IN  IF new \in Issued
         THEN /\ work' = IF Readable(new) THEN [work EXCEPT !.at = "complete"] ELSE Idle
              /\ UNCHANGED <<issued, ledger>>
         ELSE /\ issued' = Put(issued, new, Record(issued[work.auth].target))
              /\ ledger' = Put(ledger, new, <<>>)
              /\ work' = [work EXCEPT !.at = "complete"]
  /\ UNCHANGED <<active, memo, confirmed, policy, ran, repeated, answered, breaks, drops>>

ReconcileCompletes ==
  /\ work.at = "complete"
  /\ issued' = [issued EXCEPT ![work.auth].recon.state = "completed"]
  /\ work' = Idle
  /\ UNCHANGED <<ledger, active, memo, confirmed, policy, ran, repeated, answered, breaks, drops>>

(* A page opens or closes tabs of its own. *)
Drift(t) ==
  /\ t # active
  /\ active' = t
  /\ UNCHANGED <<issued, ledger, memo, confirmed, policy, work, ran, repeated, answered, breaks,
                 drops>>

Step ==
  \/ \E a \in Issued, n \in DOMAIN Plan, c \in Cmds, pinned \in BOOLEAN : Submit(a, n, c, pinned)
  \/ \E a \in Issued, n \in DOMAIN Plan, c \in Cmds : BrokerCommand(a, n, c)
  \/ MemoExpires \/ Confirm \/ Deny \/ BrokerGone
  \/ \E success \in BOOLEAN, t \in Targets : Finish(success, t)
  \/ FinishUnwritten \/ Drop \/ Crash
  \/ \E f \in scenario.fresh, t \in Targets : Issue(f, t)
  \/ \E a \in Issued : Revoke(a)
  \/ \E a \in Issued, q \in Requests, pinned \in BOOLEAN :
       ReconcileRevokes(a, q, pinned) \/ ReconcileResumes(a, q, pinned)
  \/ ReconcileReplaces \/ ReconcileCompletes
  \/ \E t \in Targets : Drift(t)

Next == Step /\ UNCHANGED scenario

Spec == Init /\ [][Next]_vars

(* A caller without a tab handle repeats its interrupted reconcile request; *)
(* the worker goes on with what it has begun.                               *)
Repeat(f) == \E q \in Requests : ReconcileResumes(<<f>>, q, FALSE)
FairSpec ==
  /\ Spec
  /\ \A f \in Fresh : SF_vars(Repeat(f) /\ UNCHANGED scenario)
  /\ WF_vars((ReconcileReplaces \/ ReconcileCompletes) /\ UNCHANGED scenario)
  /\ WF_vars((\E success \in BOOLEAN, t \in Targets : Finish(success, t)) /\ UNCHANGED scenario)

-----------------------------------------------------------------------------
(* Type correctness: files, memory and worker hold what the code may put    *)
(* there.                                                                   *)
TypeOK ==
  /\ DOMAIN ledger = Issued
  /\ \A a \in Issued :
       /\ issued[a].target \in Targets /\ issued[a].revoked \in BOOLEAN
       /\ Len(ledger[a]) <= Len(Plan)
       /\ \A k \in DOMAIN ledger[a] : ledger[a][k].outcome \in {"none", "completed", "failed"}
  /\ active \in Targets
  /\ confirmed # None => confirmed \in Issued
  /\ memo # None => memo.auth \in Issued /\ memo.n \in DOMAIN Plan
  /\ work.at \in {"idle", "step", "broker", "replace", "complete"}

(* No step and no command id of an authority is dispatched twice, whatever  *)
(* crashes, lost outcomes and retries come in between.                      *)
StepOnce == ~repeated

(* "The predecessor is durably revoked before a lineage-bound replacement   *)
(* is created": a replacement's predecessor is revoked, by the one request  *)
(* that names the replacement.  So a predecessor has one replacement, also  *)
(* when its request was interrupted and another one was tried.              *)
ReplacementHasCause ==
  \A x \in Issued : Len(x) > 1 =>
    LET a == Predecessor(x)
    IN  a \in Issued /\ issued[a].revoked
        /\ issued[a].recon # None /\ issued[a].recon.req = x[Len(x)]

(* What a lineage says of the predecessor's step stays true: the step it    *)
(* names is the only one without an outcome.                                *)
LineageTrue ==
  \A a \in Issued : issued[a].recon # None => Stranded(a) = {issued[a].recon.step}

(* A reconciliation id belongs to one predecessor. *)
ReconciliationIdBound ==
  \A a, b \in Issued :
    /\ issued[a].recon # None /\ issued[b].recon # None
    /\ issued[a].recon.req.rid = issued[b].recon.req.rid
    => a = b

(* Replacements form lineages that can be traced: one for each stranded     *)
(* step, named by one request under an id of its own.                       *)
LineageSound == TypeOK /\ ReplacementHasCause /\ LineageTrue /\ ReconciliationIdBound

(* Confirmed commands of an authority that were abandoned while they ran.   *)
Runs(a, k) == work.at \in {"step", "broker"} /\ work.auth = a /\ work.n = k
AbandonedSteps(a) ==
  {k \in DOMAIN ledger[a] :
     /\ drops > 0 /\ ~Runs(a, k)
     /\ ledger[a][k].how = "confirmed" /\ ledger[a][k].outcome = "none"}

(* A step above the ceiling "requires a fresh target confirmation": its     *)
(* command was the one confirmed, at the target it was asked for, and a     *)
(* policed step was not run on its caller's word.  What a confirmation set  *)
(* aside (handle_confirm) reaches no other command, unless the confirmed    *)
(* command was abandoned: then its authority stays confirmed, and the       *)
(* policy off, until the daemon ends.                                       *)
FreshConfirmation ==
  \A a \in Issued : \A k \in DOMAIN ledger[a] :
    LET r == ledger[a][k] IN
    /\ AboveCeiling(k) => r.how = "confirmed" \/ \E m \in AbandonedSteps(a) : m < k
    /\ Plan[k] \in Policed => r.how # "direct" \/ \E b \in Issued : AbandonedSteps(b) # {}
    /\ r.at = issued[a].target
    /\ r.how = "confirmed" => r.asked = r.at

Pending(a) == a \in Issued /\ issued[a].recon # None /\ issued[a].recon.state = "pending"
(* The caller's page is elsewhere, or the replacement there is cannot be read. *)
Refused(a) ==
  \/ active # issued[a].target
  \/ Append(a, issued[a].recon.req) \in Issued /\ ~Readable(Append(a, issued[a].recon.req))

(* An interrupted reconciliation completes once its request is repeated     *)
(* ("interrupted and repeated requests resume idempotently"): one that      *)
(* stays pending is refused for ever, because its page does not come back   *)
(* or its replacement's ledger became unreadable.                           *)
ReconciliationResumes ==
  \A f \in Fresh :
    <>[]Pending(<<f>>) => <>[](Pending(<<f>>) /\ (work = Idle => Refused(<<f>>)))

-----------------------------------------------------------------------------
(* What a comment or a document says and the code does not keep: no run     *)
(* checks these; the README names the scenario that refutes each.           *)

(* A ledger the broker wrote is one it accepts when it reads it back. *)
LedgerReadable == \A a \in Issued : Readable(a)

(* "one durable terminal finalizer now covers every ordered post-admission  *)
(* exit before response publication".                                       *)
EveryExitFinalized ==
  \A r \in answered : \A k \in DOMAIN ledger[r[1]] :
    ledger[r[1]][k].cmd = r[3] => ledger[r[1]][k].outcome # "none"
=============================================================================
