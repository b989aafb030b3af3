--------------------------- MODULE PrivateJourney ---------------------------
(***************************************************************************)
(* A private journey from the coordinator's socket to the delivery of its  *)
(* result: private_coordinator.rs, private_bound_execution.rs,             *)
(* private_journey.rs, private_attachment.rs, private_execution.rs,        *)
(* private_delivery.rs, private_controller.rs and private_recovery.rs,     *)
(* over the receipts of private_secret_store.rs.                           *)
(*                                                                         *)
(* Nothing of this is ever undone or tried again: each step leaves a       *)
(* create-new receipt before it acts.  An operation of the store runs      *)
(* under the exclusive lock of its directory, so it is one step here, which*)
(* succeeds, is refused (busy, full, expired), or breaks off and leaves    *)
(* what it had written.  A reference is random and known only once its     *)
(* payload is synced, so payloads are left out: a run stands for the       *)
(* references it has staged.  Runs may fail or be killed after every step, *)
(* and power may fail.  The privacy gate is PrivacyGate; here its epoch is *)
(* the run that began it, on a browser of its own.                         *)
(***************************************************************************)
EXTENDS Integers, FiniteSets

CONSTANTS
  Runs,        \* connections that reach the coordinator's socket
  PlanOf,      \* the approved plan a run asks for
  ConsentOf,   \* the manifest digest of a plan
  SourceOf,    \* the reviewed source slot of a plan's backup code
  CodeOf,      \* the backup code a run brings along
  Recoverers,  \* callers of RecoveryController::recover
  MaxPower     \* bound on power failures

ASSUME JourneyAssumption ==
  /\ IsFiniteSet(Runs)
  /\ DOMAIN PlanOf = Runs /\ DOMAIN CodeOf = Runs
  /\ \A r \in Runs : PlanOf[r] \in DOMAIN ConsentOf \cap DOMAIN SourceOf
  /\ MaxPower \in Nat

VARIABLES
  pc,        \* where each run stands
  stage,     \* journey stage of the gate's epoch, 0 .. 3; -1 without an epoch
  files,     \* receipts: "partial", "unsynced" or "durable"
  done,      \* what the browser was told to do, as pairs of run and action
  detached,  \* runs whose detach the browser has acknowledged
  broker,    \* the tab in the service state: 0 .. 3 for the page of a stage,
             \* Blank once reconciled
  disk,      \* what of `broker` is known to be synced
  delivered, \* runs whose key has been written to the receiver
  installed, \* runs whose key the receiver has installed
  rec,       \* recoverers: epoch, place and the status they have read
  power      \* power failures so far

vars == <<pc, stage, files, done, detached, broker, disk, delivered, installed, rec, power>>

Blank == 4
OperationAt == <<"login", "backup_code", "renew", "read_key">>
Operation(n) == OperationAt[n + 1]
Actions == {Operation(n) : n \in 0 .. 3} \cup {"attach", "sanitize", "detach"}
NoRun == "none"
Idle == [epoch |-> NoRun, at |-> "idle", status |-> "none"]

Active == {"connected", "staged", "claimed", "begun", "reserved", "attaching",
           "attach_sent", "at_stage", "code_reserved", "admitted", "dispatched",
           "stored", "sanitized", "detaching", "detach_acked", "detached", "closed",
           "prepared", "retained", "intent_admitted", "committed", "reconciled",
           "delivering", "key_sent", "key_acked"}

(* Places where the run owns the permit of its epoch. *)
Holding == Active \ {"connected", "staged", "claimed"}

Init ==
  /\ pc = [r \in Runs |-> "connected"] /\ stage = [r \in Runs |-> -1]
  /\ files = <<>> /\ done = {} /\ detached = {}
  /\ broker = [r \in Runs |-> 0] /\ disk = [r \in Runs |-> 0]
  /\ delivered = {} /\ installed = {}
  /\ rec = [k \in Recoverers |-> Idle] /\ power = 0

-----------------------------------------------------------------------------
(* The store. *)

Exists(f) == f \in DOMAIN files

(* What decrypt, or an exact comparison of its bytes, accepts. *)
Whole(f) == Exists(f) /\ files[f] # "partial"

To(r, place) == pc' = [pc EXCEPT ![r] = place]

(* The files with those of `new` written as `left`. *)
Put(new, left, old) ==
  [f \in DOMAIN old \cup new |-> IF f \in new THEN left ELSE old[f]]

(* A create that breaks off before both syncs: Err, and the file may stay.  *)
BreaksOff(f) ==
  \/ UNCHANGED files
  \/ ~Exists(f) /\ \E left \in {"partial", "unsynced"} : files' = Put({f}, left, files)

(* Create-new, with the file and its directory synced. *)
Created(f) == ~Exists(f) /\ files' = Put({f}, "durable", files)

Create(r, f, next) ==
  \/ Created(f) /\ To(r, next)
  \/ BreaksOff(f) /\ To(r, "failed")

Admitted(r, x) == <<"admitted", r, x>>
Result(r, x) == <<"result", r, x>>

(* status(): "staged", "admitted" or "result_ready"; an error for a result  *)
(* that does not decrypt.                                                   *)
Status(r, x) ==
  IF ~Exists(Admitted(r, x)) THEN "staged"
  ELSE IF ~Exists(Result(r, x)) THEN "admitted"
  ELSE IF Whole(Result(r, x)) THEN "result_ready" ELSE "error"

journeyUnchanged == UNCHANGED <<stage, done, detached, broker, disk, delivered, installed, rec, power>>

-----------------------------------------------------------------------------
(* The coordinator: receive the hand-off, claim the plan.                   *)

(* request(): a plan is bound once, whatever the later requests say.        *)
BindPlan(p) ==
  /\ Created(<<"plan", p>>) \/ BreaksOff(<<"plan", p>>)
  /\ UNCHANGED pc /\ journeyUnchanged

StageHandoff(r) ==
  /\ pc[r] = "connected" /\ To(r, "staged")
  /\ UNCHANGED files /\ journeyUnchanged

(* Mutant: the claim looks whether the plan is free and leaves no receipt.  *)
Claim_Checked(r) ==
  /\ pc[r] = "staged" /\ Whole(<<"plan", PlanOf[r]>>)
  /\ ~Exists(<<"claimed", PlanOf[r]>>) /\ To(r, "claimed")
  /\ UNCHANGED files /\ journeyUnchanged

Claim(r) ==
  /\ pc[r] = "staged" /\ Whole(<<"plan", PlanOf[r]>>)
  /\ Create(r, <<"claimed", PlanOf[r]>>, "claimed")
  /\ journeyUnchanged

-----------------------------------------------------------------------------
(* execute_private_journey. *)

(* The worker takes the request; begin_private_journey closes the gate.     *)
BeginJourney(r) ==
  /\ pc[r] = "claimed" /\ To(r, "begun")
  /\ stage' = [stage EXCEPT ![r] = 0]
  /\ UNCHANGED <<files, done, detached, broker, disk, delivered, installed, rec, power>>

(* "Restaging payloads cannot replay a consumed consent": the name of the   *)
(* receipt depends on the consent alone.                                    *)
ConsentKey(r) == <<"consent", ConsentOf[PlanOf[r]]>>

ReserveJourney(r) ==
  /\ pc[r] = "begun"
  /\ Create(r, ConsentKey(r), "reserved")
  /\ journeyUnchanged

AdmitAttach(r) ==
  /\ pc[r] = "reserved"
  /\ Create(r, Admitted(r, "attach"), "attaching")
  /\ journeyUnchanged

(* The browser is told to act; its answer may be lost.                      *)
Dispatch(r, act, next) ==
  /\ done' = done \cup {<<r, act>>}
  /\ To(r, next) \/ To(r, "failed")
  /\ UNCHANGED <<stage, files, broker, disk, delivered, installed, rec, power>>

SendAttach(r) ==
  /\ pc[r] = "attaching"
  /\ Dispatch(r, "attach", "attach_sent") /\ UNCHANGED detached

(* The identity of the attachment is stored; detach is staged.              *)
StoreAttach(r) ==
  /\ pc[r] = "attach_sent"
  /\ Create(r, Result(r, "attach"), "at_stage")
  /\ journeyUnchanged

(* Mutant: the code's receipt is bound to the consent it came with. *)
CodeReceipts_PerConsent(r) ==
  <<<<"reference", r>>, <<"source", ConsentOf[PlanOf[r]], SourceOf[PlanOf[r]]>>,
    <<"code", ConsentOf[PlanOf[r]], CodeOf[r]>>>>

(* The three receipts of reserve_backup_code, in the order they are made.   *)
CodeReceipts(r) ==
  <<<<"reference", r>>, <<"source", SourceOf[PlanOf[r]]>>, <<"code", CodeOf[r]>>>>

(* All three are looked up first; then they are created one by one, and the *)
(* reservation may break off after any number of them.                      *)
ReserveCode(r) ==
  LET receipts == CodeReceipts(r)
      Made(n) == Put({receipts[i] : i \in 1 .. n}, "durable", files) IN
  /\ pc[r] = "at_stage" /\ stage[r] = 1
  /\ IF \E i \in 1 .. 3 : Exists(receipts[i])
     THEN To(r, "failed") /\ UNCHANGED files
     ELSE \/ files' = Made(3) /\ To(r, "code_reserved")
          \/ /\ To(r, "failed")
             /\ \E n \in 0 .. 2 :
                  \/ files' = Made(n)
                  \/ \E left \in {"partial", "unsynced"} :
                       files' = Put({receipts[n + 1]}, left, Made(n))
  /\ journeyUnchanged

AdmitOperation(r) ==
  /\ \/ pc[r] = "at_stage" /\ stage[r] # 1
     \/ pc[r] = "code_reserved"
  /\ Create(r, Admitted(r, Operation(stage[r])), "admitted")
  /\ journeyUnchanged

ExecuteDom(r) ==
  /\ pc[r] = "admitted"
  /\ Dispatch(r, Operation(stage[r]), "dispatched") /\ UNCHANGED detached

StoreOperation(r) ==
  /\ pc[r] = "dispatched"
  /\ Create(r, Result(r, Operation(stage[r])), "stored")
  /\ journeyUnchanged

CanAdvance(r) == pc[r] = "stored" /\ stage[r] < 3

(* advance_private_target: the gate's stage is committed, then the broker   *)
(* is saved with an ordinary mutate(); a process may die in between.        *)
AdvanceTarget(r) ==
  /\ CanAdvance(r)
  /\ stage' = [stage EXCEPT ![r] = @ + 1]
  /\ \/ broker' = [broker EXCEPT ![r] = stage[r] + 1] /\ To(r, "at_stage")
     \/ UNCHANGED broker /\ To(r, "failed")
  /\ UNCHANGED <<files, done, detached, disk, delivered, installed, rec, power>>

-----------------------------------------------------------------------------
(* sanitize_and_close. *)

SanitizePage(r) ==
  /\ pc[r] = "stored" /\ stage[r] = 3
  /\ Dispatch(r, "sanitize", "sanitized") /\ UNCHANGED detached

AdmitDetach(r) ==
  /\ pc[r] = "sanitized"
  /\ Create(r, Admitted(r, "detach"), "detaching")
  /\ journeyUnchanged

(* The acknowledgement must be exactly {}.                                  *)
SendDetach(r) ==
  /\ pc[r] = "detaching"
  /\ Dispatch(r, "detach", "detach_acked")
  /\ detached' = IF pc'[r] = "detach_acked" THEN detached \cup {r} ELSE detached

StoreDetach(r) ==
  /\ pc[r] = "detach_acked"
  /\ Create(r, Result(r, "detach"), "detached")
  /\ journeyUnchanged

(* quiesce_private_transport: see CdpTransport. *)
CloseTransport(r) ==
  /\ pc[r] = "detached" /\ To(r, "closed")
  /\ UNCHANGED files /\ journeyUnchanged

-----------------------------------------------------------------------------
(* reconcile. *)

PrepareIntent(r) ==
  /\ pc[r] = "closed"
  /\ Whole(Result(r, "read_key")) /\ Whole(Result(r, "detach"))
  /\ Create(r, <<"bookmark", r>>, "prepared")
  /\ journeyUnchanged

(* RecoveryController::retain, in a journal of its own.                     *)
RetainAuthority(r) ==
  /\ pc[r] = "prepared"
  /\ Status(r, "intent") = "staged" /\ Whole(<<"bookmark", r>>)
  /\ Create(r, <<"authority", r>>, "retained")
  /\ journeyUnchanged

(* Mutant: the intent is admitted before its authority is retained. *)
IntentReady_Prepared(r) == pc[r] \in {"prepared", "retained"}
IntentReady(r) == pc[r] = "retained"

AdmitIntent(r) ==
  /\ IntentReady(r)
  /\ Create(r, Admitted(r, "intent"), "intent_admitted")
  /\ journeyUnchanged

(* Mutant: the broker is saved with an ordinary mutate(). *)
Blanked_Unsynced(r) == broker' = [broker EXCEPT ![r] = Blank] /\ UNCHANGED disk

(* try_mutate_durable: what is synced contains every earlier save.          *)
Blanked(r) == broker' = [broker EXCEPT ![r] = Blank] /\ disk' = broker'

(* It may also fail after the renames, before the syncs.                    *)
BlankBreaksOff(r) ==
  /\ broker' \in {broker, [broker EXCEPT ![r] = Blank]} /\ UNCHANGED disk

CommitBroker(r) ==
  /\ pc[r] = "intent_admitted"
  /\ \/ broker[r] = 3 /\ Blanked(r) /\ To(r, "committed")
     \/ broker[r] = 3 /\ BlankBreaksOff(r) /\ To(r, "failed")
     \/ broker[r] # 3 /\ To(r, "failed") /\ UNCHANGED <<broker, disk>>
  /\ UNCHANGED <<stage, files, done, detached, delivered, installed, rec, power>>

StoreCompletion(r) ==
  /\ pc[r] = "committed"
  /\ Create(r, Result(r, "intent"), "reconciled")
  /\ journeyUnchanged

-----------------------------------------------------------------------------
(* deliver. *)

Deliverable(r) == pc[r] = "reconciled" /\ Whole(Result(r, "intent"))

AdmitDelivery(r) ==
  /\ Deliverable(r) /\ Exists(Result(r, "read_key"))
  /\ Create(r, <<"delivery-admitted", r>>, "delivering")
  /\ journeyUnchanged

SendKey(r) ==
  /\ pc[r] = "delivering" /\ Whole(Result(r, "read_key"))
  /\ delivered' = delivered \cup {r} /\ To(r, "key_sent")
  /\ UNCHANGED <<stage, files, done, detached, broker, disk, installed, rec, power>>

(* The receiver (external) installs what it was sent. *)
Install(r) ==
  /\ r \in delivered \ installed /\ installed' = installed \cup {r}
  /\ UNCHANGED <<pc, stage, files, done, detached, broker, disk, delivered, rec, power>>

Acknowledged(r) == pc[r] = "key_sent" /\ r \in installed

ReadAck(r) ==
  /\ Acknowledged(r) /\ To(r, "key_acked")
  /\ UNCHANGED files /\ journeyUnchanged

CompleteDelivery(r) ==
  /\ pc[r] = "key_acked" /\ Whole(<<"delivery-admitted", r>>)
  /\ Create(r, <<"delivery", r>>, "delivered")
  /\ journeyUnchanged

(* An error, an expiry, a timeout, a cancelled future or a killed process;  *)
(* the permit is dropped, the gate's record stays.                          *)
Fail(r) ==
  /\ pc[r] \in Active /\ To(r, "failed")
  /\ UNCHANGED files /\ journeyUnchanged

-----------------------------------------------------------------------------
(* Recovery. *)

RecTo(k, e, place, status) == rec' = [rec EXCEPT ![k] = [epoch |-> e, at |-> place, status |-> status]]

recUnchanged == UNCHANGED <<pc, stage, done, detached, delivered, installed, power>>

Recoverable(r) == Status(r, "intent") \in {"admitted", "result_ready"}

(* Everything recover() asks of the two stores before it asks for the gate. *)
Evidence(r) ==
  /\ Whole(<<"authority", r>>) /\ Whole(<<"bookmark", r>>)
  /\ Status(r, "read_key") = "result_ready"
  /\ Status(r, "detach") = "result_ready" /\ Status(r, "attach") = "result_ready"

RecoverReads(k, r) ==
  /\ rec[k].at = "idle" /\ Evidence(r) /\ Recoverable(r)
  /\ RecTo(k, r, "read", Status(r, "intent"))
  /\ recUnchanged /\ UNCHANGED <<files, broker, disk>>

Recovering(k, r) == rec[k].epoch = r /\ rec[k].at \in {"permit", "committed"}

PermitFree(r) == pc[r] \notin Holding /\ \A k \in Recoverers : ~Recovering(k, r)

(* resume_private. *)
RecoverResumes(k) ==
  LET r == rec[k].epoch IN
  /\ rec[k].at = "read" /\ PermitFree(r) /\ stage[r] = 3
  /\ RecTo(k, r, "permit", rec[k].status)
  /\ recUnchanged /\ UNCHANGED <<files, broker, disk>>

(* The broker either shows the page of the last stage, or is blank already. *)
BrokerAccepts(r, status) ==
  \/ broker[r] = 3 /\ status # "result_ready"
  \/ broker[r] = Blank

RecoverCommits(k) ==
  LET r == rec[k].epoch IN
  /\ rec[k].at = "permit" /\ BrokerAccepts(r, rec[k].status)
  /\ \/ Blanked(r) /\ RecTo(k, r, "committed", rec[k].status)
     \/ BlankBreaksOff(r) /\ rec' = [rec EXCEPT ![k] = Idle]
  /\ recUnchanged /\ UNCHANGED files

RecoverCompletes(k) ==
  LET f == Result(rec[k].epoch, "intent") IN
  /\ rec[k].at = "committed" /\ rec' = [rec EXCEPT ![k] = Idle]
  /\ IF rec[k].status = "admitted" THEN Created(f) \/ BreaksOff(f) ELSE UNCHANGED files
  /\ recUnchanged /\ UNCHANGED <<broker, disk>>

RecoverFails(k) ==
  /\ rec[k].at # "idle" /\ rec' = [rec EXCEPT ![k] = Idle]
  /\ recUnchanged /\ UNCHANGED <<files, broker, disk>>

-----------------------------------------------------------------------------
(* Every process is gone; a file that was not synced, and a broker record,  *)
(* come back in any state they were in.                                     *)
PowerFails ==
  /\ power < MaxPower /\ power' = power + 1
  /\ pc' = [r \in Runs |-> IF pc[r] \in Active \ {"connected"} THEN "failed" ELSE pc[r]]
  /\ rec' = [k \in Recoverers |-> Idle]
  /\ \E kept \in SUBSET {f \in DOMAIN files : files[f] # "durable"} :
       files' = [f \in {g \in DOMAIN files : files[g] = "durable"} \cup kept |->
                   IF files[f] = "partial" THEN "partial" ELSE "durable"]
  /\ broker' \in [Runs -> 0 .. Blank] /\ \A r \in Runs : disk[r] <= broker'[r] /\ broker'[r] <= broker[r]
  /\ disk' = broker'
  /\ UNCHANGED <<stage, done, detached, delivered, installed>>

-----------------------------------------------------------------------------
RunStep(r) ==
  \/ StageHandoff(r) \/ Claim(r) \/ BeginJourney(r) \/ ReserveJourney(r)
  \/ AdmitAttach(r) \/ SendAttach(r) \/ StoreAttach(r)
  \/ ReserveCode(r) \/ AdmitOperation(r) \/ ExecuteDom(r) \/ StoreOperation(r)
  \/ AdvanceTarget(r)
  \/ SanitizePage(r) \/ AdmitDetach(r) \/ SendDetach(r) \/ StoreDetach(r) \/ CloseTransport(r)
  \/ PrepareIntent(r) \/ RetainAuthority(r) \/ AdmitIntent(r) \/ CommitBroker(r) \/ StoreCompletion(r)
  \/ AdmitDelivery(r) \/ SendKey(r) \/ Install(r) \/ ReadAck(r) \/ CompleteDelivery(r)
  \/ Fail(r)

RecovererStep(k) ==
  \/ \E r \in Runs : RecoverReads(k, r)
  \/ RecoverResumes(k) \/ RecoverCommits(k) \/ RecoverCompletes(k) \/ RecoverFails(k)

Next ==
  \/ \E p \in DOMAIN ConsentOf : BindPlan(p)
  \/ \E r \in Runs : RunStep(r)
  \/ \E k \in Recoverers : RecovererStep(k)
  \/ PowerFails

Spec == Init /\ [][Next]_vars

-----------------------------------------------------------------------------
(* Properties. *)

TypeOK ==
  /\ pc \in [Runs -> Active \cup {"failed", "delivered"}]
  /\ stage \in [Runs -> -1 .. 3]
  /\ \A f \in DOMAIN files : files[f] \in {"partial", "unsynced", "durable"}
  /\ done \subseteq Runs \X Actions
  /\ detached \subseteq Runs /\ delivered \subseteq Runs /\ installed \subseteq Runs
  /\ broker \in [Runs -> 0 .. Blank] /\ disk \in [Runs -> 0 .. Blank]
  /\ \A k \in Recoverers :
       /\ rec[k].epoch \in Runs \cup {NoRun}
       /\ rec[k].at \in {"idle", "read", "permit", "committed"}
       /\ rec[k].status \in {"none", "staged", "admitted", "result_ready", "error"}
  /\ power \in 0 .. MaxPower

(* private_bound_execution.rs: "Persist the irreversible receipt before     *)
(* returning anything queueable ... competing and reopened claims fail      *)
(* closed": one plan begins at most one private epoch.                      *)
PlanOnce ==
  \A q, r \in Runs : q # r /\ stage[q] >= 0 /\ stage[r] >= 0 => PlanOf[q] # PlanOf[r]

(* reserve_backup_code: a code is typed into a page once, and a source slot *)
(* used once, across consents, restarts, broken reservations and power      *)
(* failures.                                                                *)
CodeOnce ==
  \A q, r \in Runs :
    q # r /\ <<q, "backup_code">> \in done /\ <<r, "backup_code">> \in done
      => CodeOf[q] # CodeOf[r] /\ SourceOf[PlanOf[q]] # SourceOf[PlanOf[r]]

(* recover_reconciliation: the broker is blanked, by the run or by a        *)
(* recovery, only for a journey that has read its key, blanked the page and *)
(* had its detach acknowledged, with the evidence for it stored and, power  *)
(* failures apart, under an admitted intent.                                *)
BlankedWithCause ==
  \A r \in Runs : broker[r] = Blank =>
    /\ r \in detached /\ {<<r, "read_key">>, <<r, "sanitize">>} \subseteq done
    /\ Evidence(r)
    /\ power = 0 => Exists(Admitted(r, "intent"))

(* reconcile: "any error leaves that intent and the private gate closed for *)
(* recovery": an admitted intent finds everything recover() will ask for,   *)
(* and with no power failure a broker it accepts, unless its completion     *)
(* receipt was broken off.                                                  *)
IntentRecoverable ==
  \A r \in Runs : Exists(Admitted(r, "intent")) =>
    /\ Evidence(r) /\ stage[r] = 3
    /\ Status(r, "intent") # "error" /\ power = 0 => BrokerAccepts(r, Status(r, "intent"))

(* A completion receipt is true: the broker's record is blank, and stays so *)
(* through a loss of power.                                                 *)
CompletionTrue ==
  \A r \in Runs : Whole(Result(r, "intent")) => broker[r] = Blank /\ disk[r] = Blank

(* deliver: "Only this typed, reconciled success can produce a private      *)
(* delivery"; and what is recorded as delivered was installed.              *)
DeliveredWithCause ==
  \A r \in Runs :
    /\ r \in delivered => Whole(Result(r, "intent")) /\ Exists(<<"delivery-admitted", r>>)
    /\ Exists(<<"delivery", r>>) => r \in installed

(* Whatever a journey leaves outside its own store (a blank broker record,  *)
(* a completion, a delivered key) rests on what must come before it.        *)
EffectsHaveCause == TypeOK /\ BlankedWithCause /\ CompletionTrue /\ DeliveredWithCause

-----------------------------------------------------------------------------
(* What a comment says and the code does not keep: no run checks this; the  *)
(* README names the steps that refute it.                                   *)

(* private_journey.rs:104, "A durable intent precedes broker changes".      *)
(* recover() acts on an admission receipt it finds, synced or not.          *)
DurableIntentFirst ==
  \A r \in Runs : broker[r] = Blank => Exists(Admitted(r, "intent"))
=============================================================================
