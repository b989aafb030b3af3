------------------------- MODULE TaskConfirmations -------------------------
(***************************************************************************)
(* The confirmations of the task-authority controls (issue, reconcile,     *)
(* revoke) of one session: the durable ledger of task_authority.rs         *)
(* (pending.json, one decision receipt for each id, the retired ids) and   *)
(* the confirmation in memory that actions.rs keeps beside it.             *)
(*                                                                         *)
(* The daemon's worker runs one command at a time.  A file is written      *)
(* beside its place and renamed, so one write is one step; an operation of *)
(* several writes is several steps of `op`, between which the daemon may   *)
(* be killed or a write may fail.  The confirmed command itself is awaited,*)
(* so its job may also be cancelled or time out there.  A confirmation     *)
(* other than these three controls lives in memory only: Other stands for  *)
(* it.  What a decision is compared with (action, actor, target, URL,      *)
(* digest) is one Boolean.  Receipts are ordered by the time they were     *)
(* staged, which is their order by age: a session stages its next control  *)
(* only when the one before it is decided.                                 *)
(***************************************************************************)
EXTENDS Integers, FiniteSets

CONSTANTS
  None, Other,     \* nothing; the confirmation of any other action
  Ids,             \* command ids of controls, which callers choose and reuse
  LegacyIds,       \* ids retired in a tombstone file of the first version
  SegmentCapacity, \* CONFIRMATION_TOMBSTONE_SEGMENT_CAPACITY (256)
  Restage,         \* callers stage an id again whose record has expired
  Retains,         \* values of retainCount
  MaxStages,       \* bound on accepted stagings
  MaxBreaks        \* bound on crashes, failed writes and abandoned commands

ASSUME ConfirmationAssumption ==
  /\ Ids \subseteq Nat /\ IsFiniteSet(Ids)
  /\ None \notin Ids /\ Other \notin Ids /\ None # Other
  /\ LegacyIds \subseteq Ids
  /\ SegmentCapacity \in Nat \ {0}
  /\ Restage \in BOOLEAN /\ Retains \subseteq Nat
  /\ MaxStages \in Nat /\ MaxBreaks \in Nat

VARIABLES
  pending,   \* pending.json
  mem,       \* DaemonState::pending_confirmation
  receipts,  \* state of each id's receipt; "none" without one
  stagedAt,  \* when the record of an id's receipt was staged
  manifest,  \* retired-ids.json
  segments,  \* files of retired-id-segments, left-over ones included
  op,        \* the operation the worker is in the middle of
  review,    \* the last cleanup preview a caller holds
  now,       \* stagings so far
  runs,      \* how often an id's command was dispatched
  lost,      \* ids dispatched whose result nobody recorded
  breaks     \* interruptions so far

vars == <<pending, mem, receipts, stagedAt, manifest, segments, op, review, now, runs, lost, breaks>>

NoSegment == [prev |-> None, ids |-> {}]
Idle == [at |-> "idle", id |-> None, next |-> "end", new |-> None, man |-> None, cands |-> {}]

Safe == {"completed", "failed", "denied", "expired", "invalidated"}
States == Safe \cup {"none", "dispatched"}
MaxSegments == Cardinality(Ids) \div SegmentCapacity + 1

Init ==
  /\ pending = None /\ mem = None /\ op = Idle /\ review = None
  /\ receipts = [i \in Ids |-> "none"]
  /\ stagedAt = [i \in Ids |-> 0]
  /\ manifest = [form |-> IF LegacyIds = {} THEN "absent" ELSE "legacy",
                 active |-> LegacyIds, count |-> 0, head |-> NoSegment]
  /\ segments = [n \in 1 .. MaxSegments |-> NoSegment]
  /\ now = 0 /\ breaks = 0
  /\ runs = [i \in Ids |-> 0]
  /\ lost = {}

-----------------------------------------------------------------------------
(* load_confirmation_tombstones: the chain of segments the manifest counts, *)
(* its head, and that no id is retired twice.                               *)
Segment(n) == IF n = 0 THEN NoSegment ELSE segments[n]
Chained(n) ==
  /\ segments[n].ids # {}
  /\ Cardinality(segments[n].ids) <= SegmentCapacity
  /\ segments[n].prev = Segment(n - 1)
SegmentIds == UNION {segments[n].ids : n \in 1 .. manifest.count}
RetiredIds == SegmentIds \cup manifest.active
Verifies ==
  manifest.form = "v2" =>
    /\ Cardinality(manifest.active) <= SegmentCapacity
    /\ \A n \in 1 .. manifest.count :
         /\ Chained(n)
         /\ \A k \in 1 .. n - 1 : segments[k].ids \cap segments[n].ids = {}
    /\ manifest.head = Segment(manifest.count)
    /\ SegmentIds \cap manifest.active = {}

HasReceipt(i) == receipts[i] # "none"
Decided(p) == p # None /\ HasReceipt(p.id)

(* load_task_authority_pending_confirmation: a record that has a receipt is *)
(* removed where it is found.                                               *)
Loaded == IF Decided(pending) THEN None ELSE pending

(* A caller may name an id again unless it was decided or retired. *)
Unused_ReceiptOnly(i) == ~HasReceipt(i)   \* mutant: tombstones not read
Unused(i) == Verifies /\ ~HasReceipt(i) /\ i \notin RetiredIds

(* archive_confirmation: the first receipt stands; the same one, of the     *)
(* same record, may be written again.                                       *)
Archivable(state) ==
  LET i == pending.id
  IN  receipts[i] = "none" \/ (receipts[i] = state /\ stagedAt[i] = pending.at)
Archive(state) ==
  /\ receipts' = [receipts EXCEPT ![pending.id] = state]
  /\ stagedAt' = [stagedAt EXCEPT ![pending.id] = pending.at]

Live(m) == m # None /\ ~m.expired
Archived(i, next, new) ==
  [Idle EXCEPT !.at = "archived", !.id = i, !.next = next, !.new = new]

-----------------------------------------------------------------------------
(* Staging: stage_confirmation and stage_task_authority_confirmation.       *)

WritePending(i) ==
  /\ pending' = [id |-> i, expired |-> FALSE, at |-> now + 1]
  /\ mem' = [id |-> i, durable |-> TRUE, expired |-> FALSE]
  /\ now' = now + 1

(* The record in the way has expired: it gets its receipt first. *)
ExpireInTheWay(next, new) ==
  /\ Archivable("expired")
  /\ Archive("expired")
  /\ op' = Archived(pending.id, next, new)
  /\ mem' = None
  /\ UNCHANGED <<pending, now>>

StageControl(i) ==
  /\ op = Idle /\ ~Live(mem) /\ now < MaxStages /\ Unused(i)
  /\ \/ /\ pending = None
        /\ WritePending(i)
        /\ UNCHANGED <<receipts, stagedAt, op>>
     \/ /\ pending # None /\ pending.expired
        /\ Restage \/ pending.id # i
        /\ ExpireInTheWay("stage", i)
  /\ UNCHANGED <<manifest, segments, review, runs, lost, breaks>>

(* A confirmation of another action first looks for a pending control. *)
StageOther ==
  /\ op = Idle /\ ~Live(mem)
  /\ \/ /\ Loaded = None
        /\ pending' = None
        /\ mem' = [id |-> Other, durable |-> FALSE, expired |-> FALSE]
        /\ UNCHANGED <<receipts, stagedAt, op, now>>
     \/ /\ Loaded # None /\ pending.expired
        /\ ExpireInTheWay("other", None)
  /\ UNCHANGED <<manifest, segments, review, runs, lost, breaks>>

(* Refused because a record is still pending; only an expired confirmation  *)
(* in memory is forgotten.                                                  *)
StageRefused ==
  /\ op = Idle /\ mem # None /\ mem.expired
  /\ mem' = None
  /\ UNCHANGED <<pending, receipts, stagedAt, manifest, segments, op, review, now, runs, lost,
                 breaks>>

(* The confirmation in memory is stamped before the record on disk. *)
Expire ==
  /\ \/ /\ mem # None /\ ~mem.expired
        /\ mem' = [mem EXCEPT !.expired = TRUE]
        /\ UNCHANGED pending
     \/ /\ pending # None /\ ~pending.expired
        /\ Live(mem) => ~mem.durable
        /\ pending' = [pending EXCEPT !.expired = TRUE]
        /\ UNCHANGED mem
  /\ UNCHANGED <<receipts, stagedAt, manifest, segments, op, review, now, runs, lost, breaks>>

-----------------------------------------------------------------------------
(* Deciding: handle_confirm, handle_deny.                                   *)

Verdict(d) == IF d = "confirm" THEN "dispatched" ELSE "denied"

(* The durable record is decided whatever the caller meant; a mismatch      *)
(* consumes it.                                                             *)
DecideDurable(i, d, ok) ==
  LET state == CASE pending.expired -> "expired"
                 [] pending.id # i \/ ~ok -> "invalidated"
                 [] OTHER -> Verdict(d)
  IN  /\ Loaded # None
      /\ Archive(state)
      /\ op' = Archived(pending.id, IF state = "dispatched" THEN "run" ELSE "end", None)
      /\ mem' = None
      /\ UNCHANGED pending

(* decidedBy or expectedAction is missing: refused after the confirmation   *)
(* in memory is gone.                                                       *)
DecideMalformed ==
  /\ Loaded # None
  /\ mem' = None
  /\ UNCHANGED <<pending, receipts, stagedAt, op>>

DecideOther(i, d, ok) ==
  /\ Loaded = None
  /\ pending' = None
  /\ IF mem = None \/ (mem # None /\ mem.durable)
     THEN UNCHANGED <<mem, op>>
     ELSE /\ mem' = None
          /\ op' = IF d = "confirm" /\ i = Other /\ ok /\ ~mem.expired
                   THEN [Idle EXCEPT !.at = "run", !.id = Other] ELSE Idle
  /\ UNCHANGED <<receipts, stagedAt>>

Decide(i, d, ok) ==
  /\ op = Idle
  /\ DecideDurable(i, d, ok) \/ DecideMalformed \/ DecideOther(i, d, ok)
  /\ UNCHANGED <<manifest, segments, review, now, runs, lost, breaks>>

Status ==
  /\ op = Idle
  /\ pending' = Loaded
  /\ UNCHANGED <<mem, receipts, stagedAt, manifest, segments, op, review, now, runs, lost, breaks>>

(* remove_pending_confirmation, and what the operation goes on with. *)
RemovePending ==
  /\ op.at = "archived"
  /\ CASE op.next = "run" ->
            /\ pending' = None
            /\ op' = [Idle EXCEPT !.at = "run", !.id = op.id]
            /\ runs' = [runs EXCEPT ![op.id] = @ + 1]
            /\ UNCHANGED <<mem, now>>
       [] op.next = "end" ->
            /\ pending' = None /\ op' = Idle
            /\ UNCHANGED <<mem, now, runs>>
       [] op.next = "other" ->
            /\ pending' = None /\ op' = Idle
            /\ mem' = [id |-> Other, durable |-> FALSE, expired |-> FALSE]
            /\ UNCHANGED <<now, runs>>
       [] op.next = "stage" ->
            /\ pending' = None /\ op' = [Idle EXCEPT !.at = "stage", !.id = op.new]
            /\ UNCHANGED <<mem, now, runs>>
  /\ UNCHANGED <<receipts, stagedAt, manifest, segments, review, lost, breaks>>

StageWrites ==
  /\ op.at = "stage"
  /\ WritePending(op.id)
  /\ op' = Idle
  /\ UNCHANGED <<receipts, stagedAt, manifest, segments, review, runs, lost, breaks>>

(* finalize_task_authority_confirmation. *)
RunReturns(success) ==
  /\ op.at = "run"
  /\ IF op.id = Other THEN UNCHANGED receipts
     ELSE /\ receipts[op.id] = "dispatched"
          /\ receipts' = [receipts EXCEPT ![op.id] = IF success THEN "completed" ELSE "failed"]
  /\ op' = Idle
  /\ UNCHANGED <<pending, mem, stagedAt, manifest, segments, review, now, runs, lost, breaks>>

-----------------------------------------------------------------------------
(* Cleanup: cleanup_task_authority_confirmations.                           *)

Indeterminate(i) == receipts[i] = "dispatched"

SafeRecords == {i \in Ids : HasReceipt(i) /\ ~Indeterminate(i)}
Candidates_OffByOne(retain, cutoff) ==   \* mutant: one more is always retained
  {i \in SafeRecords :
     /\ Cardinality({j \in SafeRecords : stagedAt[j] <= stagedAt[i]}) + retain
          < Cardinality(SafeRecords)
     /\ stagedAt[i] <= cutoff}
Candidates(retain, cutoff) ==
  {i \in SafeRecords :
     /\ Cardinality({j \in SafeRecords : stagedAt[j] <= stagedAt[i]}) + retain
          <= Cardinality(SafeRecords)
     /\ stagedAt[i] <= cutoff}
Review(retain, cutoff) ==
  [retain |-> retain, ledger |-> manifest,
   candidates |-> {<<i, receipts[i]>> : i \in Candidates(retain, cutoff)}]

Preview(retain, cutoff) ==
  /\ op = Idle /\ Verifies
  /\ review' = Review(retain, cutoff)
  /\ UNCHANGED <<pending, mem, receipts, stagedAt, manifest, segments, op, now, runs, lost, breaks>>

Migrated == [manifest EXCEPT !.form = "v2"]

(* Mutant: receipts are removed before their ids are retired. *)
Apply_RemoveFirst(cutoff) ==
  /\ op = Idle /\ Verifies /\ review # None
  /\ review = Review(review.retain, cutoff)
  /\ LET cands == Candidates(review.retain, cutoff)
     IN  /\ cands # {} /\ cands \cap RetiredIds = {}
         /\ receipts' = [i \in Ids |-> IF i \in cands THEN "none" ELSE receipts[i]]
         /\ op' = [Idle EXCEPT !.at = "persist",
                               !.man = [Migrated EXCEPT !.active = @ \cup cands]]
  /\ UNCHANGED <<pending, mem, stagedAt, manifest, segments, review, now, runs, lost, breaks>>

(* Apply is refused unless the review is the current one, and by            *)
(* persist_confirmation_tombstones when an id is retired already.           *)
Apply(cutoff) ==
  /\ op = Idle /\ Verifies /\ review # None
  /\ review = Review(review.retain, cutoff)
  /\ LET cands == Candidates(review.retain, cutoff)
     IN  /\ cands # {} \/ manifest.form = "legacy"
         /\ cands \cap RetiredIds = {}
         /\ op' = [Idle EXCEPT !.at = "persist", !.cands = cands,
                               !.man = [Migrated EXCEPT !.active = @ \cup cands]]
  /\ UNCHANGED <<pending, mem, receipts, stagedAt, manifest, segments, review, now, runs, lost,
                 breaks>>

(* The lowest ids fill the next segment. *)
Oldest(active) ==
  CHOOSE s \in SUBSET active :
    /\ Cardinality(s) = SegmentCapacity
    /\ \A i \in s, j \in active \ s : i < j

(* Mutant: the head of the chain is not moved on. *)
PersistSegment_StaleHead ==
  /\ op.at = "persist" /\ Cardinality(op.man.active) > SegmentCapacity
  /\ LET full == [prev |-> op.man.head, ids |-> Oldest(op.man.active)]
     IN  /\ segments' = [segments EXCEPT ![op.man.count + 1] = full]
         /\ op' = [op EXCEPT !.man.active = @ \ full.ids, !.man.count = @ + 1]
  /\ UNCHANGED <<pending, mem, receipts, stagedAt, manifest, review, now, runs, lost, breaks>>

PersistSegment ==
  /\ op.at = "persist" /\ Cardinality(op.man.active) > SegmentCapacity
  /\ LET full == [prev |-> op.man.head, ids |-> Oldest(op.man.active)]
     IN  /\ segments' = [segments EXCEPT ![op.man.count + 1] = full]
         /\ op' = [op EXCEPT !.man.active = @ \ full.ids, !.man.count = @ + 1, !.man.head = full]
  /\ UNCHANGED <<pending, mem, receipts, stagedAt, manifest, review, now, runs, lost, breaks>>

(* The manifest is read back before any receipt goes. *)
PersistManifest ==
  /\ op.at = "persist" /\ Cardinality(op.man.active) <= SegmentCapacity
  /\ manifest' = op.man
  /\ op' = IF op.cands = {} THEN Idle ELSE [op EXCEPT !.at = "remove"]
  /\ UNCHANGED <<pending, mem, receipts, stagedAt, segments, review, now, runs, lost, breaks>>

RemoveReceipt ==
  /\ op.at = "remove"
  /\ \E i \in op.cands :
       /\ \A j \in op.cands : stagedAt[i] <= stagedAt[j]
       /\ receipts' = [receipts EXCEPT ![i] = "none"]
       /\ op' = IF op.cands = {i} THEN Idle ELSE [op EXCEPT !.cands = @ \ {i}]
  /\ UNCHANGED <<pending, mem, stagedAt, manifest, segments, review, now, runs, lost, breaks>>

-----------------------------------------------------------------------------
(* A write fails, or the job of a running command is cancelled or times out *)
(* (`BreaksOff`); or the daemon is killed and another starts with an empty  *)
(* memory.                                                                  *)
Forgotten == IF op.at = "run" /\ op.id \in Ids THEN lost \cup {op.id} ELSE lost
BreaksOff ==
  /\ op # Idle /\ breaks < MaxBreaks
  /\ op' = Idle
  /\ lost' = Forgotten
  /\ breaks' = breaks + 1
  /\ UNCHANGED <<pending, mem, receipts, stagedAt, manifest, segments, review, now, runs>>

Crash ==
  /\ breaks < MaxBreaks
  /\ op' = Idle /\ mem' = None
  /\ lost' = Forgotten
  /\ breaks' = breaks + 1
  /\ UNCHANGED <<pending, receipts, stagedAt, manifest, segments, review, now, runs>>

Next ==
  \/ \E i \in Ids : StageControl(i)
  \/ StageOther \/ StageRefused \/ Expire \/ Status
  \/ \E i \in Ids \cup {Other}, d \in {"confirm", "deny"}, ok \in BOOLEAN : Decide(i, d, ok)
  \/ RemovePending \/ StageWrites
  \/ \E success \in BOOLEAN : RunReturns(success)
  \/ \E retain \in Retains, cutoff \in 0 .. now : Preview(retain, cutoff)
  \/ \E cutoff \in 0 .. now : Apply(cutoff)
  \/ PersistSegment \/ PersistManifest \/ RemoveReceipt
  \/ BreaksOff \/ Crash

Spec == Init /\ [][Next]_vars

(* An operator who keeps asking for everything to be cleaned up, previews   *)
(* again when the review is stale, and applies it; the worker goes on with  *)
(* what it has begun.                                                       *)
PreviewAll == review # Review(0, now) /\ Preview(0, now)
FairSpec ==
  /\ Spec
  /\ SF_vars(PreviewAll) /\ SF_vars(Apply(now))
  /\ WF_vars(RemovePending \/ StageWrites \/ PersistSegment \/ PersistManifest \/ RemoveReceipt)
  /\ WF_vars(RunReturns(TRUE) \/ RunReturns(FALSE))

-----------------------------------------------------------------------------
(* Type correctness: files and memory hold the values the code may write. *)
TypeOK ==
  /\ pending = None \/ pending \in [id : Ids, expired : BOOLEAN, at : 0 .. MaxStages]
  /\ mem = None \/ mem \in [id : Ids \cup {Other}, durable : BOOLEAN, expired : BOOLEAN]
  /\ receipts \in [Ids -> States]
  /\ stagedAt \in [Ids -> 0 .. MaxStages] /\ now \in 0 .. MaxStages
  /\ manifest.form \in {"absent", "legacy", "v2"}
  /\ manifest.active \subseteq Ids /\ manifest.count \in 0 .. MaxSegments
  /\ \A n \in 1 .. MaxSegments : segments[n].ids \subseteq Ids
  /\ op.at \in {"idle", "archived", "stage", "run", "persist", "remove"}
  /\ op.cands \subseteq Ids
  /\ lost \subseteq Ids /\ breaks \in 0 .. MaxBreaks

(* The command of a confirmation id is dispatched at most once, whatever    *)
(* restarts, retried stagings and cleanups come in between ("retries cannot *)
(* replay or restage").                                                     *)
DispatchedOnce == \A i \in Ids : runs[i] <= 1

(* A dispatched command of which no result was recorded keeps its receipt,  *)
(* which no cleanup removes and no later decision replaces.                 *)
LostStaysVisible == \A i \in lost : receipts[i] = "dispatched"

(* The ledger of retired ids passes its own verification whenever the       *)
(* worker reads it, also after a persist that broke off between a segment   *)
(* and the manifest.                                                        *)
LedgerVerifies == op = Idle => Verifies

(* While another action's confirmation is live in memory no control awaits  *)
(* a decision, so a decision of the one never consumes the other.           *)
OneLivePending ==
  Live(mem) /\ ~mem.durable => Loaded = None \/ pending.expired

(* One decision, one dispatch: no command of a control runs twice, is lost  *)
(* without trace or is run for the decision of another action.              *)
DispatchSound == TypeOK /\ DispatchedOnce /\ LostStaysVisible /\ OneLivePending

(* A decision receipt changes only from dispatched to its result, and goes  *)
(* only once its id is retired; a retired id stays retired.                 *)
DecisionFinal ==
  [][/\ \A i \in Ids :
          receipts[i] # "none" =>
            \/ receipts'[i] = receipts[i]
            \/ receipts[i] = "dispatched" /\ receipts'[i] \in {"completed", "failed"}
            \/ receipts'[i] = "none" /\ i \in RetiredIds
     /\ RetiredIds \subseteq RetiredIds']_vars

(* A receipt with a known result is removed in the end by an operator who   *)
(* keeps cleaning up ("bounded, audited terminal receipt cleanup"), unless  *)
(* a command breaks off or the id of a receipt is retired already: after    *)
(* either, receipts may stay for good.                                      *)
Spoiled == breaks > 0 \/ (op = Idle /\ \E i \in RetiredIds : receipts[i] # "none")
CleanupFinishes ==
  \A i \in Ids : receipts[i] \in Safe ~> receipts[i] = "none" \/ Spoiled

-----------------------------------------------------------------------------
(* What a comment or a document says and the code does not keep: no run     *)
(* checks these; the README names the scenario that refutes each.           *)

(* "removed confirmation IDs remain non-reusable": the command of a retired *)
(* id is not dispatched.                                                    *)
RetiredNotReused == [][\A i \in RetiredIds : runs'[i] = runs[i]]_vars

(* "A process stop after that commit therefore leaves an indeterminate      *)
(* receipt and no pending command": between two operations no decided       *)
(* record is pending.                                                       *)
NothingPendingAfterCommit == op = Idle => ~Decided(pending)
=============================================================================
