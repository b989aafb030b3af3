---------------------------- MODULE PrivacyGate ----------------------------
(***************************************************************************)
(* The privacy gate of one browser endpoint: privacy_gate.rs over the gate *)
(* directory of private_secret_store.rs, with the uses cdp/client.rs makes *)
(* of it.  Every process that talks to the endpoint shares the directory.  *)
(*                                                                         *)
(* Public work (a CDP command, a message shown to an observer, raw inspect *)
(* traffic) runs under a shared lock of the directory; a private interval  *)
(* runs under the exclusive lock and leaves a durable record, so that it   *)
(* stays closed to the public when its holder drops the permit or dies.    *)
(* A command leaves a receipt before it is sent and removes it after the   *)
(* matching response: a receipt left behind bars private intervals.        *)
(*                                                                         *)
(* The two locks are read off the program counters, as the kernel derives  *)
(* them from open descriptors: a dead or cancelled task holds none.  What  *)
(* is written is atomic; whether it survives a power failure depends on    *)
(* the fsync of the directory, which may fail.  Epochs, 32 random bytes in *)
(* the code, are numbered in the order in which they are drawn; 0 stands   *)
(* for the absence of a state record.                                      *)
(***************************************************************************)
EXTENDS Integers, FiniteSets

CONSTANTS
  Clients,    \* CDP connections, each with its PrivacyObserver
  Commands,   \* calls of send_command_with_timeout
  Permits,    \* tasks that begin, resume, advance and finish private epochs
  LastStage,  \* last stage of a private journey (3 in private_recovery.rs)
  MaxEpochs   \* bound: epochs drawn in a run

ASSUME GateAssumption ==
  /\ LastStage \in Nat /\ MaxEpochs \in Nat
  /\ Clients \cap Commands = {}

Disconnected == -1

VARIABLES
  disk,      \* the gate directory as every process sees it
  durable,   \* the gate directory as the last successful fsync left it
  captured,  \* PrivacyObserver.captured_epoch of each connection
  reading,   \* connections whose reader is showing a message to observers
  cpc,       \* where each public command stands
  browser,   \* public work the browser may still be executing
  answered,  \* commands whose response the browser has produced
  ppc,       \* where each private task stands
  purpose,   \* what its write of the state record is for
  permit,    \* the epoch and stage its PrivatePermit remembers
  lastEpoch, \* epochs drawn so far
  intents,   \* epochs with a reconciliation intent on file (private_recovery)
  opened,    \* epochs for which a permit was handed out (history)
  finished   \* epochs whose cleanup the coordinator has vouched for (history)

publicVars  == <<captured, reading, cpc, browser, answered>>
privateVars == <<ppc, purpose, permit, lastEpoch, intents, opened, finished>>
vars == <<disk, durable, captured, reading, cpc, browser, answered, ppc,
          purpose, permit, lastEpoch, intents, opened, finished>>

Epochs == 0 .. MaxEpochs
Directory ==
  [anchor : BOOLEAN, epoch : Epochs, clean : BOOLEAN, stage : 0 .. LastStage,
   receipts : SUBSET Commands, uncertain : BOOLEAN, litter : BOOLEAN]
Purposes == {"begin", "resume", "advance", "finish"}

PublicType ==
  /\ captured \in [Clients -> Epochs \cup {Disconnected}]
  /\ reading \subseteq Clients
  /\ cpc \in [Commands -> {"new", "leased", "receipted", "sent", "done"}]
  /\ browser \subseteq Commands \cup Clients
  /\ answered \subseteq Commands \cup Clients
PrivateType ==
  /\ ppc \in [Permits -> {"idle", "anchor", "temp", "rename", "sync", "held"}]
  /\ purpose \in [Permits -> Purposes]
  /\ permit \in [Permits -> [epoch : Epochs, stage : 0 .. LastStage]]
  /\ lastEpoch \in Epochs
  /\ intents \subseteq Epochs /\ opened \subseteq Epochs /\ finished \subseteq Epochs
TypeOK ==
  disk \in Directory /\ durable \in Directory /\ PublicType /\ PrivateType

(* A gate that open_gate has just created: nothing but its key. *)
EmptyGate ==
  [anchor |-> FALSE, epoch |-> 0, clean |-> FALSE, stage |-> 0,
   receipts |-> {}, uncertain |-> FALSE, litter |-> FALSE]

Init ==
  /\ disk = EmptyGate /\ durable = EmptyGate
  /\ captured = [k \in Clients |-> Disconnected]
  /\ reading = {}
  /\ cpc = [c \in Commands |-> "new"]
  /\ browser = {} /\ answered = {}
  /\ ppc = [p \in Permits |-> "idle"]
  /\ purpose = [p \in Permits |-> "begin"]
  /\ permit = [p \in Permits |-> [epoch |-> 0, stage |-> 0]]
  /\ lastEpoch = 0
  /\ intents = {} /\ opened = {} /\ finished = {}

-----------------------------------------------------------------------------
(* Locks and the reading of the directory. *)

LeasedCommands == {c \in Commands : cpc[c] \in {"leased", "receipted", "sent"}}

(* flock(LOCK_SH) and flock(LOCK_EX), both without blocking. *)
SharedFree == \A p \in Permits : ppc[p] = "idle"
ExclusiveFree == SharedFree /\ LeasedCommands = {} /\ reading = {}

(* Mutant: the lock alone decides. *)
GateOpen_LockOnly == TRUE

(* gate_public_lease: no anchor, or a state record that says clean. *)
GateOpen == disk.anchor => disk.epoch # 0 /\ disk.clean

(* Mutant: an observer is good for ever. *)
ObserverLease_Unrevoked(k) ==
  captured[k] # Disconnected /\ SharedFree /\ GateOpen

(* PrivacyObserver::public_lease: only in the epoch the observer captured.  *)
ObserverLease(k) ==
  /\ captured[k] # Disconnected
  /\ SharedFree /\ GateOpen
  /\ captured[k] = disk.epoch

(* A write to the directory followed by an fsync, which covers all of it.   *)
(* A failing fsync is an error to the caller; the write is there all the    *)
(* same.                                                                    *)
WriteSynced(d) == disk' = d /\ durable' = d
WriteUnsynced(d) == disk' = d /\ UNCHANGED durable

-----------------------------------------------------------------------------
(* Public work. *)

Connect(k) ==
  /\ captured[k] = Disconnected /\ SharedFree /\ GateOpen
  /\ captured' = [captured EXCEPT ![k] = disk.epoch]
  /\ UNCHANGED <<disk, durable, reading, cpc, browser, answered, privateVars>>

(* The client is dropped, or its process ends. *)
Disconnect(k) ==
  /\ captured[k] # Disconnected
  /\ captured' = [captured EXCEPT ![k] = Disconnected]
  /\ reading' = reading \ {k}
  /\ UNCHANGED <<disk, durable, cpc, browser, answered, privateVars>>

(* The reader shows a message to subscribers while it holds a lease. *)
Observe(k) ==
  /\ k \notin reading /\ ObserverLease(k)
  /\ reading' = reading \cup {k}
  /\ UNCHANGED <<disk, durable, captured, cpc, browser, answered, privateVars>>

EndObserve(k) ==
  /\ k \in reading
  /\ reading' = reading \ {k}
  /\ UNCHANGED <<disk, durable, captured, cpc, browser, answered, privateVars>>

(* send_command_with_timeout over connection k takes its lease ... *)
CommandLease(c, k) ==
  /\ cpc[c] = "new" /\ ObserverLease(k)
  /\ cpc' = [cpc EXCEPT ![c] = "leased"]
  /\ UNCHANGED <<disk, durable, captured, reading, browser, answered,
                 privateVars>>

(* ... writes its receipt, or gives up when the receipt is not safe ...     *)
CommandReceipt(c) ==
  /\ cpc[c] = "leased"
  /\ LET d == [disk EXCEPT !.receipts = @ \cup {c}] IN
       \/ WriteSynced(d) /\ cpc' = [cpc EXCEPT ![c] = "receipted"]
       \/ WriteUnsynced(d) /\ cpc' = [cpc EXCEPT ![c] = "done"]
  /\ UNCHANGED <<captured, reading, browser, answered, privateVars>>

CommandSend(c) ==
  /\ cpc[c] = "receipted"
  /\ cpc' = [cpc EXCEPT ![c] = "sent"]
  /\ browser' = browser \cup {c}
  /\ UNCHANGED <<disk, durable, captured, reading, answered, privateVars>>

(* ... and is over without a response: transport error, timeout, dropped    *)
(* future or dead process.  Its receipt stays; a send that failed may have  *)
(* reached the browser.                                                     *)
CommandFails(c) ==
  /\ c \in LeasedCommands
  /\ cpc' = [cpc EXCEPT ![c] = "done"]
  /\ \/ UNCHANGED browser
     \/ cpc[c] = "receipted" /\ browser' = browser \cup {c}
  /\ UNCHANGED <<disk, durable, captured, reading, answered, privateVars>>

(* The browser has executed command or raw message m (external). *)
BrowserAnswers(m) ==
  /\ m \in browser
  /\ browser' = browser \ {m}
  /\ answered' = answered \cup {m}
  /\ UNCHANGED <<disk, durable, captured, reading, cpc, privateVars>>

(* CommandLease::complete, after a result or a protocol error. *)
CommandComplete(c) ==
  /\ cpc[c] = "sent" /\ c \in answered
  /\ cpc' = [cpc EXCEPT ![c] = "done"]
  /\ LET d == [disk EXCEPT !.receipts = @ \ {c}]
     IN  WriteSynced(d) \/ WriteUnsynced(d)
  /\ UNCHANGED <<captured, reading, browser, answered, privateVars>>

(* send_raw has no receipt: it marks the gate for good before it sends, and *)
(* does not send when the mark is not safe or the transport is closed.      *)
SendRaw(k) ==
  /\ ObserverLease(k)
  /\ LET d == [disk EXCEPT !.uncertain = TRUE] IN
       \/ WriteSynced(d) /\ browser' \in {browser, browser \cup {k}}
       \/ WriteUnsynced(d) /\ UNCHANGED browser
  /\ UNCHANGED <<captured, reading, cpc, answered, privateVars>>

-----------------------------------------------------------------------------
(* Private intervals. *)

(* Mutant: receipts are not counted. *)
Admissible_AnyReceipt ==
  /\ disk.anchor => disk.epoch # 0 /\ disk.clean
  /\ ~disk.uncertain /\ ~disk.litter
  /\ disk.anchor <=> disk.epoch # 0

(* gate_begin_private_with_scope: the gate is open, certain, and holds its  *)
(* key, and its anchor and state if it has one, but no other file.          *)
Admissible ==
  /\ disk.anchor => disk.epoch # 0 /\ disk.clean
  /\ ~disk.uncertain
  /\ disk.receipts = {} /\ ~disk.litter
  /\ disk.anchor <=> disk.epoch # 0

(* Task p, which holds the exclusive lock, sets out to write the state.     *)
StartWrite(p, why, pc, e, s) ==
  /\ ppc' = [ppc EXCEPT ![p] = pc]
  /\ purpose' = [purpose EXCEPT ![p] = why]
  /\ permit' = [permit EXCEPT ![p] = [epoch |-> e, stage |-> s]]

BeginPrivate(p) ==
  /\ ppc[p] = "idle" /\ ExclusiveFree /\ Admissible
  /\ lastEpoch < MaxEpochs /\ lastEpoch' = lastEpoch + 1
  /\ StartWrite(p, "begin", IF disk.anchor THEN "temp" ELSE "anchor",
                lastEpoch + 1, 0)
  /\ UNCHANGED <<disk, durable, publicVars, intents, opened, finished>>

(* The anchor is created once and never removed, whatever becomes of it. *)
CreateAnchor(p) ==
  /\ ppc[p] = "anchor"
  /\ LET d == [disk EXCEPT !.anchor = TRUE] IN
       \/ WriteSynced(d) /\ ppc' = [ppc EXCEPT ![p] = "temp"]
       \/ WriteUnsynced(d) /\ ppc' = [ppc EXCEPT ![p] = "idle"]
  /\ UNCHANGED <<publicVars, purpose, permit, lastEpoch, intents, opened,
                 finished>>

(* private_recovery: reattach to the private epoch that the intent on file  *)
(* names; any other permit is dropped at once.  A gate whose holder died    *)
(* between anchor and state first gets a state of its own.                  *)
ResumePrivate(p) ==
  /\ ppc[p] = "idle" /\ ExclusiveFree
  /\ disk.anchor /\ ~(disk.epoch # 0 /\ disk.clean)
  /\ \/ /\ disk.epoch \in intents /\ disk.stage = LastStage
        /\ StartWrite(p, "resume", "held", disk.epoch, disk.stage)
        /\ UNCHANGED lastEpoch
     \/ /\ disk.epoch = 0
        /\ lastEpoch < MaxEpochs /\ lastEpoch' = lastEpoch + 1
        /\ StartWrite(p, "resume", "temp", lastEpoch + 1, 0)
  /\ UNCHANGED <<disk, durable, publicVars, intents, opened, finished>>

(* The stage that is compared and set is the one the permit remembers. *)
CanAdvance(p) == permit[p].stage < LastStage

AdvanceTarget(p) ==
  /\ ppc[p] = "held" /\ CanAdvance(p)
  /\ permit[p].epoch = disk.epoch /\ ~disk.clean /\ permit[p].stage = disk.stage
  /\ StartWrite(p, "advance", "temp", disk.epoch, disk.stage + 1)
  /\ UNCHANGED <<disk, durable, publicVars, lastEpoch, intents, opened, finished>>

(* finish_private, which only the cleanup coordinator calls, once it has    *)
(* verified the cleanup of the epoch.                                       *)
FinishPrivate(p) ==
  /\ ppc[p] = "held" /\ permit[p].epoch = disk.epoch /\ ~disk.clean
  /\ StartWrite(p, "finish", "temp", disk.epoch, disk.stage)
  /\ finished' = finished \cup {permit[p].epoch}
  /\ UNCHANGED <<disk, durable, publicVars, lastEpoch, intents, opened>>

(* write_gate_state: a synced temporary file, a rename, an fsync. *)
CreateTemp(p) ==
  /\ ppc[p] = "temp"
  /\ ppc' = [ppc EXCEPT ![p] = "rename"]
  /\ durable' = disk
  /\ UNCHANGED <<disk, publicVars, purpose, permit, lastEpoch, intents, opened,
                 finished>>

RenameState(p) ==
  /\ ppc[p] = "rename"
  /\ ppc' = [ppc EXCEPT ![p] = "sync"]
  /\ WriteUnsynced([disk EXCEPT !.epoch = permit[p].epoch,
                                !.stage = permit[p].stage,
                                !.clean = purpose[p] = "finish"])
  /\ UNCHANGED <<publicVars, purpose, permit, lastEpoch, intents, opened,
                 finished>>

(* Mutants: an uncertain commit still hands out the permit; a failed        *)
(* advance leaves the caller with the permit of the previous stage.         *)
AfterUnsynced_Trusted(p) ==
  /\ ppc' = [ppc EXCEPT ![p] = IF purpose[p] \in {"begin", "advance"}
                               THEN "held" ELSE "idle"]
  /\ opened' = IF purpose[p] = "begin" THEN opened \cup {permit[p].epoch} ELSE opened
  /\ UNCHANGED <<permit, finished>>

(* An uncertain commit is an error to everyone but finish_private; the      *)
(* error drops the permit, and the record stays.                            *)
AfterUnsynced(p) ==
  /\ ppc' = [ppc EXCEPT ![p] = "idle"]
  /\ UNCHANGED <<opened, permit, finished>>

AfterSynced(p) ==
  /\ ppc' = [ppc EXCEPT ![p] = IF purpose[p] \in {"begin", "advance"}
                               THEN "held" ELSE "idle"]
  /\ opened' = IF purpose[p] = "begin" THEN opened \cup {permit[p].epoch} ELSE opened
  /\ UNCHANGED <<permit, finished>>

SyncState(p) ==
  /\ ppc[p] = "sync"
  /\ \/ WriteSynced(disk) /\ AfterSynced(p)
     \/ WriteUnsynced(disk) /\ AfterUnsynced(p)
  /\ UNCHANGED <<publicVars, purpose, lastEpoch, intents>>

(* A write that breaks off may leave an incomplete temporary file behind,   *)
(* and always leaves a complete one that was not renamed.                   *)
Litter(p) ==
  CASE ppc[p] = "rename" -> {TRUE}
    [] ppc[p] = "temp"   -> {disk.litter, TRUE}
    [] OTHER             -> {disk.litter}

(* A failed finish_private leaves the permit usable. *)
FinishFails(p) ==
  /\ ppc[p] \in {"temp", "rename"} /\ purpose[p] = "finish"
  /\ ppc' = [ppc EXCEPT ![p] = "held"]
  /\ \E l \in Litter(p) : WriteUnsynced([disk EXCEPT !.litter = l])
  /\ UNCHANGED <<publicVars, purpose, permit, lastEpoch, intents, opened,
                 finished>>

(* The permit is dropped, on an error or not, or its process dies: the lock *)
(* goes, the state record stays.                                            *)
DropPermit(p) ==
  /\ ppc[p] # "idle"
  /\ ppc' = [ppc EXCEPT ![p] = "idle"]
  /\ \E l \in Litter(p) : WriteUnsynced([disk EXCEPT !.litter = l])
  /\ UNCHANGED <<publicVars, purpose, permit, lastEpoch, intents, opened,
                 finished>>

(* The last stage is on record with an intent to reconcile it. *)
RecordIntent(p) ==
  /\ ppc[p] = "held" /\ permit[p].stage = LastStage
  /\ permit[p].epoch \notin intents
  /\ intents' = intents \cup {permit[p].epoch}
  /\ UNCHANGED <<disk, durable, publicVars, ppc, purpose, permit, lastEpoch,
                 opened, finished>>

(* Power fails: what was not synced may or may not be there afterwards, and *)
(* every process is gone.  The browser may run on another machine.          *)
PowerFails ==
  /\ \E s \in {disk, durable}, f \in {disk, durable} :
     \E R \in SUBSET (disk.receipts \cup durable.receipts) :
     \E l \in {f.litter} \cup UNION {Litter(p) : p \in Permits} :
       /\ disk.receipts \cap durable.receipts \subseteq R
       /\ LET d == [anchor |-> s.anchor, epoch |-> s.epoch, clean |-> s.clean,
                    stage |-> s.stage, receipts |-> R,
                    uncertain |-> f.uncertain,
                    litter |-> l]
          IN  disk' = d /\ durable' = d
  /\ captured' = [k \in Clients |-> Disconnected]
  /\ reading' = {}
  /\ cpc' = [c \in Commands |-> IF c \in LeasedCommands THEN "done" ELSE cpc[c]]
  /\ ppc' = [p \in Permits |-> "idle"]
  /\ UNCHANGED <<browser, answered, purpose, permit, lastEpoch, intents, opened,
                 finished>>

-----------------------------------------------------------------------------
PublicStep ==
  \/ \E k \in Clients : Connect(k) \/ Disconnect(k) \/ Observe(k)
                          \/ EndObserve(k) \/ SendRaw(k)
  \/ \E c \in Commands : CommandReceipt(c) \/ CommandSend(c) \/ CommandFails(c)
                           \/ CommandComplete(c)
  \/ \E c \in Commands, k \in Clients : CommandLease(c, k)

PrivateStep ==
  \E p \in Permits :
    \/ BeginPrivate(p) \/ CreateAnchor(p) \/ ResumePrivate(p)
    \/ AdvanceTarget(p) \/ FinishPrivate(p) \/ CreateTemp(p) \/ RenameState(p)
    \/ SyncState(p) \/ FinishFails(p) \/ DropPermit(p) \/ RecordIntent(p)

Next ==
  \/ PublicStep \/ PrivateStep
  \/ \E m \in Commands \cup Clients : BrowserAnswers(m)
  \/ PowerFails

Spec == Init /\ [][Next]_vars

-----------------------------------------------------------------------------
(* Properties. *)

(* The lock is a lock: one private task at most holds it, and no public     *)
(* work runs beside it.                                                     *)
LockExclusive ==
  /\ \A p, q \in Permits : ppc[p] # "idle" /\ ppc[q] # "idle" => p = q
  /\ ~SharedFree => LeasedCommands = {} /\ reading = {}

(* privacy_gate.rs:2, "dropping a permit never reopens it": no command and  *)
(* no observer holds a lease while a private epoch that was handed out has  *)
(* not been finished, whether its holder lives, was dropped or died, and    *)
(* through power failures.                                                  *)
NoPublicWhilePrivate ==
  LeasedCommands # {} \/ reading # {} => opened \subseteq finished

(* client.rs:452, "process death must not forget a command that Chrome may  *)
(* still execute": a permit is held only when the browser has executed all  *)
(* public work, including what its senders gave up on.                      *)
CommandsDrained ==
  (\E p \in Permits : ppc[p] = "held") => browser = {}

(* "Cleanup permits new observers, never revives old ones": what is shown   *)
(* to an observer comes after no private epoch that the observer did not    *)
(* know when it connected.                                                  *)
ObserverRevoked ==
  \A k \in reading : \A e \in opened : e <= captured[k]

(* A permit that can still be used knows the state on disk: its epoch is    *)
(* the private one and its stage the committed one.                         *)
PermitCurrent ==
  \A p \in Permits : ppc[p] = "held" =>
    /\ permit[p].epoch = disk.epoch /\ ~disk.clean
    /\ permit[p].stage = disk.stage

(* "Its durable lock survives Drop and process exit": while a permit is     *)
(* held, what a power failure would leave behind is its private epoch.      *)
PermitLockDurable ==
  \A p \in Permits : ppc[p] = "held" =>
    durable.anchor /\ durable.epoch = permit[p].epoch /\ ~durable.clean

(* A permit that can be used is for the epoch on disk, now and after a loss *)
(* of power.                                                                *)
PermitSound == PermitCurrent /\ PermitLockDurable
=============================================================================
