---------------------------- MODULE ServiceStore ----------------------------
(***************************************************************************)
(* The repository of the service state, service_store.rs: state.json and,  *)
(* beside it, the registry of remote-view hand-offs, shared by all daemons *)
(* of a user.  A call takes the process's mutex, then the lock file, loads *)
(* both files, and saves both, one rename after the other.                 *)
(*                                                                         *)
(* Calls fail between any two steps, processes are killed, and power       *)
(* fails.  Releases from before the registry and the lock file rewrite     *)
(* state.json as they please and drop the hand-offs they do not know: the  *)
(* registry is there to survive them.                                      *)
(*                                                                         *)
(* A state is the set of mutations it contains and the version of one      *)
(* hand-off, 0 if there is none.  Hand-offs are inserted and updated,      *)
(* never removed.  Locks are read off the program counters: guards go with *)
(* their call.  A file that a rename puts in place is assumed to survive a *)
(* power failure whole or not at all.                                      *)
(***************************************************************************)
EXTENDS Integers

CONSTANTS
  Readers,        \* calls of load_snapshot
  Mutators,       \* calls of mutate
  Durable,        \* calls of try_mutate_durable
  HandoffCalls,   \* mutations that update the hand-off
  Legacy,         \* writes by releases that know neither registry nor lock
  Processes,
  ProcessOf,      \* the process a call is made in
  MaxPowerFails   \* bound: power failures in a run

Writers == Mutators \cup Durable
Calls == Readers \cup Writers

ASSUME StoreAssumption ==
  /\ Readers \cap Writers = {} /\ Mutators \cap Durable = {}
  /\ HandoffCalls \subseteq Writers
  /\ ProcessOf \in [Calls -> Processes]
  /\ MaxPowerFails \in Nat

VARIABLES
  pc,            \* where each call stands
  view,          \* the state each call has in memory
  stateFile,     \* state.json
  registry,      \* the hand-off registry: the hand-off's version
  stateLeft,     \* contents of state.json a power failure may leave
  registryLeft,  \* versions in the registry a power failure may leave
  poisoned,      \* processes whose mutex a panicking mutator has poisoned
  legacyPc,      \* where each legacy write stands
  legacySeen,    \* what it has read
  powerFails,    \* power failures so far
  version,       \* hand-off version each call has produced (history)
  owed,          \* mutations the store has acknowledged and must show (history)
  owedHandoff,   \* the hand-off version it must show (history)
  safe,          \* as owed, should power fail (history)
  safeHandoff    \* as owedHandoff, should power fail (history)

fileVars   == <<stateFile, registry, stateLeft, registryLeft>>
legacyVars == <<legacyPc, legacySeen>>
owedVars   == <<owed, owedHandoff, safe, safeHandoff>>
vars == <<pc, view, stateFile, registry, stateLeft, registryLeft, poisoned,
          legacyPc, legacySeen, powerFails, version, owed, owedHandoff, safe,
          safeHandoff>>

State == [applied : SUBSET Writers, handoff : Nat]
Pcs == {"new", "mutex", "locked", "state_read", "loaded", "mutated",
        "registry_saved", "saved", "done", "failed"}

TypeOK ==
  /\ pc \in [Calls -> Pcs]
  /\ view \in [Calls -> State]
  /\ stateFile \in State /\ registry \in Nat
  /\ stateLeft \subseteq State /\ registryLeft \subseteq Nat
  /\ poisoned \subseteq Processes
  /\ legacyPc \in [Legacy -> {"new", "read", "done", "killed"}]
  /\ legacySeen \in [Legacy -> SUBSET Writers]
  /\ powerFails \in 0 .. MaxPowerFails
  /\ version \in [Calls -> Nat]
  /\ owed \subseteq Writers /\ safe \subseteq Writers
  /\ owedHandoff \in Nat /\ safeHandoff \in Nat

(* ServiceState::default(), which load() returns while no file exists. *)
Default == [applied |-> {}, handoff |-> 0]

Init ==
  /\ pc = [t \in Calls |-> "new"]
  /\ view = [t \in Calls |-> Default]
  /\ stateFile = Default /\ registry = 0
  /\ stateLeft = {Default} /\ registryLeft = {0}
  /\ poisoned = {}
  /\ legacyPc = [l \in Legacy |-> "new"]
  /\ legacySeen = [l \in Legacy |-> {}]
  /\ powerFails = 0
  /\ version = [t \in Calls |-> 0]
  /\ owed = {} /\ owedHandoff = 0 /\ safe = {} /\ safeHandoff = 0

-----------------------------------------------------------------------------
(* Locks. *)

(* Mutant: a call that fails leaks its file lock. *)
Holding_Leaked(t) ==
  pc[t] \in {"locked", "state_read", "loaded", "mutated", "registry_saved",
             "saved", "failed"}

(* Calls with the guard of the lock file. *)
Holding(t) ==
  pc[t] \in {"locked", "state_read", "loaded", "mutated", "registry_saved",
             "saved"}

MutexFree(p) ==
  \A t \in Calls : ProcessOf[t] = p => ~(pc[t] = "mutex" \/ Holding(t))

(* Mutant: mutate takes the lock in the mode of load_snapshot. *)
LockFree_Shared(t) ==
  \A u \in Durable : ~Holding(u)

(* acquire_service_state_file_lock, Shared for readers, else Exclusive. *)
LockFree(t) ==
  /\ \A u \in Writers : ~Holding(u)
  /\ t \in Writers => \A u \in Readers : ~Holding(u)

At(t, next) == pc' = [pc EXCEPT ![t] = next]

-----------------------------------------------------------------------------
(* A call. *)

(* SERVICE_STATE_MUTATION_LOCK: a poisoned mutex is an error; a durable     *)
(* call does not wait.                                                      *)
TakeMutex(t) ==
  /\ pc[t] = "new"
  /\ \/ MutexFree(ProcessOf[t]) /\ ProcessOf[t] \notin poisoned /\ At(t, "mutex")
     \/ MutexFree(ProcessOf[t]) /\ ProcessOf[t] \in poisoned /\ At(t, "failed")
     \/ ~MutexFree(ProcessOf[t]) /\ t \in Durable /\ At(t, "failed")
  /\ UNCHANGED <<view, fileVars, poisoned, legacyVars, powerFails, version, owedVars>>

TakeLock(t) ==
  /\ pc[t] = "mutex"
  /\ \/ LockFree(t) /\ At(t, "locked")
     \/ ~LockFree(t) /\ t \in Durable /\ At(t, "failed")
  /\ UNCHANGED <<view, fileVars, poisoned, legacyVars, powerFails, version, owedVars>>

ReadState(t) ==
  /\ pc[t] = "locked"
  /\ At(t, "state_read")
  /\ view' = [view EXCEPT ![t] = stateFile]
  /\ UNCHANGED <<fileVars, poisoned, legacyVars, powerFails, version, owedVars>>

(* extend: an entry of the registry replaces that of state.json. *)
Merged(s, r) == IF r # 0 THEN r ELSE s

(* A reader has what it came for and lets go of the lock. *)
ReadRegistry(t) ==
  /\ pc[t] = "state_read"
  /\ At(t, IF t \in Readers THEN "done" ELSE "loaded")
  /\ view' = [view EXCEPT ![t].handoff = Merged(@, registry)]
  /\ UNCHANGED <<fileVars, poisoned, legacyVars, powerFails, version, owedVars>>

Mutate(t) ==
  /\ pc[t] = "loaded"
  /\ At(t, "mutated")
  /\ LET h == view[t].handoff + IF t \in HandoffCalls THEN 1 ELSE 0 IN
       /\ view' = [view EXCEPT ![t] = [applied |-> @.applied \cup {t},
                                       handoff |-> h]]
       /\ version' = [version EXCEPT ![t] = h]
  /\ UNCHANGED <<fileVars, poisoned, legacyVars, powerFails, owedVars>>

(* The mutator returns an error, or panics with both guards in hand. *)
MutatorFails(t) ==
  /\ pc[t] = "loaded"
  /\ At(t, "failed")
  /\ poisoned' \in {poisoned, poisoned \cup {ProcessOf[t]}}
  /\ UNCHANGED <<view, fileVars, legacyVars, powerFails, version, owedVars>>

(* Mutant: the hand-offs go into state.json only. *)
SaveRegistry_Skipped(t) ==
  /\ pc[t] = "mutated"
  /\ At(t, "registry_saved")
  /\ UNCHANGED <<view, fileVars, poisoned, legacyVars, powerFails, version,
                 owedVars>>

(* save_remote_view_handoff_registry comes first ... *)
SaveRegistry(t) ==
  /\ pc[t] = "mutated"
  /\ At(t, "registry_saved")
  /\ registry' = view[t].handoff
  /\ registryLeft' = registryLeft \cup {view[t].handoff}
  /\ UNCHANGED <<view, stateFile, stateLeft, poisoned, legacyVars, powerFails,
                 version, owedVars>>

(* The caller is told that the mutation is in. *)
Acknowledge(t) ==
  /\ owed' = owed \cup {t}
  /\ owedHandoff' = IF view[t].handoff > owedHandoff THEN view[t].handoff
                                                     ELSE owedHandoff

(* ... and state.json second.  mutate() returns; a durable call goes on. *)
SaveState(t) ==
  /\ pc[t] = "registry_saved"
  /\ stateFile' = view[t]
  /\ stateLeft' = stateLeft \cup {view[t]}
  /\ \/ t \in Mutators /\ At(t, "done") /\ Acknowledge(t)
     \/ t \in Durable /\ At(t, "saved") /\ UNCHANGED <<owed, owedHandoff>>
  /\ UNCHANGED <<view, registry, registryLeft, poisoned, legacyVars, powerFails,
                 version, safe, safeHandoff>>

(* The lock file cannot be opened, a file not read or parsed, a temporary   *)
(* file not written, renamed or synced: what is done is done.               *)
StorageFails(t) ==
  /\ pc[t] \in {"mutex", "locked", "state_read", "mutated", "registry_saved",
                "saved"}
  /\ At(t, "failed")
  /\ UNCHANGED <<view, fileVars, poisoned, legacyVars, powerFails, version, owedVars>>

(* Mutant: state.json alone is synced. *)
SyncedRegistry_Forgotten == registryLeft
SyncedRegistry == {registry}

(* try_mutate_durable: both files, then their directory. *)
SyncFiles(t) ==
  /\ pc[t] = "saved"
  /\ At(t, "done")
  /\ stateLeft' = {stateFile} /\ registryLeft' = SyncedRegistry
  /\ Acknowledge(t)
  /\ safe' = owed' /\ safeHandoff' = owedHandoff'
  /\ UNCHANGED <<view, stateFile, registry, poisoned, legacyVars, powerFails, version>>

-----------------------------------------------------------------------------
(* Surroundings. *)

Unfinished(t) == pc[t] \notin {"done", "failed"}

Kill(p) ==
  /\ \E t \in Calls : ProcessOf[t] = p /\ Unfinished(t)
  /\ pc' = [t \in Calls |-> IF ProcessOf[t] = p /\ Unfinished(t)
                            THEN "failed" ELSE pc[t]]
  /\ UNCHANGED <<view, fileVars, poisoned, legacyVars, powerFails, version, owedVars>>

(* An older release reads state.json without the lock (external) ... *)
LegacyRead(l) ==
  /\ legacyPc[l] = "new"
  /\ legacyPc' = [legacyPc EXCEPT ![l] = "read"]
  /\ legacySeen' = [legacySeen EXCEPT ![l] = stateFile.applied]
  /\ UNCHANGED <<pc, view, fileVars, poisoned, powerFails, version, owedVars>>

(* ... and writes it back later, without the hand-offs.                     *)
LegacyWrite(l) ==
  /\ legacyPc[l] = "read"
  /\ legacyPc' = [legacyPc EXCEPT ![l] = "done"]
  /\ stateFile' = [applied |-> legacySeen[l], handoff |-> 0]
  /\ stateLeft' = stateLeft \cup {stateFile'}
  /\ UNCHANGED <<pc, view, registry, registryLeft, poisoned, legacySeen,
                 powerFails, version, owedVars>>

(* Each file goes back to something that was in place since the last sync.  *)
(* A save renames without a sync (service_store.rs:193-201, 357-364); that  *)
(* the file is then the old one or the new one and never a part of it is    *)
(* assumed of the file system.                                              *)
PowerFails ==
  /\ powerFails < MaxPowerFails /\ powerFails' = powerFails + 1
  /\ stateFile' \in stateLeft /\ stateLeft' = {stateFile'}
  /\ registry' \in registryLeft /\ registryLeft' = {registry'}
  /\ pc' = [t \in Calls |-> IF Unfinished(t) /\ pc[t] # "new" THEN "failed" ELSE pc[t]]
  /\ legacyPc' = [l \in Legacy |-> IF legacyPc[l] = "read" THEN "killed" ELSE legacyPc[l]]
  /\ poisoned' = {}
  /\ owed' = owed \cap safe
  /\ owedHandoff' = safeHandoff
  /\ UNCHANGED <<view, legacySeen, version, safe, safeHandoff>>

-----------------------------------------------------------------------------
(* What a call does when nothing fails; a durable call may also give up.    *)
Advance(t) ==
  \/ TakeMutex(t) \/ TakeLock(t) \/ ReadState(t) \/ ReadRegistry(t)
  \/ Mutate(t) \/ SaveRegistry(t) \/ SaveState(t) \/ SyncFiles(t)

CallStep(t) == Advance(t) \/ MutatorFails(t) \/ StorageFails(t)

(* Every call has returned. *)
Quiescent == (\A t \in Calls : ~Unfinished(t)) /\ UNCHANGED vars

Next ==
  \/ \E t \in Calls : CallStep(t)
  \/ \E p \in Processes : Kill(p)
  \/ \E l \in Legacy : LegacyRead(l) \/ LegacyWrite(l)
  \/ PowerFails
  \/ Quiescent

Spec == Init /\ [][Next]_vars

(* A call goes on when it can, and no error is counted on to end a wait;    *)
(* nothing it waits for is granted to others for ever, because each call is *)
(* made once.                                                               *)
FairSpec == Spec /\ \A t \in Calls : WF_vars(Advance(t))

-----------------------------------------------------------------------------
(* Properties. *)

(* No older release has overwritten state.json. *)
LegacySilent == \A l \in Legacy : legacyPc[l] # "done"

(* Two daemons that load, change and save the same files never undo each    *)
(* other's work: until an older release has written, state.json contains    *)
(* every mutation whose caller was told so, and those a durable call has    *)
(* vouched for even after power was lost.                                   *)
NoLostUpdate == LegacySilent => owed \subseteq stateFile.applied

(* service_store.rs:647, "durable remote view handoffs survive a legacy     *)
(* state writer": what the next load makes of the two files is never older  *)
(* than a hand-off that was acknowledged, whoever rewrites state.json and   *)
(* wherever a save was cut off.                                             *)
HandoffKept == Merged(stateFile.handoff, registry) >= owedHandoff

(* A snapshot that shows a mutation shows its hand-off: the registry is     *)
(* replaced before state.json, so that a save cut off in between leaves a   *)
(* hand-off without its mutation, never the reverse.                        *)
SnapshotWhole ==
  powerFails = 0 =>
    \A t \in Readers : pc[t] = "done" =>
      \A u \in view[t].applied : view[t].handoff >= version[u]

(* No call waits for ever: mutex and lock file are taken in the same order  *)
(* by all, and given up on every way out.                                   *)
EveryCallReturns ==
  \A t \in Calls : pc[t] = "mutex" ~> pc[t] \in {"done", "failed"}
=============================================================================
