------------------------ MODULE ServiceStateProofs ------------------------
(***************************************************************************)
(* Proofs about the service state: the files that keep it (ServiceStore)   *)
(* and the records of remote views in it (RemoteViewRoutes).               *)
(*                                                                         *)
(* ServiceStore.  The lock makes the view of the call that holds it at     *)
(* least as recent as the files (Fresh, Recent), and the files at least as *)
(* recent as what was acknowledged (Kept, Shown); what a power failure may *)
(* leave is at least as recent as the last durable call.                   *)
(*                                                                         *)
(* RemoteViewRoutes.  In every scenario leases are given out in order and  *)
(* only a reserved one changes.  In an undisturbed one the record of a     *)
(* browser stands on a display whose allocation is its session's           *)
(* (Placement), an entry that is shown is held by its session (Running),   *)
(* and what a lease would put back is as sound as what it replaces         *)
(* (Reversible), also after a reconciliation that has read and not yet     *)
(* written (Ownership).                                                    *)
(***************************************************************************)
EXTENDS ServiceStore, RemoteViewRoutes, FiniteSetTheorems, WellFoundedInduction, TLAPS

Loading == {"state_read", "loaded", "mutated", "registry_saved"}

(* Readers leave after they have loaded. *)
Roles ==
  \A t \in Readers :
    pc[t] \in {"new", "mutex", "locked", "state_read", "done", "failed"}

(* The lock file: a writer that holds it is alone. *)
Alone ==
  \A t \in Writers, u \in Calls : Holding(t) /\ Holding(u) => t = u

(* Until a legacy write, what the holder is about to save contains what      *)
(* state.json contains, and its own mutation.                               *)
Fresh ==
  LegacySilent =>
    \A t \in Writers :
      /\ pc[t] \in Loading => stateFile.applied \subseteq view[t].applied
      /\ pc[t] \in {"mutated", "registry_saved"} => t \in view[t].applied
      /\ pc[t] = "saved" => t \in stateFile.applied

(* Until a legacy write, acknowledged mutations are in state.json, and       *)
(* the durable ones in all that a power failure may leave of it.            *)
Kept ==
  LegacySilent =>
    /\ owed \subseteq stateFile.applied /\ safe \subseteq owed
    /\ \A s \in stateLeft : safe \subseteq s.applied

(* The hand-off the holder is about to save is no older than the registry's *)
(* and, once saved, is the registry's.                                      *)
Recent ==
  \A t \in Writers :
    /\ pc[t] \in {"loaded", "mutated"} => registry <= view[t].handoff
    /\ pc[t] \in {"registry_saved", "saved"} => registry = view[t].handoff

(* The registry alone keeps the acknowledged hand-off. *)
Shown ==
  /\ owedHandoff <= registry /\ safeHandoff <= owedHandoff
  /\ \A r \in registryLeft : safeHandoff <= r

(* A mutation is found outside its own call only once it has its version.   *)
Settled == {"registry_saved", "saved", "done", "failed"}
Published ==
  \A u \in Writers :
    /\ u \in stateFile.applied => pc[u] \in Settled
    /\ \A s \in stateLeft : u \in s.applied => pc[u] \in Settled
    /\ \A l \in Legacy : u \in legacySeen[l] => pc[u] \in Settled
    /\ \A t \in Calls : u \in view[t].applied /\ t # u => pc[u] \in Settled
    /\ u \in view[u].applied => pc[u] \in Settled \cup {"mutated"}

(* Before power fails, no state in a file or in memory contains a mutation  *)
(* whose hand-off the registry, or that state, does not have.               *)
Whole ==
  powerFails = 0 =>
    /\ \A u \in stateFile.applied : version[u] <= registry
    /\ \A l \in Legacy : \A u \in legacySeen[l] : version[u] <= registry
    /\ \A t \in Calls : pc[t] = "state_read" =>
         \A u \in view[t].applied : version[u] <= registry
    /\ \A t \in Calls : pc[t] \in {"loaded", "mutated", "registry_saved"} =>
         \A u \in view[t].applied : version[u] <= view[t].handoff
    /\ \A t \in Readers : pc[t] = "done" =>
         \A u \in view[t].applied : version[u] <= view[t].handoff

Inductive ==
  TypeOK /\ Roles /\ Alone /\ Fresh /\ Kept /\ Recent /\ Shown /\ Published /\ Whole

-----------------------------------------------------------------------------
(* Each part is preserved by each action. *)

(* Readers do not write. *)
LEMMA RolesStep ==
  ASSUME TypeOK, Roles, Next
  PROVE  Roles'
<1> USE StoreAssumption DEF TypeOK, Roles, Calls, Writers, At
<1>1. ASSUME NEW t \in Calls, TakeMutex(t) PROVE Roles'
  BY <1>1 DEF TakeMutex
<1>2. ASSUME NEW t \in Calls, TakeLock(t) PROVE Roles'
  BY <1>2 DEF TakeLock
<1>3. ASSUME NEW t \in Calls, ReadState(t) PROVE Roles'
  BY <1>3 DEF ReadState
<1>4. ASSUME NEW t \in Calls, ReadRegistry(t) PROVE Roles'
  BY <1>4 DEF ReadRegistry
<1>5. ASSUME NEW t \in Calls, Mutate(t) PROVE Roles'
  BY <1>5 DEF Mutate
<1>6. ASSUME NEW t \in Calls, MutatorFails(t) PROVE Roles'
  BY <1>6 DEF MutatorFails
<1>7. ASSUME NEW t \in Calls, SaveRegistry(t) PROVE Roles'
  BY <1>7 DEF SaveRegistry
<1>8. ASSUME NEW t \in Calls, SaveState(t) PROVE Roles'
  BY <1>8 DEF SaveState
<1>9. ASSUME NEW t \in Calls, StorageFails(t) PROVE Roles'
  BY <1>9 DEF StorageFails
<1>10. ASSUME NEW t \in Calls, SyncFiles(t) PROVE Roles'
  BY <1>10 DEF SyncFiles
<1>11. ASSUME NEW p \in Processes, Kill(p) PROVE Roles'
  BY <1>11 DEF Kill, Unfinished
<1>12. ASSUME NEW l \in Legacy, LegacyRead(l) PROVE Roles'
  BY <1>12 DEF LegacyRead
<1>13. ASSUME NEW l \in Legacy, LegacyWrite(l) PROVE Roles'
  BY <1>13 DEF LegacyWrite
<1>14. CASE PowerFails
  BY <1>14 DEF PowerFails, Unfinished
<1>15. CASE UNCHANGED vars
  BY <1>15 DEF vars
<1> QED
  BY <1>1, <1>2, <1>3, <1>4, <1>5, <1>6, <1>7, <1>8, <1>9, <1>10, <1>11, <1>12, <1>13, <1>14,
      <1>15
  DEF Next, CallStep, Advance, Quiescent

(* Types. *)
LEMMA TypeStep ==
  ASSUME TypeOK, Roles, Next
  PROVE  TypeOK'
<1> USE StoreAssumption DEF TypeOK, Roles, State, Pcs, Default, Calls, Writers, At, fileVars,
    legacyVars, owedVars
<1>1. ASSUME NEW t \in Calls, TakeMutex(t) PROVE TypeOK'
  BY <1>1 DEF TakeMutex
<1>2. ASSUME NEW t \in Calls, TakeLock(t) PROVE TypeOK'
  BY <1>2 DEF TakeLock
<1>3. ASSUME NEW t \in Calls, ReadState(t) PROVE TypeOK'
  BY <1>3 DEF ReadState
<1>4. ASSUME NEW t \in Calls, ReadRegistry(t) PROVE TypeOK'
  BY <1>4 DEF ReadRegistry, Merged
<1>5. ASSUME NEW t \in Calls, Mutate(t) PROVE TypeOK'
  BY <1>5 DEF Mutate
<1>6. ASSUME NEW t \in Calls, MutatorFails(t) PROVE TypeOK'
  BY <1>6 DEF MutatorFails
<1>7. ASSUME NEW t \in Calls, SaveRegistry(t) PROVE TypeOK'
  BY <1>7 DEF SaveRegistry
<1>8. ASSUME NEW t \in Calls, SaveState(t) PROVE TypeOK'
  BY <1>8 DEF SaveState, Acknowledge
<1>9. ASSUME NEW t \in Calls, StorageFails(t) PROVE TypeOK'
  BY <1>9 DEF StorageFails
<1>10. ASSUME NEW t \in Calls, SyncFiles(t) PROVE TypeOK'
  BY <1>10 DEF SyncFiles, Acknowledge, SyncedRegistry
<1>11. ASSUME NEW p \in Processes, Kill(p) PROVE TypeOK'
  BY <1>11 DEF Kill, Unfinished
<1>12. ASSUME NEW l \in Legacy, LegacyRead(l) PROVE TypeOK'
  BY <1>12 DEF LegacyRead
<1>13. ASSUME NEW l \in Legacy, LegacyWrite(l) PROVE TypeOK'
  BY <1>13 DEF LegacyWrite
<1>14. CASE PowerFails
  BY <1>14 DEF PowerFails, Unfinished
<1>15. CASE UNCHANGED vars
  BY <1>15 DEF vars
<1> QED
  BY <1>1, <1>2, <1>3, <1>4, <1>5, <1>6, <1>7, <1>8, <1>9, <1>10, <1>11, <1>12, <1>13, <1>14,
      <1>15
  DEF Next, CallStep, Advance, Quiescent

(* The lock file excludes. *)
LEMMA AloneStep ==
  ASSUME TypeOK, Alone, Next
  PROVE  Alone'
<1> USE StoreAssumption DEF TypeOK, Alone, Holding, Calls, Writers, At
<1>1. ASSUME NEW t \in Calls, TakeMutex(t) PROVE Alone'
  BY <1>1 DEF TakeMutex
<1>2. ASSUME NEW t \in Calls, TakeLock(t) PROVE Alone'
  BY <1>2 DEF TakeLock, LockFree
<1>3. ASSUME NEW t \in Calls, ReadState(t) PROVE Alone'
  BY <1>3 DEF ReadState
<1>4. ASSUME NEW t \in Calls, ReadRegistry(t) PROVE Alone'
  BY <1>4 DEF ReadRegistry
<1>5. ASSUME NEW t \in Calls, Mutate(t) PROVE Alone'
  BY <1>5 DEF Mutate
<1>6. ASSUME NEW t \in Calls, MutatorFails(t) PROVE Alone'
  BY <1>6 DEF MutatorFails
<1>7. ASSUME NEW t \in Calls, SaveRegistry(t) PROVE Alone'
  BY <1>7 DEF SaveRegistry
<1>8. ASSUME NEW t \in Calls, SaveState(t) PROVE Alone'
  BY <1>8 DEF SaveState
<1>9. ASSUME NEW t \in Calls, StorageFails(t) PROVE Alone'
  BY <1>9 DEF StorageFails
<1>10. ASSUME NEW t \in Calls, SyncFiles(t) PROVE Alone'
  BY <1>10 DEF SyncFiles
<1>11. ASSUME NEW p \in Processes, Kill(p) PROVE Alone'
  BY <1>11 DEF Kill, Unfinished
<1>12. ASSUME NEW l \in Legacy, LegacyRead(l) PROVE Alone'
  BY <1>12 DEF LegacyRead
<1>13. ASSUME NEW l \in Legacy, LegacyWrite(l) PROVE Alone'
  BY <1>13 DEF LegacyWrite
<1>14. CASE PowerFails
  BY <1>14 DEF PowerFails, Unfinished
<1>15. CASE UNCHANGED vars
  BY <1>15 DEF vars
<1> QED
  BY <1>1, <1>2, <1>3, <1>4, <1>5, <1>6, <1>7, <1>8, <1>9, <1>10, <1>11, <1>12, <1>13, <1>14,
      <1>15
  DEF Next, CallStep, Advance, Quiescent

(* The view of the holder. *)
LEMMA FreshStep ==
  ASSUME TypeOK, Alone, Fresh, Next
  PROVE  Fresh'
<1> USE StoreAssumption DEF TypeOK, State, Alone, Fresh, LegacySilent, Loading, Holding,
    Calls, Writers, At, fileVars, legacyVars, owedVars
<1>1. ASSUME NEW t \in Calls, TakeMutex(t) PROVE Fresh'
  BY <1>1 DEF TakeMutex
<1>2. ASSUME NEW t \in Calls, TakeLock(t) PROVE Fresh'
  BY <1>2 DEF TakeLock
<1>3. ASSUME NEW t \in Calls, ReadState(t) PROVE Fresh'
  BY <1>3 DEF ReadState
<1>4. ASSUME NEW t \in Calls, ReadRegistry(t) PROVE Fresh'
  BY <1>4 DEF ReadRegistry, Merged
<1>5. ASSUME NEW t \in Calls, Mutate(t) PROVE Fresh'
  BY <1>5 DEF Mutate
<1>6. ASSUME NEW t \in Calls, MutatorFails(t) PROVE Fresh'
  BY <1>6 DEF MutatorFails
<1>7. ASSUME NEW t \in Calls, SaveRegistry(t) PROVE Fresh'
  BY <1>7 DEF SaveRegistry
<1>8. ASSUME NEW t \in Calls, SaveState(t) PROVE Fresh'
  BY <1>8 DEF SaveState
<1>9. ASSUME NEW t \in Calls, StorageFails(t) PROVE Fresh'
  BY <1>9 DEF StorageFails
<1>10. ASSUME NEW t \in Calls, SyncFiles(t) PROVE Fresh'
  BY <1>10 DEF SyncFiles
<1>11. ASSUME NEW p \in Processes, Kill(p) PROVE Fresh'
  BY <1>11 DEF Kill, Unfinished
<1>12. ASSUME NEW l \in Legacy, LegacyRead(l) PROVE Fresh'
  BY <1>12 DEF LegacyRead
<1>13. ASSUME NEW l \in Legacy, LegacyWrite(l) PROVE Fresh'
  BY <1>13 DEF LegacyWrite
<1>14. CASE PowerFails
  BY <1>14 DEF PowerFails, Unfinished
<1>15. CASE UNCHANGED vars
  BY <1>15 DEF vars
<1> QED
  BY <1>1, <1>2, <1>3, <1>4, <1>5, <1>6, <1>7, <1>8, <1>9, <1>10, <1>11, <1>12, <1>13, <1>14,
      <1>15
  DEF Next, CallStep, Advance, Quiescent

(* Acknowledged mutations. *)
LEMMA KeptStep ==
  ASSUME TypeOK, Roles, Fresh, Kept, Next
  PROVE  Kept'
<1> USE StoreAssumption DEF TypeOK, State, Roles, Kept, Fresh, LegacySilent, Loading, Calls,
    Writers, At, fileVars, legacyVars, owedVars
<1>1. ASSUME NEW t \in Calls, TakeMutex(t) PROVE Kept'
  BY <1>1 DEF TakeMutex
<1>2. ASSUME NEW t \in Calls, TakeLock(t) PROVE Kept'
  BY <1>2 DEF TakeLock
<1>3. ASSUME NEW t \in Calls, ReadState(t) PROVE Kept'
  BY <1>3 DEF ReadState
<1>4. ASSUME NEW t \in Calls, ReadRegistry(t) PROVE Kept'
  BY <1>4 DEF ReadRegistry
<1>5. ASSUME NEW t \in Calls, Mutate(t) PROVE Kept'
  BY <1>5 DEF Mutate
<1>6. ASSUME NEW t \in Calls, MutatorFails(t) PROVE Kept'
  BY <1>6 DEF MutatorFails
<1>7. ASSUME NEW t \in Calls, SaveRegistry(t) PROVE Kept'
  BY <1>7 DEF SaveRegistry
<1>8. ASSUME NEW t \in Calls, SaveState(t) PROVE Kept'
  BY <1>8 DEF SaveState, Acknowledge
<1>9. ASSUME NEW t \in Calls, StorageFails(t) PROVE Kept'
  BY <1>9 DEF StorageFails
<1>10. ASSUME NEW t \in Calls, SyncFiles(t) PROVE Kept'
  BY <1>10 DEF SyncFiles, Acknowledge
<1>11. ASSUME NEW p \in Processes, Kill(p) PROVE Kept'
  BY <1>11 DEF Kill
<1>12. ASSUME NEW l \in Legacy, LegacyRead(l) PROVE Kept'
  BY <1>12 DEF LegacyRead
<1>13. ASSUME NEW l \in Legacy, LegacyWrite(l) PROVE Kept'
  BY <1>13 DEF LegacyWrite
<1>14. CASE PowerFails
  BY <1>14 DEF PowerFails
<1>15. CASE UNCHANGED vars
  BY <1>15 DEF vars
<1> QED
  BY <1>1, <1>2, <1>3, <1>4, <1>5, <1>6, <1>7, <1>8, <1>9, <1>10, <1>11, <1>12, <1>13, <1>14,
      <1>15
  DEF Next, CallStep, Advance, Quiescent

(* The hand-off of the holder. *)
LEMMA RecentStep ==
  ASSUME TypeOK, Alone, Recent, Next
  PROVE  Recent'
<1> USE StoreAssumption DEF TypeOK, State, Alone, Recent, Holding, Calls, Writers, At,
    fileVars, legacyVars, owedVars
<1>1. ASSUME NEW t \in Calls, TakeMutex(t) PROVE Recent'
  BY <1>1 DEF TakeMutex
<1>2. ASSUME NEW t \in Calls, TakeLock(t) PROVE Recent'
  BY <1>2 DEF TakeLock
<1>3. ASSUME NEW t \in Calls, ReadState(t) PROVE Recent'
  BY <1>3 DEF ReadState
<1>4. ASSUME NEW t \in Calls, ReadRegistry(t) PROVE Recent'
  BY <1>4 DEF ReadRegistry, Merged
<1>5. ASSUME NEW t \in Calls, Mutate(t) PROVE Recent'
  BY <1>5 DEF Mutate
<1>6. ASSUME NEW t \in Calls, MutatorFails(t) PROVE Recent'
  BY <1>6 DEF MutatorFails
<1>7. ASSUME NEW t \in Calls, SaveRegistry(t) PROVE Recent'
  BY <1>7 DEF SaveRegistry
<1>8. ASSUME NEW t \in Calls, SaveState(t) PROVE Recent'
  BY <1>8 DEF SaveState
<1>9. ASSUME NEW t \in Calls, StorageFails(t) PROVE Recent'
  BY <1>9 DEF StorageFails
<1>10. ASSUME NEW t \in Calls, SyncFiles(t) PROVE Recent'
  BY <1>10 DEF SyncFiles
<1>11. ASSUME NEW p \in Processes, Kill(p) PROVE Recent'
  BY <1>11 DEF Kill, Unfinished
<1>12. ASSUME NEW l \in Legacy, LegacyRead(l) PROVE Recent'
  BY <1>12 DEF LegacyRead
<1>13. ASSUME NEW l \in Legacy, LegacyWrite(l) PROVE Recent'
  BY <1>13 DEF LegacyWrite
<1>14. CASE PowerFails
  BY <1>14 DEF PowerFails, Unfinished
<1>15. CASE UNCHANGED vars
  BY <1>15 DEF vars
<1> QED
  BY <1>1, <1>2, <1>3, <1>4, <1>5, <1>6, <1>7, <1>8, <1>9, <1>10, <1>11, <1>12, <1>13, <1>14,
      <1>15
  DEF Next, CallStep, Advance, Quiescent

(* Acknowledged hand-offs. *)
LEMMA ShownStep ==
  ASSUME TypeOK, Roles, Recent, Shown, Next
  PROVE  Shown'
<1> USE StoreAssumption DEF TypeOK, State, Roles, Recent, Shown, Calls, Writers, At, fileVars,
    legacyVars, owedVars
<1>1. ASSUME NEW t \in Calls, TakeMutex(t) PROVE Shown'
  BY <1>1 DEF TakeMutex
<1>2. ASSUME NEW t \in Calls, TakeLock(t) PROVE Shown'
  BY <1>2 DEF TakeLock
<1>3. ASSUME NEW t \in Calls, ReadState(t) PROVE Shown'
  BY <1>3 DEF ReadState
<1>4. ASSUME NEW t \in Calls, ReadRegistry(t) PROVE Shown'
  BY <1>4 DEF ReadRegistry
<1>5. ASSUME NEW t \in Calls, Mutate(t) PROVE Shown'
  BY <1>5 DEF Mutate
<1>6. ASSUME NEW t \in Calls, MutatorFails(t) PROVE Shown'
  BY <1>6 DEF MutatorFails
<1>7. ASSUME NEW t \in Calls, SaveRegistry(t) PROVE Shown'
  BY <1>7 DEF SaveRegistry
<1>8. ASSUME NEW t \in Calls, SaveState(t) PROVE Shown'
  BY <1>8 DEF SaveState, Acknowledge
<1>9. ASSUME NEW t \in Calls, StorageFails(t) PROVE Shown'
  BY <1>9 DEF StorageFails
<1>10. ASSUME NEW t \in Calls, SyncFiles(t) PROVE Shown'
  BY <1>10 DEF SyncFiles, Acknowledge, SyncedRegistry
<1>11. ASSUME NEW p \in Processes, Kill(p) PROVE Shown'
  BY <1>11 DEF Kill
<1>12. ASSUME NEW l \in Legacy, LegacyRead(l) PROVE Shown'
  BY <1>12 DEF LegacyRead
<1>13. ASSUME NEW l \in Legacy, LegacyWrite(l) PROVE Shown'
  BY <1>13 DEF LegacyWrite
<1>14. CASE PowerFails
  BY <1>14 DEF PowerFails
<1>15. CASE UNCHANGED vars
  BY <1>15 DEF vars
<1> QED
  BY <1>1, <1>2, <1>3, <1>4, <1>5, <1>6, <1>7, <1>8, <1>9, <1>10, <1>11, <1>12, <1>13, <1>14,
      <1>15
  DEF Next, CallStep, Advance, Quiescent

(* Where a mutation is found. *)
LEMMA PublishedStep ==
  ASSUME TypeOK, Published, Next
  PROVE  Published'
<1> USE StoreAssumption DEF TypeOK, State, Published, Settled, Pcs, Calls, Writers, At,
    fileVars, legacyVars, owedVars
<1>1. ASSUME NEW t \in Calls, TakeMutex(t) PROVE Published'
  BY <1>1 DEF TakeMutex
<1>2. ASSUME NEW t \in Calls, TakeLock(t) PROVE Published'
  BY <1>2 DEF TakeLock
<1>3. ASSUME NEW t \in Calls, ReadState(t) PROVE Published'
  BY <1>3 DEF ReadState
<1>4. ASSUME NEW t \in Calls, ReadRegistry(t) PROVE Published'
  BY <1>4 DEF ReadRegistry
<1>5. ASSUME NEW t \in Calls, Mutate(t) PROVE Published'
  BY <1>5 DEF Mutate
<1>6. ASSUME NEW t \in Calls, MutatorFails(t) PROVE Published'
  BY <1>6 DEF MutatorFails
<1>7. ASSUME NEW t \in Calls, SaveRegistry(t) PROVE Published'
  BY <1>7 DEF SaveRegistry
<1>8. ASSUME NEW t \in Calls, SaveState(t) PROVE Published'
  BY <1>8 DEF SaveState
<1>9. ASSUME NEW t \in Calls, StorageFails(t) PROVE Published'
  BY <1>9 DEF StorageFails
<1>10. ASSUME NEW t \in Calls, SyncFiles(t) PROVE Published'
  BY <1>10 DEF SyncFiles
<1>11. ASSUME NEW p \in Processes, Kill(p) PROVE Published'
  BY <1>11 DEF Kill, Unfinished
<1>12. ASSUME NEW l \in Legacy, LegacyRead(l) PROVE Published'
  BY <1>12 DEF LegacyRead
<1>13. ASSUME NEW l \in Legacy, LegacyWrite(l) PROVE Published'
  BY <1>13 DEF LegacyWrite
<1>14. CASE PowerFails
  BY <1>14 DEF PowerFails, Unfinished
<1>15. CASE UNCHANGED vars
  BY <1>15 DEF vars
<1> QED
  BY <1>1, <1>2, <1>3, <1>4, <1>5, <1>6, <1>7, <1>8, <1>9, <1>10, <1>11, <1>12, <1>13, <1>14,
      <1>15
  DEF Next, CallStep, Advance, Quiescent

(* Mutations and their hand-offs. *)
LEMMA WholeStep ==
  ASSUME TypeOK, Roles, Alone, Recent, Published, Whole, Next
  PROVE  Whole'
<1> USE StoreAssumption DEF TypeOK, State, Roles, Alone, Holding, Recent, Published, Settled,
    Whole, Calls, Writers, At, fileVars, legacyVars, owedVars
<1>1. ASSUME NEW t \in Calls, TakeMutex(t) PROVE Whole'
  BY <1>1 DEF TakeMutex
<1>2. ASSUME NEW t \in Calls, TakeLock(t) PROVE Whole'
  BY <1>2 DEF TakeLock
<1>3. ASSUME NEW t \in Calls, ReadState(t) PROVE Whole'
  BY <1>3 DEF ReadState
<1>4. ASSUME NEW t \in Calls, ReadRegistry(t) PROVE Whole'
  BY <1>4 DEF ReadRegistry, Merged
<1>5. ASSUME NEW t \in Calls, Mutate(t) PROVE Whole'
  BY <1>5 DEF Mutate
<1>6. ASSUME NEW t \in Calls, MutatorFails(t) PROVE Whole'
  BY <1>6 DEF MutatorFails
<1>7. ASSUME NEW t \in Calls, SaveRegistry(t) PROVE Whole'
  BY <1>7 DEF SaveRegistry
<1>8. ASSUME NEW t \in Calls, SaveState(t) PROVE Whole'
  BY <1>8 DEF SaveState
<1>9. ASSUME NEW t \in Calls, StorageFails(t) PROVE Whole'
  BY <1>9 DEF StorageFails
<1>10. ASSUME NEW t \in Calls, SyncFiles(t) PROVE Whole'
  BY <1>10 DEF SyncFiles
<1>11. ASSUME NEW p \in Processes, Kill(p) PROVE Whole'
  BY <1>11 DEF Kill, Unfinished
<1>12. ASSUME NEW l \in Legacy, LegacyRead(l) PROVE Whole'
  BY <1>12 DEF LegacyRead
<1>13. ASSUME NEW l \in Legacy, LegacyWrite(l) PROVE Whole'
  BY <1>13 DEF LegacyWrite
<1>14. CASE PowerFails
  BY <1>14 DEF PowerFails, Unfinished
<1>15. CASE UNCHANGED vars
  BY <1>15 DEF vars
<1> QED
  BY <1>1, <1>2, <1>3, <1>4, <1>5, <1>6, <1>7, <1>8, <1>9, <1>10, <1>11, <1>12, <1>13, <1>14,
      <1>15
  DEF Next, CallStep, Advance, Quiescent

-----------------------------------------------------------------------------
(* The inductive invariant: what the lock, the order of the two renames and *)
(* the syncs of a durable call keep true of calls, files and debts at every *)
(* step of the repository.                                                  *)
THEOREM Invariance == Spec => []Inductive
<1>1. Init => Inductive
  BY StoreAssumption
  DEF Init, Inductive, TypeOK, Roles, Alone, Fresh, Kept, Recent, Shown,
     Published,
      Whole, State, Pcs, Default, Holding, Loading, Calls, Writers
<1>2. ASSUME Inductive, [Next]_vars PROVE Inductive'
  <2>1. CASE Next
    BY <1>2, <2>1, RolesStep, TypeStep, AloneStep, FreshStep, KeptStep, RecentStep,
       ShownStep, PublishedStep, WholeStep DEF Inductive
  <2>2. CASE UNCHANGED vars
    BY <1>2, <2>2
    DEF vars, Inductive, TypeOK, Roles, Alone, Fresh, Kept, Recent, Shown,
     Published,
        Whole, Holding, LegacySilent
  <2> QED
    BY <1>2, <2>1, <2>2
<1> QED
  BY <1>1, <1>2, PTL DEF Spec

(* Every variable of the repository keeps its type. *)
THEOREM StoreTypeCorrect == Spec => []TypeOK
BY Invariance, PTL DEF Inductive

(* The load, change and save of mutate() and try_mutate_durable() never     *)
(* undoes an acknowledged mutation, and a power failure never undoes what a *)
(* durable call has acknowledged, for any number of processes and calls.    *)
THEOREM UpdatesKept == Spec => []NoLostUpdate
<1>1. Inductive => NoLostUpdate
  BY DEF Inductive, Kept, NoLostUpdate
<1> QED
  BY <1>1, Invariance, PTL

(* The registry keeps acknowledged hand-offs from writers that do not know  *)
(* of it, from saves that are cut off and, once durable, from power         *)
(* failures.                                                                *)
THEOREM HandoffsSurvive == Spec => []HandoffKept
<1>1. Inductive => HandoffKept
  BY DEF Inductive, TypeOK, State, Shown, HandoffKept, Merged
<1> QED
  BY <1>1, Invariance, PTL

(* load_snapshot never returns a mutation without its hand-off, although    *)
(* the two come from two files that a killed process may leave apart.       *)
THEOREM SnapshotsSound == Spec => []SnapshotWhole
<1>1. Inductive => SnapshotWhole
  BY StoreAssumption DEF Inductive, TypeOK, State, Whole, SnapshotWhole, Calls
<1> QED
  BY <1>1, Invariance, PTL

-----------------------------------------------------------------------------
(* Remote views: what the invariant says *)

(* An allocation that is the session's own, and one that is in use. *)
Holds(al, s) == al # None /\ al.own = s
HoldsActive(al, s) == Holds(al, s) /\ ~AllocInactive(al)

(* At most one open is under way. *)
Single == \A s, t \in Sessions : stage[s] # "idle" /\ stage[t] # "idle" => s = t

(* What the plan of an open rules out until the open ends. *)
EntryUncontested(st) ==
    \A t \in Sessions : stage[t] # "idle" =>
        \A s \in Sessions \ {t} :
            /\ shown[s] # open[t].entry
            /\ st.browser[s] # None => st.browser[s].disp # open[t].entry

Paired(al, r) == al # None /\ r # None => al.own = r.own

(* The record of a browser stands on a display whose allocation is the session's, in use *)
(* unless the open that placed it there is yet to be finalized, or cleaned up by closing *)
(* the browser.                                                                          *)
Placement(st) ==
    \A s \in Sessions : st.browser[s] # None =>
        /\ st.browser[s].pid # 0
        /\ st.browser[s].disp \in Entries =>
            /\ Holds(st.alloc[st.browser[s].disp], s)
            /\ \/ stage[s] \in BeforeCheckout
               \/ stage[s] = "cleanup" /\ (open[s].reused \/ s \notin live)
               => ~AllocInactive(st.alloc[st.browser[s].disp])

(* A running browser is recorded, and the entry shown is the session's. *)
Running(st) ==
    \A s \in Sessions :
        /\ alive[s] # 0 => st.browser[s] # None /\ st.browser[s].pid = alive[s]
        /\ shown[s] # None => alive[s] # 0 /\ HoldsActive(st.alloc[shown[s]], s)

(* The allocation under the browser once the lease r is put back. *)
Beneath(st, r) == IF r.disp = r.e THEN r.alloc ELSE st.alloc[r.disp]

(* The lease of an open remembers records that may be put back. *)
Reversible(st) ==
    \A s \in Sessions : stage[s] \in {"launch", "checkout", "complete"} =>
        LET r == st.lease[open[s].lease]
        IN  /\ r # None /\ r.st = "reserved" /\ r.s = s /\ r.e = open[s].entry
            /\ Paired(r.alloc, r.route)
            /\ shown[s] = r.e => HoldsActive(r.alloc, s)
            /\ r.disp \in Entries =>
                /\ Holds(Beneath(st, r), s)
                /\ \/ ~AllocInactive(Beneath(st, r))
                   \/ st.browser[s] = None
                   \/ stage[s] # "launch" /\ ~open[s].reused /\ s \in live

Sound(st) ==
    /\ \A e \in Entries : Paired(st.alloc[e], st.route[e])
    /\ Placement(st) /\ Running(st) /\ Reversible(st) /\ EntryUncontested(st)

(* What a reconciliation leaves of the records it read. *)
Follows(before, after) ==
    /\ after.lease = before.lease
    /\ \A e \in Entries : after.alloc[e] = None => before.alloc[e] = None
    /\ \A e \in Entries : after.route[e] = None => before.route[e] = None
    /\ \A s \in Sessions : after.browser[s] # None =>
        /\ before.browser[s] # None
        /\ after.browser[s].pid = before.browser[s].pid
        /\ after.browser[s].disp = before.browser[s].disp

Ownership ==
    Undisturbed =>
        /\ Single
        /\ Sound(svc)
        /\ probe # None =>
            probe.before = svc /\ Sound(probe.after) /\ Follows(svc, probe.after)

(* Leases are given out in order, and an open has its own. *)
LeasesInOrder ==
    /\ left \in [opens : 0 .. scenario.opens, faults : Nat, releases : Nat]
    /\ \A l \in Leases : svc.lease[l] # None => l <= scenario.opens - left.opens
    /\ \A s \in Sessions : stage[s] # "idle" => open[s].entry \in Entries
    /\ \A s \in Sessions : stage[s] \notin {"idle", "begin"} =>
        /\ open[s].lease \in Leases
        /\ svc.lease[open[s].lease] # None
        /\ svc.lease[open[s].lease].s = s

(* What holds in every scenario. *)
RoutesBase ==
    /\ scenario \in Scenarios
    /\ RoutesTypeOK
    /\ probe \in [before : ServiceState, after : ServiceState] \cup {None}
    /\ LeasesInOrder

RoutesInductive == RoutesBase /\ Ownership

(* What a transaction other than a reservation does to the leases. *)
LeasesKept(a, b) ==
    \A l \in Leases :
        /\ a[l] = None <=> b[l] = None
        /\ a[l] # None => b[l].s = a[l].s
        /\ a[l] # None /\ a[l].st # "reserved" => b[l] = a[l]

-----------------------------------------------------------------------------
(* What the transactions write, field by field. *)

LEMMA Distinct ==
  /\ Own \notin Entries /\ None \notin Entries /\ None # Own /\ Entries \subseteq Nat
  /\ Leases \subseteq Nat \ {0} /\ Leases \subseteq 0 .. MaxOpens /\ MaxOpens \in Nat
  /\ None \notin Sessions
<1>1. Own \notin Entries /\ Entries \subseteq Nat /\ MaxOpens \in Nat
  BY RoutesAssumption DEF Own
<1>2. None \notin Entries /\ None # Own /\ None \notin Sessions
  BY RoutesAssumption, 0 \in Nat DEF Own
<1>3. Leases \subseteq Nat \ {0} /\ Leases \subseteq 0 .. MaxOpens
  BY <1>1 DEF Leases
<1> QED BY <1>1, <1>2, <1>3

LEMMA SetPool ==
  ASSUME NEW st \in ServiceState, NEW v \in [Entries -> PoolRecord]
  PROVE  /\ [st EXCEPT !.pool = v] \in ServiceState /\ [st EXCEPT !.pool = v].pool = v
         /\ [st EXCEPT !.pool = v].alloc = st.alloc
         /\ [st EXCEPT !.pool = v].route = st.route
         /\ [st EXCEPT !.pool = v].browser = st.browser
         /\ [st EXCEPT !.pool = v].lease = st.lease
BY DEF ServiceState

LEMMA SetAlloc ==
  ASSUME NEW st \in ServiceState, NEW v \in [Entries -> AllocRecord \cup {None}]
  PROVE  /\ [st EXCEPT !.alloc = v] \in ServiceState /\ [st EXCEPT !.alloc = v].alloc = v
         /\ [st EXCEPT !.alloc = v].pool = st.pool
         /\ [st EXCEPT !.alloc = v].route = st.route
         /\ [st EXCEPT !.alloc = v].browser = st.browser
         /\ [st EXCEPT !.alloc = v].lease = st.lease
BY DEF ServiceState

LEMMA SetRoute ==
  ASSUME NEW st \in ServiceState, NEW v \in [Entries -> RouteRecord \cup {None}]
  PROVE  /\ [st EXCEPT !.route = v] \in ServiceState /\ [st EXCEPT !.route = v].route = v
         /\ [st EXCEPT !.route = v].pool = st.pool
         /\ [st EXCEPT !.route = v].alloc = st.alloc
         /\ [st EXCEPT !.route = v].browser = st.browser
         /\ [st EXCEPT !.route = v].lease = st.lease
BY DEF ServiceState

LEMMA SetBrowser ==
  ASSUME NEW st \in ServiceState, NEW v \in [Sessions -> BrowserRecord \cup {None}]
  PROVE  /\ [st EXCEPT !.browser = v] \in ServiceState /\ [st EXCEPT !.browser = v].browser = v
         /\ [st EXCEPT !.browser = v].pool = st.pool
         /\ [st EXCEPT !.browser = v].alloc = st.alloc
         /\ [st EXCEPT !.browser = v].route = st.route
         /\ [st EXCEPT !.browser = v].lease = st.lease
BY DEF ServiceState

LEMMA SetLease ==
  ASSUME NEW st \in ServiceState, NEW v \in [Leases -> LeaseRecord \cup {None}]
  PROVE  /\ [st EXCEPT !.lease = v] \in ServiceState /\ [st EXCEPT !.lease = v].lease = v
         /\ [st EXCEPT !.lease = v].pool = st.pool
         /\ [st EXCEPT !.lease = v].alloc = st.alloc
         /\ [st EXCEPT !.lease = v].route = st.route
         /\ [st EXCEPT !.lease = v].browser = st.browser
BY DEF ServiceState

LEMMA StateElim ==
  ASSUME NEW st \in ServiceState
  PROVE  /\ st = [pool |-> st.pool, alloc |-> st.alloc, route |-> st.route, browser |-> st.browser,
                  lease |-> st.lease]
         /\ st.pool \in [Entries -> PoolRecord] /\ st.alloc \in [Entries -> AllocRecord \cup {None}]
         /\ st.route \in [Entries -> RouteRecord \cup {None}]
         /\ st.browser \in [Sessions -> BrowserRecord \cup {None}]
         /\ st.lease \in [Leases -> LeaseRecord \cup {None}]
BY DEF ServiceState

LEMMA BrowserDisplayType ==
  ASSUME NEW st \in ServiceState, NEW s \in Sessions
  PROVE  /\ BrowserDisplay(st, s) \in Entries \cup {None, Own}
         /\ BrowserDisplay(st, s) \in Entries =>
              st.browser[s] # None /\ st.browser[s].disp = BrowserDisplay(st, s)
         /\ st.browser[s] # None => BrowserDisplay(st, s) = st.browser[s].disp
BY Distinct DEF ServiceState, BrowserDisplay, BrowserRecord

LEMMA ReadinessTypes ==
  /\ \A x \in {"none", "ready", "released", "orphaned", "degraded", "unavailable"} : Is(x) \in Readiness
  /\ \A l \in Leases : PendingFor(l) \in Readiness
BY Distinct DEF Is, PendingFor, Readiness

LEMMA ReservedFields ==
  ASSUME NEW st \in ServiceState, NEW s \in Sessions, NEW e \in Entries, NEW l \in Leases,
         NEW n, n = Reserved(st, s, e, l)
  PROVE  /\ n \in ServiceState
         /\ HoldsActive(n.alloc[e], s) /\ n.route[e] # None /\ n.route[e].own = s
         /\ \A d \in Entries \ {e} : n.alloc[d] = st.alloc[d] /\ n.route[d] = st.route[d]
         /\ n.browser = st.browser
         /\ n.lease[l] # None /\ n.lease[l].st = "reserved" /\ n.lease[l].s = s /\ n.lease[l].e = e
         /\ n.lease[l].alloc = st.alloc[e] /\ n.lease[l].route = st.route[e]
         /\ n.lease[l].disp = BrowserDisplay(st, s)
         /\ \A k \in Leases \ {l} : n.lease[k] = st.lease[k]
<1> DEFINE p == [st |-> "pending", cur |-> TRUE, rd |-> PendingFor(l), kept |-> Is("none")]
           al == [st |-> "pending", own |-> s, routes |-> TRUE, rd |-> PendingFor(l)]
           r == [st |-> "pending", own |-> s]
           le == [st |-> "reserved", s |-> s, e |-> e, pool |-> st.pool[e], alloc |-> st.alloc[e],
                  route |-> st.route[e], disp |-> BrowserDisplay(st, s)]
<1>1. p \in PoolRecord /\ al \in AllocRecord /\ r \in RouteRecord
  BY ReadinessTypes DEF PoolRecord, AllocRecord, RouteRecord
<1>2. le \in LeaseRecord
  BY BrowserDisplayType DEF LeaseRecord, ServiceState
<1> HIDE DEF p, al, r, le
<1> DEFINE s1 == [st EXCEPT !.pool = [st.pool EXCEPT ![e] = p]]
           s2 == [s1 EXCEPT !.alloc = [s1.alloc EXCEPT ![e] = al]]
           s3 == [s2 EXCEPT !.route = [s2.route EXCEPT ![e] = r]]
           s4 == [s3 EXCEPT !.lease = [s3.lease EXCEPT ![l] = le]]
<1>3. Reserved(st, s, e, l) = s4
  BY DEF Reserved, p, al, r, le
<1>a. s1 \in ServiceState /\ s1.alloc = st.alloc /\ s1.route = st.route /\ s1.browser = st.browser
      /\ s1.lease = st.lease
  BY <1>1, StateElim, SetPool
<1> HIDE DEF s1
<1>b. s2 \in ServiceState /\ s2.alloc = [st.alloc EXCEPT ![e] = al] /\ s2.route = st.route
      /\ s2.browser = st.browser /\ s2.lease = st.lease
  BY <1>1, <1>a, StateElim, SetAlloc
<1> HIDE DEF s2
<1>c. s3 \in ServiceState /\ s3.alloc = [st.alloc EXCEPT ![e] = al] /\ s3.route = [st.route EXCEPT ![e] = r]
      /\ s3.browser = st.browser /\ s3.lease = st.lease
  BY <1>1, <1>b, StateElim, SetRoute
<1> HIDE DEF s3
<1>d. s4 \in ServiceState /\ s4.alloc = [st.alloc EXCEPT ![e] = al] /\ s4.route = [st.route EXCEPT ![e] = r]
      /\ s4.browser = st.browser /\ s4.lease = [st.lease EXCEPT ![l] = le]
  BY <1>2, <1>c, StateElim, SetLease
<1> HIDE DEF s4
<1>e. HoldsActive(al, s) /\ r # None /\ r.own = s
  <2>1. al.own = s /\ al.st = "pending" /\ al.rd.st = "pending" /\ r.own = s
    BY DEF al, r, PendingFor
  <2> QED BY <1>1, <2>1, NoRecordAssumption DEF HoldsActive, Holds, AllocInactive
<1>f. /\ le # None /\ le.st = "reserved" /\ le.s = s /\ le.e = e
      /\ le.alloc = st.alloc[e] /\ le.route = st.route[e] /\ le.disp = BrowserDisplay(st, s)
  <2>1. le # None
    BY <1>2, NoRecordAssumption
  <2> QED BY <2>1 DEF le
<1>g. /\ n.alloc[e] = al /\ n.route[e] = r /\ n.lease[l] = le
      /\ \A d \in Entries \ {e} : n.alloc[d] = st.alloc[d] /\ n.route[d] = st.route[d]
      /\ \A k \in Leases \ {l} : n.lease[k] = st.lease[k]
  BY <1>3, <1>d, StateElim
<1> QED BY <1>3, <1>d, <1>e, <1>f, <1>g

LEMMA LaunchedFields ==
  ASSUME NEW st \in ServiceState, NEW s \in Sessions, NEW p \in 0 .. MaxOpens,
         NEW n, n = Launched(st, s, p)
  PROVE  /\ n \in ServiceState
         /\ n.browser[s] # None /\ n.browser[s].pid = p
         /\ n.browser[s].disp = IF BrowserDisplay(st, s) = None THEN Own ELSE BrowserDisplay(st, s)
         /\ \A t \in Sessions \ {s} : n.browser[t] = st.browser[t]
         /\ \A e \in Entries :
              IF e = BrowserDisplay(st, s)
              THEN /\ Holds(n.alloc[e], s)
                   /\ st.alloc[e] # None /\ ~AllocInactive(st.alloc[e]) => ~AllocInactive(n.alloc[e])
              ELSE n.alloc[e] = st.alloc[e]
         /\ n.route = st.route /\ n.lease = st.lease
<1> DEFINE d == BrowserDisplay(st, s)
           b == [health |-> "ready", pid |-> p, disp |-> IF d = None THEN Own ELSE d]
           al == IF st.alloc[d] = None
                 THEN [st |-> "ready", own |-> s, routes |-> FALSE, rd |-> Is("none")]
                 ELSE [st.alloc[d] EXCEPT !.st = "ready", !.own = s]
<1>1. b \in BrowserRecord
  BY BrowserDisplayType DEF BrowserRecord
<1>2. ASSUME d \in Entries PROVE al \in AllocRecord
  <2>1. CASE st.alloc[d] = None
    BY <2>1, ReadinessTypes DEF AllocRecord
  <2>2. CASE st.alloc[d] # None
    <3>1. st.alloc[d] \in AllocRecord
      BY <1>2, <2>2, StateElim
    <3> QED BY <2>2, <3>1 DEF AllocRecord
  <2> QED BY <2>1, <2>2
<1> HIDE DEF b, al
<1> DEFINE s1 == [st EXCEPT !.browser = [st.browser EXCEPT ![s] = b]]
           s2 == [s1 EXCEPT !.alloc = [s1.alloc EXCEPT ![d] = al]]
<1>3. Launched(st, s, p) = IF d \notin Entries THEN s1 ELSE s2
  BY Zenon DEF Launched, b, al
<1>a. /\ s1 \in ServiceState /\ s1.alloc = st.alloc /\ s1.route = st.route
      /\ s1.browser = [st.browser EXCEPT ![s] = b] /\ s1.lease = st.lease
  BY <1>1, StateElim, SetBrowser
<1> HIDE DEF s1
<1>b. ASSUME d \in Entries
      PROVE  /\ s2 \in ServiceState /\ s2.alloc = [st.alloc EXCEPT ![d] = al] /\ s2.route = st.route
             /\ s2.browser = [st.browser EXCEPT ![s] = b] /\ s2.lease = st.lease
  BY <1>2, <1>a, <1>b, StateElim, SetAlloc
<1> HIDE DEF s2
<1>e. b # None /\ b.pid = p /\ b.disp = IF d = None THEN Own ELSE d
  <2>1. b # None
    BY <1>1, NoRecordAssumption
  <2> QED BY <2>1 DEF b
<1>f. ASSUME d \in Entries
      PROVE  /\ Holds(al, s)
             /\ st.alloc[d] # None /\ ~AllocInactive(st.alloc[d]) => ~AllocInactive(al)
  <2>1. al # None
    BY <1>2, <1>f, NoRecordAssumption
  <2>2. CASE st.alloc[d] = None
    <3>1. al.own = s
      BY <2>2 DEF al
    <3> QED BY <2>1, <2>2, <3>1 DEF Holds
  <2>3. CASE st.alloc[d] # None
    <3>1. st.alloc[d] \in AllocRecord
      BY <1>f, <2>3, StateElim
    <3>2. al.own = s /\ al.st = "ready" /\ al.rd = st.alloc[d].rd
      BY <2>3, <3>1 DEF al, AllocRecord
    <3> QED BY <2>1, <3>2 DEF Holds, AllocInactive
  <2> QED BY <2>2, <2>3
<1> HIDE DEF d
<1>g. /\ n \in ServiceState /\ n.browser = [st.browser EXCEPT ![s] = b]
      /\ n.alloc = (IF d \notin Entries THEN st.alloc ELSE [st.alloc EXCEPT ![d] = al])
      /\ n.route = st.route /\ n.lease = st.lease
  BY <1>3, <1>a, <1>b
<1>h. n.browser[s] = b /\ \A t \in Sessions \ {s} : n.browser[t] = st.browser[t]
  BY <1>g, StateElim
<1>i. \A e \in Entries : n.alloc[e] = IF e = d THEN al ELSE st.alloc[e]
  BY <1>g, StateElim
<1> QED BY <1>e, <1>f, <1>g, <1>h, <1>i DEF d

LEMMA PlacedFields ==
  ASSUME NEW st \in ServiceState, NEW s \in Sessions, NEW d \in Entries \cup {None, Own},
         NEW n, n = Placed(st, s, d)
  PROVE  /\ n \in ServiceState
         /\ n.alloc = st.alloc /\ n.route = st.route /\ n.lease = st.lease
         /\ n.browser[s] = None <=> st.browser[s] = None
         /\ n.browser[s] # None => n.browser[s].pid = st.browser[s].pid /\ n.browser[s].disp = d
         /\ \A t \in Sessions \ {s} : n.browser[t] = st.browser[t]
<1> DEFINE b == [st.browser[s] EXCEPT !.disp = d]
<1>1. CASE st.browser[s] = None
  BY <1>1 DEF Placed
<1>2. CASE st.browser[s] # None
  <2>1. b \in BrowserRecord /\ b.pid = st.browser[s].pid /\ b.disp = d
    <3>1. st.browser[s] \in BrowserRecord
      BY <1>2, StateElim
    <3> QED BY <3>1 DEF BrowserRecord
  <2> DEFINE m == [st EXCEPT !.browser = [st.browser EXCEPT ![s] = b]]
  <2>3. m = [st EXCEPT !.browser[s].disp = d]
    OBVIOUS
  <2> HIDE DEF b
  <2>2. /\ m \in ServiceState /\ m.alloc = st.alloc /\ m.route = st.route /\ m.lease = st.lease
        /\ m.browser = [st.browser EXCEPT ![s] = b]
    BY <2>1, StateElim, SetBrowser
  <2> HIDE DEF m
  <2>4. n = m
    BY <1>2, <2>3 DEF Placed
  <2>5. b # None
    BY <2>1, NoRecordAssumption
  <2> QED BY <1>2, <2>1, <2>2, <2>4, <2>5, StateElim
<1> QED BY <1>1, <1>2

LEMMA CheckedOutFields ==
  ASSUME NEW st \in ServiceState, NEW s \in Sessions, NEW e \in Entries,
         NEW n, n = CheckedOut(st, s, e)
  PROVE  /\ n \in ServiceState
         /\ Holds(n.alloc[e], s) /\ n.route[e] # None /\ n.route[e].own = s
         /\ st.alloc[e] # None /\ ~AllocInactive(st.alloc[e]) => ~AllocInactive(n.alloc[e])
         /\ \A d \in Entries \ {e} : n.alloc[d] = st.alloc[d] /\ n.route[d] = st.route[d]
         /\ n.browser[s] = None <=> st.browser[s] = None
         /\ n.browser[s] # None => n.browser[s].pid = st.browser[s].pid /\ n.browser[s].disp = e
         /\ \A t \in Sessions \ {s} : n.browser[t] = st.browser[t]
         /\ n.lease = st.lease
<1> DEFINE p == [st |-> "checked_out", cur |-> TRUE, rd |-> Is("ready"), kept |-> Is("none")]
           al == [st |-> "ready", own |-> s, routes |-> TRUE,
                  rd |-> IF st.alloc[e] = None THEN Is("none") ELSE st.alloc[e].rd]
           r == [st |-> "ready", own |-> s]
<1>1. p \in PoolRecord /\ r \in RouteRecord
  BY ReadinessTypes DEF PoolRecord, RouteRecord
<1>2. al \in AllocRecord
  <2>1. st.alloc[e] # None => st.alloc[e].rd \in Readiness
    BY StateElim DEF AllocRecord
  <2> QED BY <2>1, ReadinessTypes DEF AllocRecord
<1> HIDE DEF p, al, r
<1> DEFINE s1 == [st EXCEPT !.pool = [st.pool EXCEPT ![e] = p]]
           s2 == [s1 EXCEPT !.alloc = [s1.alloc EXCEPT ![e] = al]]
           s3 == [s2 EXCEPT !.route = [s2.route EXCEPT ![e] = r]]
<1>3. CheckedOut(st, s, e) = Placed(s3, s, e)
  BY DEF CheckedOut, p, al, r
<1>a. s1 \in ServiceState /\ s1.alloc = st.alloc /\ s1.route = st.route /\ s1.browser = st.browser
      /\ s1.lease = st.lease
  BY <1>1, StateElim, SetPool
<1> HIDE DEF s1
<1>b. s2 \in ServiceState /\ s2.alloc = [st.alloc EXCEPT ![e] = al] /\ s2.route = st.route
      /\ s2.browser = st.browser /\ s2.lease = st.lease
  BY <1>2, <1>a, StateElim, SetAlloc
<1> HIDE DEF s2
<1>c. s3 \in ServiceState /\ s3.alloc = [st.alloc EXCEPT ![e] = al]
      /\ s3.route = [st.route EXCEPT ![e] = r] /\ s3.browser = st.browser /\ s3.lease = st.lease
  BY <1>1, <1>b, StateElim, SetRoute
<1> HIDE DEF s3
<1>e. /\ Holds(al, s) /\ r # None /\ r.own = s
      /\ st.alloc[e] # None /\ ~AllocInactive(st.alloc[e]) => ~AllocInactive(al)
  <2>1. /\ al.own = s /\ r.own = s /\ al.st = "ready"
        /\ st.alloc[e] # None => al.rd = st.alloc[e].rd
    BY DEF al, r
  <2> QED BY <1>1, <1>2, <2>1, NoRecordAssumption DEF Holds, AllocInactive
<1>f. n = Placed(s3, s, e)
  BY <1>3
<1>g. /\ n \in ServiceState /\ n.alloc = s3.alloc /\ n.route = s3.route /\ n.lease = s3.lease
      /\ (n.browser[s] = None <=> s3.browser[s] = None)
      /\ (n.browser[s] # None => n.browser[s].pid = s3.browser[s].pid /\ n.browser[s].disp = e)
      /\ \A t \in Sessions \ {s} : n.browser[t] = s3.browser[t]
  BY <1>c, <1>f, PlacedFields
<1>h. /\ n.alloc[e] = al /\ n.route[e] = r
      /\ \A d \in Entries \ {e} : n.alloc[d] = st.alloc[d] /\ n.route[d] = st.route[d]
  BY <1>c, <1>g, StateElim
<1> QED BY <1>c, <1>e, <1>g, <1>h

LEMMA FinalizedFields ==
  ASSUME NEW st \in ServiceState, NEW l \in Leases, st.lease[l] # None,
         NEW s, s = st.lease[l].s, NEW e, e = st.lease[l].e, NEW n, n = Finalized(st, l)
  PROVE  /\ n \in ServiceState
         /\ HoldsActive(n.alloc[e], s) /\ n.route[e] # None /\ n.route[e].own = s
         /\ \A d \in Entries \ {e} : n.alloc[d] = st.alloc[d] /\ n.route[d] = st.route[d]
         /\ n.browser[s] = None <=> st.browser[s] = None
         /\ n.browser[s] # None => n.browser[s].pid = st.browser[s].pid /\ n.browser[s].disp = e
         /\ \A t \in Sessions \ {s} : n.browser[t] = st.browser[t]
         /\ n.lease[l] # None /\ n.lease[l].s = s
         /\ \A k \in Leases \ {l} : n.lease[k] = st.lease[k]
<1> DEFINE p == [st |-> "checked_out", cur |-> TRUE, rd |-> Is("ready"), kept |-> Is("none")]
           al == [st |-> "ready", own |-> s, routes |-> TRUE, rd |-> Is("ready")]
           r == [st |-> "ready", own |-> s]
           le == [st.lease[l] EXCEPT !.st = "finalized"]
<1>0. st.lease[l] \in LeaseRecord
  BY StateElim
<1>1. s \in Sessions /\ e \in Entries /\ le \in LeaseRecord
  BY <1>0 DEF LeaseRecord
<1>2. p \in PoolRecord /\ r \in RouteRecord /\ al \in AllocRecord
  BY <1>1, ReadinessTypes DEF PoolRecord, RouteRecord, AllocRecord
<1> HIDE DEF p, al, r, le
<1> DEFINE s1 == [st EXCEPT !.pool = [st.pool EXCEPT ![e] = p]]
           s2 == [s1 EXCEPT !.alloc = [s1.alloc EXCEPT ![e] = al]]
           s3 == [s2 EXCEPT !.route = [s2.route EXCEPT ![e] = r]]
           s4 == [s3 EXCEPT !.lease = [s3.lease EXCEPT ![l] = [s3.lease[l] EXCEPT !.st = "finalized"]]]
<1>3. Finalized(st, l) = Placed(s4, s, e)
  BY DEF Finalized, p, al, r
<1>a. s1 \in ServiceState /\ s1.alloc = st.alloc /\ s1.route = st.route /\ s1.browser = st.browser
      /\ s1.lease = st.lease
  BY <1>1, <1>2, StateElim, SetPool
<1> HIDE DEF s1
<1>b. s2 \in ServiceState /\ s2.alloc = [st.alloc EXCEPT ![e] = al] /\ s2.route = st.route
      /\ s2.browser = st.browser /\ s2.lease = st.lease
  BY <1>1, <1>2, <1>a, StateElim, SetAlloc
<1> HIDE DEF s2
<1>c. s3 \in ServiceState /\ s3.alloc = [st.alloc EXCEPT ![e] = al]
      /\ s3.route = [st.route EXCEPT ![e] = r] /\ s3.browser = st.browser /\ s3.lease = st.lease
  BY <1>1, <1>2, <1>b, StateElim, SetRoute
<1> HIDE DEF s3
<1>d. s4 \in ServiceState /\ s4.alloc = [st.alloc EXCEPT ![e] = al]
      /\ s4.route = [st.route EXCEPT ![e] = r] /\ s4.browser = st.browser
      /\ s4.lease = [st.lease EXCEPT ![l] = le]
  <2>1. s4 = [s3 EXCEPT !.lease = [st.lease EXCEPT ![l] = le]]
    BY <1>c DEF le
  <2> HIDE DEF s4
  <2> QED BY <1>1, <1>c, <2>1, StateElim, SetLease
<1> HIDE DEF s4
<1>e. HoldsActive(al, s) /\ r # None /\ r.own = s
  <2>1. al.own = s /\ al.st = "ready" /\ al.rd.st = "ready" /\ r.own = s
    BY DEF al, r, Is
  <2> QED BY <1>2, <2>1, NoRecordAssumption DEF HoldsActive, Holds, AllocInactive
<1>f. le # None /\ le.s = s
  <2>1. le # None
    BY <1>1, NoRecordAssumption
  <2>2. le.s = s
    BY <1>0 DEF le, LeaseRecord
  <2> QED BY <2>1, <2>2
<1>i. n = Placed(s4, s, e)
  BY <1>3
<1>g. /\ n \in ServiceState /\ n.alloc = s4.alloc /\ n.route = s4.route /\ n.lease = s4.lease
      /\ (n.browser[s] = None <=> s4.browser[s] = None)
      /\ (n.browser[s] # None => n.browser[s].pid = s4.browser[s].pid /\ n.browser[s].disp = e)
      /\ \A t \in Sessions \ {s} : n.browser[t] = s4.browser[t]
  BY <1>1, <1>d, <1>i, PlacedFields
<1>h. /\ n.alloc[e] = al /\ n.route[e] = r /\ n.lease[l] = le
      /\ \A d \in Entries \ {e} : n.alloc[d] = st.alloc[d] /\ n.route[d] = st.route[d]
      /\ \A k \in Leases \ {l} : n.lease[k] = st.lease[k]
  BY <1>1, <1>d, <1>g, StateElim
<1> QED BY <1>d, <1>e, <1>f, <1>g, <1>h

LEMMA RestoredFields ==
  ASSUME NEW st \in ServiceState, NEW l \in Leases, st.lease[l] # None,
         NEW r, r = st.lease[l], NEW n, n = Restored(st, l)
  PROVE  /\ r \in LeaseRecord /\ n \in ServiceState
         /\ n.alloc[r.e] = r.alloc /\ n.route[r.e] = r.route
         /\ \A d \in Entries \ {r.e} : n.alloc[d] = st.alloc[d] /\ n.route[d] = st.route[d]
         /\ n.browser[r.s] = None <=> st.browser[r.s] = None
         /\ n.browser[r.s] # None =>
              n.browser[r.s].pid = st.browser[r.s].pid /\ n.browser[r.s].disp = r.disp
         /\ \A t \in Sessions \ {r.s} : n.browser[t] = st.browser[t]
         /\ n.lease[l] # None /\ n.lease[l].s = r.s
         /\ \A k \in Leases \ {l} : n.lease[k] = st.lease[k]
<1> DEFINE le == [r EXCEPT !.st = "rolled_back"]
<1>0. r \in LeaseRecord
  BY StateElim
<1>1. /\ le \in LeaseRecord /\ r.s \in Sessions /\ r.e \in Entries /\ r.pool \in PoolRecord
      /\ r.alloc \in AllocRecord \cup {None} /\ r.route \in RouteRecord \cup {None}
      /\ r.disp \in Entries \cup {None, Own}
  BY <1>0 DEF LeaseRecord
<1> HIDE DEF le
<1> DEFINE s1 == [st EXCEPT !.pool = [st.pool EXCEPT ![r.e] = r.pool]]
           s2 == [s1 EXCEPT !.alloc = [s1.alloc EXCEPT ![r.e] = r.alloc]]
           s3 == [s2 EXCEPT !.route = [s2.route EXCEPT ![r.e] = r.route]]
           s4 == [s3 EXCEPT !.lease = [s3.lease EXCEPT ![l] = [s3.lease[l] EXCEPT !.st = "rolled_back"]]]
<1>3. Restored(st, l) = IF st.browser[r.s] = None THEN s4 ELSE [s4 EXCEPT !.browser[r.s].disp = r.disp]
  BY DEF Restored
<1>a. s1 \in ServiceState /\ s1.alloc = st.alloc /\ s1.route = st.route /\ s1.browser = st.browser
      /\ s1.lease = st.lease
  BY <1>1, StateElim, SetPool
<1> HIDE DEF s1
<1>b. s2 \in ServiceState /\ s2.alloc = [st.alloc EXCEPT ![r.e] = r.alloc] /\ s2.route = st.route
      /\ s2.browser = st.browser /\ s2.lease = st.lease
  BY <1>1, <1>a, StateElim, SetAlloc
<1> HIDE DEF s2
<1>c. s3 \in ServiceState /\ s3.alloc = [st.alloc EXCEPT ![r.e] = r.alloc]
      /\ s3.route = [st.route EXCEPT ![r.e] = r.route] /\ s3.browser = st.browser /\ s3.lease = st.lease
  BY <1>1, <1>b, StateElim, SetRoute
<1> HIDE DEF s3
<1>d. s4 \in ServiceState /\ s4.alloc = [st.alloc EXCEPT ![r.e] = r.alloc]
      /\ s4.route = [st.route EXCEPT ![r.e] = r.route] /\ s4.browser = st.browser
      /\ s4.lease = [st.lease EXCEPT ![l] = le]
  <2>1. s4 = [s3 EXCEPT !.lease = [st.lease EXCEPT ![l] = le]]
    BY <1>c DEF le
  <2> HIDE DEF s4
  <2> QED BY <1>1, <1>c, <2>1, StateElim, SetLease
<1> HIDE DEF s4
<1>4. Restored(st, l) = IF s4.browser[r.s] = None THEN s4 ELSE [s4 EXCEPT !.browser[r.s].disp = r.disp]
  BY <1>3, <1>d
<1>6. n = Placed(s4, r.s, r.disp)
  BY <1>4 DEF Placed
<1>5. /\ n \in ServiceState /\ n.alloc = s4.alloc /\ n.route = s4.route /\ n.lease = s4.lease
      /\ (n.browser[r.s] = None <=> s4.browser[r.s] = None)
      /\ (n.browser[r.s] # None => n.browser[r.s].pid = s4.browser[r.s].pid /\ n.browser[r.s].disp = r.disp)
      /\ \A t \in Sessions \ {r.s} : n.browser[t] = s4.browser[t]
  <2> DEFINE x == r.s
             y == r.disp
  <2>1. x \in Sessions /\ y \in Entries \cup {None, Own} /\ n = Placed(s4, x, y)
    BY <1>1, <1>6
  <2> HIDE DEF x, y
  <2>2. /\ n \in ServiceState /\ n.alloc = s4.alloc /\ n.route = s4.route /\ n.lease = s4.lease
        /\ (n.browser[x] = None <=> s4.browser[x] = None)
        /\ (n.browser[x] # None => n.browser[x].pid = s4.browser[x].pid /\ n.browser[x].disp = y)
        /\ \A t \in Sessions \ {x} : n.browser[t] = s4.browser[t]
    BY <2>1, <1>d, PlacedFields
  <2> QED BY <2>2 DEF x, y
<1>f. le # None /\ le.s = r.s
  <2>1. le # None
    BY <1>1, NoRecordAssumption
  <2>2. le.s = r.s
    BY <1>0 DEF le, LeaseRecord
  <2> QED BY <2>1, <2>2
<1>h. /\ n.alloc[r.e] = r.alloc /\ n.route[r.e] = r.route /\ n.lease[l] = le
      /\ \A d \in Entries \ {r.e} : n.alloc[d] = st.alloc[d] /\ n.route[d] = st.route[d]
      /\ \A k \in Leases \ {l} : n.lease[k] = st.lease[k]
  BY <1>1, <1>d, <1>5, StateElim
<1> QED BY <1>0, <1>1, <1>d, <1>f, <1>5, <1>h

(* The owner of a route is kept. *)
SameOwners(before, after) ==
    \A e \in Entries : /\ after[e] = None <=> before[e] = None
                       /\ after[e] # None => after[e].own = before[e].own

LEMMA ClosedFields ==
  ASSUME NEW st \in ServiceState, NEW s \in Sessions, NEW n, n = Closed(st, s)
  PROVE  /\ n \in ServiceState
         /\ SameOwners(st.alloc, n.alloc) /\ SameOwners(st.route, n.route)
         /\ \A e \in Entries : ~Holds(st.alloc[e], s) => n.alloc[e] = st.alloc[e]
         /\ n.browser[s] = None /\ \A t \in Sessions \ {s} : n.browser[t] = st.browser[t]
         /\ n.lease = st.lease
<1> DEFINE mine == {e \in Entries : st.alloc[e] # None /\ st.alloc[e].own = s}
           routed == {e \in mine : st.alloc[e].routes \/ (st.route[e] # None /\ st.route[e].own = s)}
           al == [e \in Entries |-> IF e \in mine
                    THEN [st.alloc[e] EXCEPT !.st = "released", !.rd = Is("released"), !.routes = FALSE]
                    ELSE st.alloc[e]]
           r == [e \in Entries |-> IF e \in routed /\ st.route[e] # None /\ st.route[e].own = s
                    THEN [st.route[e] EXCEPT !.st = "released"] ELSE st.route[e]]
           p == [e \in Entries |-> IF e \in routed /\ st.pool[e].cur
                    THEN [st.pool[e] EXCEPT !.st = "available", !.cur = FALSE] ELSE st.pool[e]]
<1>1. al \in [Entries -> AllocRecord \cup {None}]
  <2> SUFFICES ASSUME NEW e \in Entries PROVE al[e] \in AllocRecord \cup {None}
    OBVIOUS
  <2>1. st.alloc[e] \in AllocRecord \cup {None}
    BY StateElim
  <2> QED BY <2>1, ReadinessTypes DEF AllocRecord
<1>2. r \in [Entries -> RouteRecord \cup {None}]
  <2> SUFFICES ASSUME NEW e \in Entries PROVE r[e] \in RouteRecord \cup {None}
    OBVIOUS
  <2>1. st.route[e] \in RouteRecord \cup {None}
    BY StateElim
  <2> QED BY <2>1 DEF RouteRecord
<1>3. p \in [Entries -> PoolRecord]
  <2> SUFFICES ASSUME NEW e \in Entries PROVE p[e] \in PoolRecord
    OBVIOUS
  <2>1. st.pool[e] \in PoolRecord
    BY StateElim
  <2> QED BY <2>1 DEF PoolRecord
<1>4. SameOwners(st.route, r)
  <2> SUFFICES ASSUME NEW e \in Entries
               PROVE  (r[e] = None <=> st.route[e] = None) /\ (r[e] # None => r[e].own = st.route[e].own)
    BY DEF SameOwners
  <2>1. CASE e \in routed /\ st.route[e] # None /\ st.route[e].own = s
    <3>1. st.route[e] \in RouteRecord /\ r[e] = [st.route[e] EXCEPT !.st = "released"]
      BY <2>1, StateElim
    <3>2. r[e] \in RouteRecord /\ r[e].own = st.route[e].own
      BY <3>1 DEF RouteRecord
    <3> QED BY <2>1, <3>2, NoRecordAssumption
  <2>2. CASE ~(e \in routed /\ st.route[e] # None /\ st.route[e].own = s)
    <3>1. r[e] = st.route[e]
      BY <2>2
    <3> QED BY <3>1
  <2> QED BY <2>1, <2>2
<1> DEFINE s1 == [st EXCEPT !.alloc = al]
           s2 == [s1 EXCEPT !.route = [e \in Entries |->
                    IF e \in routed /\ st.route[e] # None /\ st.route[e].own = s
                    THEN [s1.route[e] EXCEPT !.st = "released"] ELSE s1.route[e]]]
           s3 == [s2 EXCEPT !.pool = [e \in Entries |->
                    IF e \in routed /\ st.pool[e].cur
                    THEN [s2.pool[e] EXCEPT !.st = "available", !.cur = FALSE] ELSE s2.pool[e]]]
           s4 == [s3 EXCEPT !.browser = [s3.browser EXCEPT ![s] = None]]
<1>5. Closed(st, s) = s4
  BY DEF Closed
<1>a. s1 \in ServiceState /\ s1.alloc = al /\ s1.route = st.route /\ s1.browser = st.browser
      /\ s1.lease = st.lease /\ s1.pool = st.pool
  BY <1>1, SetAlloc
<1> HIDE DEF s1
<1>b. s2 \in ServiceState /\ s2.alloc = al /\ s2.route = r /\ s2.browser = st.browser
      /\ s2.lease = st.lease /\ s2.pool = st.pool
  <2>1. s2 = [s1 EXCEPT !.route = r]
    BY <1>a
  <2> HIDE DEF r, s2
  <2> QED BY <1>2, <1>a, <2>1, SetRoute
<1> HIDE DEF s2
<1>c. s3 \in ServiceState /\ s3.alloc = al /\ s3.route = r /\ s3.browser = st.browser
      /\ s3.lease = st.lease
  <2>1. s3 = [s2 EXCEPT !.pool = p]
    BY <1>b
  <2> HIDE DEF p, s3
  <2> QED BY <1>3, <1>b, <2>1, SetPool
<1> HIDE DEF s3
<1>d. s4 \in ServiceState /\ s4.alloc = al /\ s4.route = r
      /\ s4.browser = [st.browser EXCEPT ![s] = None] /\ s4.lease = st.lease
  <2> HIDE DEF al, r, p, mine, routed
  <2>1. [st.browser EXCEPT ![s] = None] \in [Sessions -> BrowserRecord \cup {None}]
    BY StateElim
  <2>2. s4 = [s3 EXCEPT !.browser = [st.browser EXCEPT ![s] = None]]
    BY <1>c
  <2> HIDE DEF s4
  <2> QED BY <1>c, <2>1, <2>2, SetBrowser
<1> HIDE DEF s4, r
<1>6. \A e \in Entries : ~Holds(st.alloc[e], s) => al[e] = st.alloc[e]
  BY DEF Holds
<1>7. SameOwners(st.alloc, al)
  <2> SUFFICES ASSUME NEW e \in Entries
               PROVE  (al[e] = None <=> st.alloc[e] = None) /\ (al[e] # None => al[e].own = st.alloc[e].own)
    BY DEF SameOwners
  <2>1. CASE e \in mine
    <3>1. /\ st.alloc[e] \in AllocRecord
          /\ al[e] = [st.alloc[e] EXCEPT !.st = "released", !.rd = Is("released"), !.routes = FALSE]
      BY <2>1, StateElim
    <3>2. al[e] \in AllocRecord /\ al[e].own = st.alloc[e].own
      BY <3>1, ReadinessTypes DEF AllocRecord
    <3> QED BY <2>1, <3>2, NoRecordAssumption
  <2>2. CASE e \notin mine
    <3>1. al[e] = st.alloc[e]
      BY <2>2
    <3> QED BY <3>1
  <2> QED BY <2>1, <2>2
<1> HIDE DEF al
<1>8. n.browser[s] = None /\ \A t \in Sessions \ {s} : n.browser[t] = st.browser[t]
  BY <1>5, <1>d, StateElim
<1> QED BY <1>4, <1>5, <1>6, <1>7, <1>8, <1>d

LEMMA ClosedDegradedFields ==
  ASSUME NEW st \in ServiceState, NEW s \in Sessions
  PROVE  ClosedDegraded(st, s) \in ServiceState /\ ClosedDegraded(st, s).lease = st.lease
<1> DEFINE al == [e \in Entries |-> IF st.alloc[e] # None /\ st.alloc[e].own = s
                    THEN [st.alloc[e] EXCEPT !.st = "degraded", !.rd = Is("degraded")] ELSE st.alloc[e]]
           b == [health |-> "degraded", disp |-> BrowserDisplay(st, s), pid |-> 0]
<1>1. al \in [Entries -> AllocRecord \cup {None}]
  <2> SUFFICES ASSUME NEW e \in Entries PROVE al[e] \in AllocRecord \cup {None}
    OBVIOUS
  <2>1. st.alloc[e] \in AllocRecord \cup {None}
    BY StateElim
  <2> QED BY <2>1, ReadinessTypes DEF AllocRecord
<1>2. b \in BrowserRecord
  BY BrowserDisplayType, Distinct DEF BrowserRecord
<1> HIDE DEF b
<1> DEFINE s1 == [st EXCEPT !.alloc = al]
           s2 == [s1 EXCEPT !.browser = [s1.browser EXCEPT ![s] = b]]
<1>3. ClosedDegraded(st, s) = s2
  BY Zenon DEF ClosedDegraded, b
<1> HIDE DEF al
<1>a. s1 \in ServiceState /\ s1.browser = st.browser /\ s1.lease = st.lease
  BY <1>1, SetAlloc
<1> HIDE DEF s1
<1>b. s2 \in ServiceState /\ s2.lease = st.lease
  BY <1>2, <1>a, StateElim, SetBrowser
<1> QED BY <1>3, <1>b

LEMMA ExitRecordedFields ==
  ASSUME NEW st \in ServiceState, NEW s \in Sessions, NEW n, n = ExitRecorded(st, s)
  PROVE  /\ n \in ServiceState
         /\ \A e \in Entries :
              IF e = BrowserDisplay(st, s) /\ st.alloc[e] # None
              THEN Holds(n.alloc[e], s) ELSE n.alloc[e] = st.alloc[e]
         /\ n.route = st.route
         /\ n.browser[s] = None /\ \A t \in Sessions \ {s} : n.browser[t] = st.browser[t]
         /\ n.lease = st.lease
<1> DEFINE d == BrowserDisplay(st, s)
           al == [st.alloc[d] EXCEPT !.st = "orphaned", !.own = s, !.rd = Is("orphaned")]
           s1 == [st EXCEPT !.browser = [st.browser EXCEPT ![s] = None]]
           s2 == [s1 EXCEPT !.alloc = [s1.alloc EXCEPT ![d] =
                    [s1.alloc[d] EXCEPT !.st = "orphaned", !.own = s, !.rd = Is("orphaned")]]]
<1>1. ExitRecorded(st, s) = IF d \in Entries /\ st.alloc[d] # None THEN s2 ELSE s1
  BY Zenon DEF ExitRecorded
<1>a. /\ s1 \in ServiceState /\ s1.alloc = st.alloc /\ s1.route = st.route
      /\ s1.browser = [st.browser EXCEPT ![s] = None] /\ s1.lease = st.lease
  BY StateElim, SetBrowser
<1> HIDE DEF s1
<1>b. ASSUME d \in Entries /\ st.alloc[d] # None
      PROVE  /\ s2 \in ServiceState /\ s2.alloc = [st.alloc EXCEPT ![d] = al] /\ s2.route = st.route
             /\ s2.browser = [st.browser EXCEPT ![s] = None] /\ s2.lease = st.lease
  <2>1. al \in AllocRecord
    <3>1. st.alloc[d] \in AllocRecord
      BY <1>b, StateElim
    <3> QED BY <3>1, ReadinessTypes DEF AllocRecord
  <2>2. s2 = [s1 EXCEPT !.alloc = [st.alloc EXCEPT ![d] = al]]
    BY <1>a
  <2> HIDE DEF al, s2
  <2> QED BY <1>a, <1>b, <2>1, <2>2, StateElim, SetAlloc
<1> HIDE DEF s2
<1>c. ASSUME d \in Entries /\ st.alloc[d] # None PROVE Holds(al, s)
  <2>1. st.alloc[d] \in AllocRecord
    BY <1>c, StateElim
  <2>2. al \in AllocRecord /\ al.own = s
    BY <2>1, ReadinessTypes DEF AllocRecord
  <2> QED BY <2>2, NoRecordAssumption DEF Holds
<1> HIDE DEF al, d
<1>e. /\ n \in ServiceState /\ n.route = st.route /\ n.browser = [st.browser EXCEPT ![s] = None]
      /\ n.lease = st.lease
      /\ n.alloc = IF d \in Entries /\ st.alloc[d] # None THEN [st.alloc EXCEPT ![d] = al] ELSE st.alloc
  BY <1>1, <1>a, <1>b
<1>f. n.browser[s] = None /\ \A t \in Sessions \ {s} : n.browser[t] = st.browser[t]
  BY <1>e, StateElim
<1>g. \A e \in Entries : n.alloc[e] = IF e = d /\ st.alloc[e] # None THEN al ELSE st.alloc[e]
  BY <1>e, StateElim
<1> QED BY <1>c, <1>e, <1>f, <1>g DEF d

LEMMA ReleasedFields ==
  ASSUME NEW st \in ServiceState, NEW e \in Entries, NEW park \in BOOLEAN, st.route[e] # None,
         NEW n, n = Released(st, e, park)
  PROVE  /\ n \in ServiceState
         /\ SameOwners(st.alloc, n.alloc) /\ SameOwners(st.route, n.route)
         /\ ~park => \A d \in Entries : st.alloc[d] # None =>
                        (AllocInactive(n.alloc[d]) <=> AllocInactive(st.alloc[d]))
         /\ n.browser = st.browser /\ n.lease = st.lease
<1> DEFINE P(x) == IF ~x.cur THEN x
                   ELSE [x EXCEPT !.st = "available", !.cur = FALSE,
                                  !.rd = IF x.rd.st = "pending" THEN Is("ready") ELSE x.rd]
           A(x) == IF x = None THEN None
                   ELSE IF park THEN [x EXCEPT !.routes = FALSE, !.st = "released", !.rd = Is("released")]
                   ELSE [x EXCEPT !.routes = FALSE]
           R(x) == [x EXCEPT !.st = "released"]
           s1 == [st EXCEPT !.route = [st.route EXCEPT ![e] = R(st.route[e])]]
           s2 == [s1 EXCEPT !.pool = [s1.pool EXCEPT ![e] = P(st.pool[e])]]
           s3 == [s2 EXCEPT !.alloc = [s2.alloc EXCEPT ![e] = A(st.alloc[e])]]
<1>1. Released(st, e, park) = s3
  BY DEF Released
<1>2. st.route[e] \in RouteRecord /\ R(st.route[e]) \in RouteRecord /\ R(st.route[e]).own = st.route[e].own
  BY StateElim DEF RouteRecord
<1>3. P(st.pool[e]) \in PoolRecord
  <2>1. st.pool[e] \in PoolRecord
    BY StateElim
  <2> QED BY <2>1, ReadinessTypes DEF PoolRecord
<1>4. A(st.alloc[e]) \in AllocRecord \cup {None}
  <2>1. st.alloc[e] \in AllocRecord \cup {None}
    BY StateElim
  <2> QED BY <2>1, ReadinessTypes DEF AllocRecord
<1> HIDE DEF P, A, R
<1>a. /\ s1 \in ServiceState /\ s1.alloc = st.alloc /\ s1.route = [st.route EXCEPT ![e] = R(st.route[e])]
      /\ s1.browser = st.browser /\ s1.lease = st.lease /\ s1.pool = st.pool
  BY <1>2, StateElim, SetRoute
<1> HIDE DEF s1
<1>b. /\ s2 \in ServiceState /\ s2.alloc = st.alloc /\ s2.route = [st.route EXCEPT ![e] = R(st.route[e])]
      /\ s2.browser = st.browser /\ s2.lease = st.lease
  BY <1>3, <1>a, StateElim, SetPool
<1> HIDE DEF s2
<1>c. /\ s3 \in ServiceState /\ s3.alloc = [st.alloc EXCEPT ![e] = A(st.alloc[e])]
      /\ s3.route = [st.route EXCEPT ![e] = R(st.route[e])]
      /\ s3.browser = st.browser /\ s3.lease = st.lease
  BY <1>4, <1>b, StateElim, SetAlloc
<1> HIDE DEF s3
<1>5. SameOwners(st.route, s3.route)
  BY <1>2, <1>c, StateElim, NoRecordAssumption DEF SameOwners
<1>6. /\ A(st.alloc[e]) = None <=> st.alloc[e] = None
      /\ A(st.alloc[e]) # None => A(st.alloc[e]).own = st.alloc[e].own
      /\ ~park /\ st.alloc[e] # None => (AllocInactive(A(st.alloc[e])) <=> AllocInactive(st.alloc[e]))
  <2>1. CASE st.alloc[e] = None
    BY <2>1 DEF A
  <2>2. CASE st.alloc[e] # None
    <3>1. st.alloc[e] \in AllocRecord
      BY <2>2, StateElim
    <3>2. A(st.alloc[e]) \in AllocRecord /\ A(st.alloc[e]).own = st.alloc[e].own
      BY <2>2, <3>1, ReadinessTypes DEF A, AllocRecord
    <3>3. ~park => A(st.alloc[e]).st = st.alloc[e].st /\ A(st.alloc[e]).rd = st.alloc[e].rd
      BY <2>2, <3>1 DEF A, AllocRecord
    <3>4. A(st.alloc[e]) # None
      BY <3>2, NoRecordAssumption
    <3> QED BY <2>2, <3>2, <3>3, <3>4 DEF AllocInactive
  <2> QED BY <2>1, <2>2
<1>7. n \in ServiceState /\ \A d \in Entries : n.alloc[d] = IF d = e THEN A(st.alloc[e]) ELSE st.alloc[d]
  BY <1>1, <1>c, StateElim
<1>8. SameOwners(st.alloc, n.alloc)
  BY <1>6, <1>7 DEF SameOwners
<1> QED BY <1>1, <1>c, <1>5, <1>6, <1>7, <1>8

(* The probe finds the process of the record. *)
Found(st, s) == st.browser[s] # None /\ st.browser[s].pid # 0 /\ alive[s] = st.browser[s].pid

LEMMA ProbedFields ==
  ASSUME NEW st \in ServiceState, NEW missed
  PROVE  /\ Probed(st, missed) \in ServiceState
         /\ Probed(st, missed).alloc = st.alloc /\ Probed(st, missed).route = st.route
         /\ Probed(st, missed).lease = st.lease /\ Probed(st, missed).pool = st.pool
         /\ \A s \in Sessions :
              /\ Probed(st, missed).browser[s] = None <=> st.browser[s] = None
              /\ st.browser[s] # None =>
                   /\ Probed(st, missed).browser[s].pid = st.browser[s].pid
                   /\ Probed(st, missed).browser[s].disp = st.browser[s].disp
                   /\ Found(st, s) => Probed(st, missed).browser[s].health \in {"ready", "degraded"}
                   /\ Found(st, s) /\ s \notin missed => Probed(st, missed).browser[s].health = "ready"
                   /\ st.browser[s].pid # 0 /\ ~Found(st, s) => Probed(st, missed).browser[s].health = "exited"
<1> DEFINE H(s) == CASE alive[s] # st.browser[s].pid -> "exited"
                     [] alive[s] = st.browser[s].pid /\ s \in missed -> "degraded"
                     [] OTHER -> "ready"
           b == [s \in Sessions |-> IF st.browser[s] = None \/ st.browser[s].pid = 0 THEN st.browser[s]
                                    ELSE [st.browser[s] EXCEPT !.health = H(s)]]
<1>1. Probed(st, missed) = [st EXCEPT !.browser = b]
  BY DEF Probed
<1>2. ASSUME NEW s \in Sessions
      PROVE  /\ b[s] \in BrowserRecord \cup {None}
             /\ b[s] = None <=> st.browser[s] = None
             /\ st.browser[s] # None =>
                   /\ b[s].pid = st.browser[s].pid
                   /\ b[s].disp = st.browser[s].disp
                   /\ Found(st, s) => b[s].health \in {"ready", "degraded"}
                   /\ Found(st, s) /\ s \notin missed => b[s].health = "ready"
                   /\ st.browser[s].pid # 0 /\ ~Found(st, s) => b[s].health = "exited"
  <2>1. CASE st.browser[s] = None
    BY <2>1
  <2>2. CASE st.browser[s] # None /\ st.browser[s].pid = 0
    <3>1. st.browser[s] \in BrowserRecord /\ b[s] = st.browser[s]
      BY <2>2, StateElim
    <3> QED BY <2>2, <3>1 DEF Found
  <2>3. CASE st.browser[s] # None /\ st.browser[s].pid # 0
    <3>1. st.browser[s] \in BrowserRecord /\ b[s] = [st.browser[s] EXCEPT !.health = H(s)]
      BY <2>3, StateElim
    <3>2. /\ H(s) \in {"ready", "degraded", "exited"}
          /\ Found(st, s) => H(s) \in {"ready", "degraded"}
          /\ Found(st, s) /\ s \notin missed => H(s) = "ready"
          /\ ~Found(st, s) => H(s) = "exited"
      BY <2>3 DEF Found
    <3> HIDE DEF b, H
    <3>3. /\ b[s] \in BrowserRecord /\ b[s].pid = st.browser[s].pid /\ b[s].disp = st.browser[s].disp
          /\ b[s].health = H(s)
      BY <3>1, <3>2 DEF BrowserRecord
    <3> QED BY <2>3, <3>2, <3>3, NoRecordAssumption
  <2> QED BY <2>1, <2>2, <2>3
<1>3. b \in [Sessions -> BrowserRecord \cup {None}]
  BY <1>2
<1> HIDE DEF b
<1>4. /\ Probed(st, missed) \in ServiceState /\ Probed(st, missed).browser = b
      /\ Probed(st, missed).alloc = st.alloc /\ Probed(st, missed).route = st.route
      /\ Probed(st, missed).lease = st.lease /\ Probed(st, missed).pool = st.pool
  BY <1>1, <1>3, SetBrowser
<1> QED BY <1>2, <1>4

LEMMA DisplaysCheckedFields ==
  ASSUME NEW st \in ServiceState
  PROVE  /\ DisplaysChecked(st) \in ServiceState
         /\ DisplaysChecked(st).alloc = st.alloc /\ DisplaysChecked(st).route = st.route
         /\ DisplaysChecked(st).lease = st.lease /\ DisplaysChecked(st).browser = st.browser
<1> DEFINE p == [e \in Entries |->
                    CASE e \notin display /\ st.pool[e].st # "unavailable" ->
                            [st.pool[e] EXCEPT !.st = "unavailable", !.rd = Is("unavailable"),
                                               !.kept = st.pool[e].rd]
                      [] e \in display /\ st.pool[e].rd.st = "unavailable" ->
                            [st |-> "available", cur |-> FALSE, rd |-> st.pool[e].kept, kept |-> Is("none")]
                      [] OTHER -> st.pool[e]]
<1>1. DisplaysChecked(st) = [st EXCEPT !.pool = p]
  BY DEF DisplaysChecked
<1>2. ASSUME NEW e \in Entries PROVE p[e] \in PoolRecord
  <2>1. st.pool[e] \in PoolRecord
    BY StateElim
  <2>2. CASE e \notin display /\ st.pool[e].st # "unavailable"
    BY <2>1, <2>2, ReadinessTypes DEF PoolRecord
  <2>3. CASE e \in display /\ st.pool[e].rd.st = "unavailable"
    BY <2>1, <2>3, ReadinessTypes DEF PoolRecord
  <2>4. CASE /\ ~(e \notin display /\ st.pool[e].st # "unavailable")
             /\ ~(e \in display /\ st.pool[e].rd.st = "unavailable")
    BY <2>1, <2>4
  <2> QED BY <2>2, <2>3, <2>4
<1>3. p \in [Entries -> PoolRecord]
  BY <1>2
<1> HIDE DEF p
<1> QED BY <1>1, <1>3, SetPool

LEMMA AllocationsCheckedFields ==
  ASSUME NEW st \in ServiceState
  PROVE  /\ AllocationsChecked(st) \in ServiceState
         /\ AllocationsChecked(st).route = st.route
         /\ AllocationsChecked(st).lease = st.lease /\ AllocationsChecked(st).browser = st.browser
         /\ SameOwners(st.alloc, AllocationsChecked(st).alloc)
         /\ \A e \in Entries : st.alloc[e] # None /\ BrowserReady(st, st.alloc[e].own) =>
                AllocationsChecked(st).alloc[e] = st.alloc[e]
<1> DEFINE C(e) == st.alloc[e] # None /\ st.alloc[e].st # "released" /\ ~BrowserReady(st, st.alloc[e].own)
           al == [e \in Entries |-> IF C(e)
                    THEN [st.alloc[e] EXCEPT !.st = "orphaned", !.rd = Is("orphaned")] ELSE st.alloc[e]]
<1>1. AllocationsChecked(st) = [st EXCEPT !.alloc = al]
  BY DEF AllocationsChecked
<1>2. ASSUME NEW e \in Entries
      PROVE  /\ al[e] \in AllocRecord \cup {None}
             /\ al[e] = None <=> st.alloc[e] = None
             /\ al[e] # None => al[e].own = st.alloc[e].own
             /\ st.alloc[e] # None /\ BrowserReady(st, st.alloc[e].own) => al[e] = st.alloc[e]
  <2>1. CASE ~C(e)
    <3>1. al[e] = st.alloc[e] /\ st.alloc[e] \in AllocRecord \cup {None}
      BY <2>1, StateElim
    <3> QED BY <3>1
  <2>2. CASE C(e)
    <3>1. st.alloc[e] \in AllocRecord /\ al[e] = [st.alloc[e] EXCEPT !.st = "orphaned", !.rd = Is("orphaned")]
      BY <2>2, StateElim
    <3>2. al[e] \in AllocRecord /\ al[e].own = st.alloc[e].own
      BY <3>1, ReadinessTypes DEF AllocRecord
    <3> QED BY <2>2, <3>2, NoRecordAssumption
  <2> QED BY <2>1, <2>2
<1>3. al \in [Entries -> AllocRecord \cup {None}]
  BY <1>2
<1> HIDE DEF al
<1>4. /\ AllocationsChecked(st) \in ServiceState /\ AllocationsChecked(st).alloc = al
      /\ AllocationsChecked(st).route = st.route
      /\ AllocationsChecked(st).lease = st.lease /\ AllocationsChecked(st).browser = st.browser
  BY <1>1, <1>3, SetAlloc
<1> QED BY <1>2, <1>4 DEF SameOwners

LEMMA RoutesCheckedFields ==
  ASSUME NEW st \in ServiceState
  PROVE  /\ RoutesChecked(st) \in ServiceState
         /\ RoutesChecked(st).alloc = st.alloc
         /\ RoutesChecked(st).lease = st.lease /\ RoutesChecked(st).browser = st.browser
         /\ SameOwners(st.route, RoutesChecked(st).route)
<1> DEFINE C(e) == /\ st.route[e] # None /\ st.route[e].st # "released"
                   /\ \/ e \notin display
                      \/ st.alloc[e] = None
                      \/ st.alloc[e].st # "ready"
                      \/ ~BrowserReady(st, st.route[e].own)
           r == [e \in Entries |-> IF C(e) THEN [st.route[e] EXCEPT !.st = "orphaned"] ELSE st.route[e]]
<1>1. RoutesChecked(st) = [st EXCEPT !.route = r]
  BY DEF RoutesChecked
<1>2. ASSUME NEW e \in Entries
      PROVE  /\ r[e] \in RouteRecord \cup {None}
             /\ r[e] = None <=> st.route[e] = None
             /\ r[e] # None => r[e].own = st.route[e].own
  <2>1. CASE ~C(e)
    <3>1. r[e] = st.route[e] /\ st.route[e] \in RouteRecord \cup {None}
      BY <2>1, StateElim
    <3> QED BY <3>1
  <2>2. CASE C(e)
    <3>1. st.route[e] \in RouteRecord /\ r[e] = [st.route[e] EXCEPT !.st = "orphaned"]
      BY <2>2, StateElim
    <3>2. r[e] \in RouteRecord /\ r[e].own = st.route[e].own
      BY <3>1 DEF RouteRecord
    <3> QED BY <2>2, <3>2, NoRecordAssumption
  <2> QED BY <2>1, <2>2
<1>3. r \in [Entries -> RouteRecord \cup {None}]
  BY <1>2
<1> HIDE DEF r
<1>4. /\ RoutesChecked(st) \in ServiceState /\ RoutesChecked(st).route = r
      /\ RoutesChecked(st).alloc = st.alloc
      /\ RoutesChecked(st).lease = st.lease /\ RoutesChecked(st).browser = st.browser
  BY <1>1, <1>3, SetRoute
<1> QED BY <1>2, <1>4 DEF SameOwners

LEMMA EntriesFreedFields ==
  ASSUME NEW st \in ServiceState
  PROVE  /\ EntriesFreed(st) \in ServiceState
         /\ EntriesFreed(st).alloc = st.alloc /\ EntriesFreed(st).route = st.route
         /\ EntriesFreed(st).lease = st.lease /\ EntriesFreed(st).browser = st.browser
<1> DEFINE C(e) == /\ st.pool[e].st # "unavailable" /\ st.pool[e].cur
                   /\ st.route[e] # None /\ st.route[e].st \in {"orphaned", "released"}
           p == [e \in Entries |-> IF C(e)
                    THEN [st |-> "available", cur |-> FALSE, rd |-> Is("ready"), kept |-> Is("none")]
                    ELSE st.pool[e]]
<1>1. EntriesFreed(st) = [st EXCEPT !.pool = p]
  BY DEF EntriesFreed
<1>2. p \in [Entries -> PoolRecord]
  BY StateElim, ReadinessTypes DEF PoolRecord
<1> HIDE DEF p
<1> QED BY <1>1, <1>2, SetPool

LEMMA HistoryRemovedFields ==
  ASSUME NEW st \in ServiceState
  PROVE  /\ HistoryRemoved(st) \in ServiceState
         /\ HistoryRemoved(st).alloc = st.alloc /\ HistoryRemoved(st).route = st.route
         /\ HistoryRemoved(st).lease = st.lease
         /\ HistoryRemoved(st).browser = [s \in Sessions |->
                IF st.browser[s] # None /\ st.browser[s].health = "exited" THEN None ELSE st.browser[s]]
<1> DEFINE b == [s \in Sessions |->
                IF st.browser[s] # None /\ st.browser[s].health = "exited" THEN None ELSE st.browser[s]]
<1>1. HistoryRemoved(st) = [st EXCEPT !.browser = b]
  BY DEF HistoryRemoved
<1>2. b \in [Sessions -> BrowserRecord \cup {None}]
  BY StateElim
<1> HIDE DEF b
<1>3. /\ HistoryRemoved(st) \in ServiceState
      /\ HistoryRemoved(st).alloc = st.alloc /\ HistoryRemoved(st).route = st.route
      /\ HistoryRemoved(st).lease = st.lease /\ HistoryRemoved(st).browser = b
  BY <1>1, <1>2, SetBrowser
<1> QED BY <1>3 DEF b

(* What a reconciliation makes of the records: it renames no owner, spares the allocations *)
(* of the browsers that answer it, and forgets those whose process is gone.                *)
LEMMA ReconciledFields ==
  ASSUME NEW st \in ServiceState, NEW missed
  PROVE  /\ Reconciled(st, missed) \in ServiceState
         /\ Reconciled(st, missed).lease = st.lease
         /\ SameOwners(st.alloc, Reconciled(st, missed).alloc)
         /\ SameOwners(st.route, Reconciled(st, missed).route)
         /\ \A e \in Entries : st.alloc[e] # None /\ Found(st, st.alloc[e].own) /\ st.alloc[e].own \notin missed =>
                Reconciled(st, missed).alloc[e] = st.alloc[e]
         /\ \A s \in Sessions :
              /\ Found(st, s) => Reconciled(st, missed).browser[s] # None
              /\ Reconciled(st, missed).browser[s] # None =>
                   /\ st.browser[s] # None
                   /\ Reconciled(st, missed).browser[s].pid = st.browser[s].pid
                   /\ Reconciled(st, missed).browser[s].disp = st.browser[s].disp
                   /\ st.browser[s].pid # 0 => Found(st, s)
<1> DEFINE s1 == Probed(st, missed)
           s2 == DisplaysChecked(s1)
           s3 == AllocationsChecked(s2)
           s4 == RoutesChecked(s3)
           s5 == EntriesFreed(s4)
           s6 == HistoryRemoved(s5)
<1>0. Reconciled(st, missed) = s6
  BY DEF Reconciled
<1>1. /\ s1 \in ServiceState
      /\ s1.alloc = st.alloc /\ s1.route = st.route /\ s1.lease = st.lease
      /\ \A s \in Sessions :
              /\ s1.browser[s] = None <=> st.browser[s] = None
              /\ st.browser[s] # None =>
                   /\ s1.browser[s].pid = st.browser[s].pid
                   /\ s1.browser[s].disp = st.browser[s].disp
                   /\ Found(st, s) => s1.browser[s].health \in {"ready", "degraded"}
                   /\ Found(st, s) /\ s \notin missed => s1.browser[s].health = "ready"
                   /\ st.browser[s].pid # 0 /\ ~Found(st, s) => s1.browser[s].health = "exited"
  BY ProbedFields
<1> HIDE DEF s1
<1>2. /\ s2 \in ServiceState /\ s2.alloc = st.alloc /\ s2.route = st.route /\ s2.lease = st.lease
      /\ s2.browser = s1.browser
  BY <1>1, DisplaysCheckedFields
<1> HIDE DEF s2
<1>3. /\ s3 \in ServiceState /\ s3.route = st.route /\ s3.lease = st.lease /\ s3.browser = s1.browser
      /\ SameOwners(st.alloc, s3.alloc)
      /\ \A e \in Entries : st.alloc[e] # None /\ BrowserReady(s2, st.alloc[e].own) => s3.alloc[e] = st.alloc[e]
  BY <1>2, AllocationsCheckedFields
<1> HIDE DEF s3
<1>4. /\ s4 \in ServiceState /\ s4.alloc = s3.alloc /\ s4.lease = st.lease /\ s4.browser = s1.browser
      /\ SameOwners(st.route, s4.route)
  BY <1>3, RoutesCheckedFields
<1> HIDE DEF s4
<1>5. /\ s5 \in ServiceState /\ s5.alloc = s3.alloc /\ s5.lease = st.lease /\ s5.browser = s1.browser
      /\ s5.route = s4.route
  BY <1>4, EntriesFreedFields
<1> HIDE DEF s5
<1>6. /\ s6 \in ServiceState /\ s6.alloc = s3.alloc /\ s6.lease = st.lease /\ s6.route = s4.route
      /\ s6.browser = [s \in Sessions |->
            IF s1.browser[s] # None /\ s1.browser[s].health = "exited" THEN None ELSE s1.browser[s]]
  BY <1>5, HistoryRemovedFields
<1> HIDE DEF s6
<1>7. ASSUME NEW e \in Entries, st.alloc[e] # None, Found(st, st.alloc[e].own),
             st.alloc[e].own \notin missed
      PROVE  s6.alloc[e] = st.alloc[e]
  <2>1. st.alloc[e].own \in Sessions
    BY <1>7, StateElim DEF AllocRecord
  <2>2. BrowserReady(s2, st.alloc[e].own)
    BY <1>1, <1>2, <1>7, <2>1 DEF BrowserReady, Found
  <2> QED BY <1>3, <1>6, <1>7, <2>2
<1>8. ASSUME NEW s \in Sessions
      PROVE  /\ Found(st, s) => s6.browser[s] # None
             /\ s6.browser[s] # None =>
                   /\ st.browser[s] # None
                   /\ s6.browser[s].pid = st.browser[s].pid
                   /\ s6.browser[s].disp = st.browser[s].disp
                   /\ st.browser[s].pid # 0 => Found(st, s)
  BY <1>1, <1>6 DEF Found
<1> QED BY <1>0, <1>3, <1>4, <1>6, <1>7, <1>8

LEMMA MergedFields ==
  ASSUME NEW now \in ServiceState, NEW before \in ServiceState, NEW after \in ServiceState
  PROVE  /\ MergedState(now, before, after) \in ServiceState
         /\ MergedState(now, before, after).lease = now.lease
         /\ Follows(before, after) /\ now = before =>
              /\ MergedState(now, before, after).alloc = after.alloc
              /\ MergedState(now, before, after).route = after.route
              /\ \A s \in Sessions :
                   LET b == MergedState(now, before, after).browser[s]
                   IN  /\ b = None <=> after.browser[s] = None
                       /\ b # None => b.pid = after.browser[s].pid /\ b.disp = after.browser[s].disp
<1> DEFINE kept(n, b) == n # None /\ n.st = "released" /\ b # None /\ b # n
           swap(n, b, x) == IF x = None \/ kept(n, b) THEN n ELSE x
           al == [e \in Entries |-> swap(now.alloc[e], before.alloc[e], after.alloc[e])]
           r == [e \in Entries |-> swap(now.route[e], before.route[e], after.route[e])]
           p == [e \in Entries |->
                    IF now.pool[e].st = before.pool[e].st /\ now.pool[e].cur = before.pool[e].cur
                    THEN after.pool[e] ELSE now.pool[e]]
           br == [s \in Sessions |-> MergedBrowser(now.browser[s], before.browser[s], after.browser[s])]
           s1 == [now EXCEPT !.alloc = al]
           s2 == [s1 EXCEPT !.route = [e \in Entries |-> swap(s1.route[e], before.route[e], after.route[e])]]
           s3 == [s2 EXCEPT !.pool = [e \in Entries |->
                    IF s2.pool[e].st = before.pool[e].st /\ s2.pool[e].cur = before.pool[e].cur
                    THEN after.pool[e] ELSE s2.pool[e]]]
           s4 == [s3 EXCEPT !.browser = [s \in Sessions |->
                    MergedBrowser(s3.browser[s], before.browser[s], after.browser[s])]]
<1>1. MergedState(now, before, after) = s4
  BY DEF MergedState
<1>2. al \in [Entries -> AllocRecord \cup {None}] /\ r \in [Entries -> RouteRecord \cup {None}]
  BY StateElim
<1>3. p \in [Entries -> PoolRecord]
  BY StateElim
<1>4. ASSUME NEW s \in Sessions
      PROVE  /\ br[s] \in BrowserRecord \cup {None}
             /\ Follows(before, after) /\ now = before =>
                  /\ br[s] = None <=> after.browser[s] = None
                  /\ br[s] # None => br[s].pid = after.browser[s].pid /\ br[s].disp = after.browser[s].disp
  <2> DEFINE n == now.browser[s]
             b == before.browser[s]
             x == after.browser[s]
  <2>0. /\ n \in BrowserRecord \cup {None} /\ b \in BrowserRecord \cup {None}
        /\ x \in BrowserRecord \cup {None} /\ br[s] = MergedBrowser(n, b, x)
    BY StateElim
  <2>z. Follows(before, after) /\ now = before =>
          n = b /\ (x # None => b # None /\ x.pid = b.pid /\ x.disp = b.disp)
    BY DEF Follows
  <2> HIDE DEF n, b, x, br
  <2>1. CASE n # None /\ b # None /\ n.pid # b.pid
    <3>1. MergedBrowser(n, b, x) = n
      BY <2>1 DEF MergedBrowser
    <3>2. ~(Follows(before, after) /\ now = before)
      BY <2>1, <2>z
    <3> QED BY <2>0, <3>1, <3>2
  <2>2. CASE ~(n # None /\ b # None /\ n.pid # b.pid) /\ x # None /\ n # None
    <3>1. MergedBrowser(n, b, x) = [n EXCEPT !.health = x.health]
      BY <2>2 DEF MergedBrowser
    <3> DEFINE y == [n EXCEPT !.health = x.health]
    <3>2. y \in BrowserRecord /\ y.pid = n.pid /\ y.disp = n.disp
      BY <2>0, <2>2 DEF BrowserRecord
    <3> HIDE DEF y
    <3>3. br[s] = y
      BY <2>0, <3>1 DEF y
    <3> QED BY <2>2, <2>z, <3>2, <3>3, NoRecordAssumption DEF x
  <2>3. CASE x # None /\ n = None
    <3>1. MergedBrowser(n, b, x) = x
      BY <2>3 DEF MergedBrowser
    <3> QED BY <2>0, <2>3, <2>z, <3>1 DEF x
  <2>4. CASE ~(n # None /\ b # None /\ n.pid # b.pid) /\ x = None
    <3>1. MergedBrowser(n, b, x) = IF b # None /\ n = b THEN None ELSE n
      BY <2>4 DEF MergedBrowser
    <3> QED BY <2>0, <2>4, <2>z, <3>1 DEF x
  <2> QED BY <2>1, <2>2, <2>3, <2>4
<1>5. br \in [Sessions -> BrowserRecord \cup {None}]
  BY <1>4
<1>6. Follows(before, after) /\ now = before => al = after.alloc /\ r = after.route
  <2> SUFFICES ASSUME Follows(before, after), now = before
               PROVE  al = after.alloc /\ r = after.route
    OBVIOUS
  <2>1. \A e \in Entries : al[e] = after.alloc[e] /\ r[e] = after.route[e]
    BY StateElim DEF Follows
  <2> QED BY <2>1, StateElim
<1>a. s1 \in ServiceState /\ s1.alloc = al /\ s1.route = now.route /\ s1.browser = now.browser
      /\ s1.lease = now.lease /\ s1.pool = now.pool
  <2> HIDE DEF al
  <2> QED BY <1>2, SetAlloc
<1> HIDE DEF s1
<1>b. s2 \in ServiceState /\ s2.alloc = al /\ s2.route = r /\ s2.browser = now.browser
      /\ s2.lease = now.lease /\ s2.pool = now.pool
  <2>1. s2 = [s1 EXCEPT !.route = r]
    BY <1>a
  <2> HIDE DEF al, r, s2
  <2> QED BY <1>2, <1>a, <2>1, SetRoute
<1> HIDE DEF s2
<1>c. s3 \in ServiceState /\ s3.alloc = al /\ s3.route = r /\ s3.browser = now.browser
      /\ s3.lease = now.lease
  <2>1. s3 = [s2 EXCEPT !.pool = p]
    BY <1>b
  <2> HIDE DEF al, r, p, s3
  <2> QED BY <1>3, <1>b, <2>1, SetPool
<1> HIDE DEF s3
<1>d. s4 \in ServiceState /\ s4.alloc = al /\ s4.route = r /\ s4.browser = br /\ s4.lease = now.lease
  <2>1. s4 = [s3 EXCEPT !.browser = br]
    BY <1>c
  <2> HIDE DEF al, r, br, s4
  <2> QED BY <1>5, <1>c, <2>1, SetBrowser
<1> HIDE DEF s4, al, r, br
<1> QED BY <1>1, <1>4, <1>6, <1>d

(* The latest of some leases. *)
LEMMA LatestLease ==
  ASSUME NEW ls, ls \subseteq Leases, ls # {}
  PROVE  (CHOOSE l \in ls : \A k \in ls : k <= l) \in ls
<1> DEFINE S == {MaxOpens - l : l \in ls}
<1>1. S \subseteq Nat /\ S # {}
  <2>1. \A l \in ls : MaxOpens - l \in Nat
    BY Distinct DEF Leases
  <2> QED BY <2>1
<1>2. \E x \in S : \A y \in S : <<y, x>> \notin OpToRel(<, Nat)
  BY <1>1, NatLessThanWellFounded, WFMin
<1>3. PICK m \in ls : \A y \in S : <<y, MaxOpens - m>> \notin OpToRel(<, Nat)
  BY <1>2
<1>4. ASSUME NEW k \in ls PROVE k <= m
  <2>1. MaxOpens - k \in S /\ MaxOpens - k \in Nat /\ MaxOpens - m \in Nat
    BY <1>1
  <2>2. ~(MaxOpens - k < MaxOpens - m)
    <3> SUFFICES ASSUME MaxOpens - k < MaxOpens - m PROVE FALSE
      OBVIOUS
    <3>1. <<MaxOpens - k, MaxOpens - m>> \in OpToRel(<, Nat)
      BY <2>1, Zenon DEF OpToRel
    <3> QED BY <1>3, <2>1, <3>1
  <2> QED BY <2>2, Distinct DEF Leases
<1> QED BY <1>4

LEMMA RepairedFields ==
  ASSUME NEW st \in ServiceState
  PROVE  /\ Repaired(st) \in ServiceState
         /\ \A l \in Leases :
              /\ st.lease[l] # None /\ st.lease[l].st # "reserved" => Repaired(st).lease[l] = st.lease[l]
              /\ st.lease[l] = None <=> Repaired(st).lease[l] = None
              /\ st.lease[l] # None => Repaired(st).lease[l].s = st.lease[l].s
<1> DEFINE leases == {l \in Leases : StaleAcquisition(st, l)}
           checkouts == {e \in Entries : StaleCheckout(st, e)}
           routes == {st.lease[l].e : l \in leases}
                        \cup {e \in checkouts : st.pool[e].cur /\ st.route[e] # None}
           last(ls) == st.lease[CHOOSE l \in ls : \A k \in ls : k <= l]
           on(e) == {l \in leases : st.lease[l].e = e}
           by(s) == {l \in leases : st.lease[l].s = s}
           p == [e \in Entries |-> IF on(e) = {} THEN st.pool[e] ELSE last(on(e)).pool]
           al == [e \in Entries |-> IF on(e) = {} THEN st.alloc[e] ELSE last(on(e)).alloc]
           r == [e \in Entries |-> IF on(e) = {} THEN st.route[e] ELSE last(on(e)).route]
           b == [s \in Sessions |-> IF by(s) = {} \/ st.browser[s] = None THEN st.browser[s]
                                    ELSE [st.browser[s] EXCEPT !.disp = last(by(s)).disp]]
           le == [l \in Leases |-> IF l \in leases THEN [st.lease[l] EXCEPT !.st = "rolled_back"]
                                   ELSE st.lease[l]]
           back == [pool |-> p, alloc |-> al, route |-> r, browser |-> b, lease |-> le]
           P(x) == [e \in Entries |-> IF e \in checkouts
                THEN [st |-> "available", cur |-> FALSE, rd |-> Is("ready"), kept |-> Is("none")]
                ELSE x[e]]
           R(x) == [e \in Entries |-> IF e \in routes /\ x[e] # None
                THEN [x[e] EXCEPT !.st = "released"] ELSE x[e]]
           A(x) == [e \in Entries |-> IF e \in routes /\ x[e] # None
                THEN [x[e] EXCEPT !.st = "released", !.rd = Is("released")] ELSE x[e]]
           s1 == [back EXCEPT !.pool = P(back.pool)]
           s2 == [s1 EXCEPT !.route = R(s1.route)]
           s3 == [s2 EXCEPT !.alloc = A(s2.alloc)]
<1>1. Repaired(st) = s3
  BY DEF Repaired
<1>2. ASSUME NEW ls, ls \subseteq leases, ls # {} PROVE last(ls) \in LeaseRecord
  <2>1. PICK l \in ls : l = CHOOSE i \in ls : \A k \in ls : k <= i
    BY <1>2, LatestLease
  <2>2. l \in Leases /\ st.lease[l] # None
    BY <1>2 DEF StaleAcquisition
  <2> QED BY <2>1, <2>2, StateElim
<1>3. ASSUME NEW e \in Entries
      PROVE  p[e] \in PoolRecord /\ al[e] \in AllocRecord \cup {None} /\ r[e] \in RouteRecord \cup {None}
  <2>1. CASE on(e) = {}
    BY <2>1, StateElim
  <2>2. CASE on(e) # {}
    <3>1. last(on(e)) \in LeaseRecord
      BY <1>2, <2>2
    <3> HIDE DEF last, on
    <3> QED BY <2>2, <3>1 DEF LeaseRecord
  <2> QED BY <2>1, <2>2
<1>4. ASSUME NEW s \in Sessions PROVE b[s] \in BrowserRecord \cup {None}
  <2>1. CASE by(s) = {} \/ st.browser[s] = None
    BY <2>1, StateElim
  <2>2. CASE ~(by(s) = {} \/ st.browser[s] = None)
    <3>1. last(by(s)) \in LeaseRecord
      BY <1>2, <2>2
    <3> HIDE DEF last, by
    <3>2. last(by(s)).disp \in Entries \cup {None, Own}
      BY <3>1 DEF LeaseRecord
    <3>3. st.browser[s] \in BrowserRecord
      BY <2>2, StateElim
    <3>4. [st.browser[s] EXCEPT !.disp = last(by(s)).disp] \in BrowserRecord
      BY <3>2, <3>3 DEF BrowserRecord
    <3> QED BY <2>2, <3>4
  <2> QED BY <2>1, <2>2
<1>5. ASSUME NEW l \in Leases
      PROVE  /\ le[l] \in LeaseRecord \cup {None}
             /\ st.lease[l] # None /\ st.lease[l].st # "reserved" => le[l] = st.lease[l]
             /\ st.lease[l] = None <=> le[l] = None
             /\ st.lease[l] # None => le[l].s = st.lease[l].s
  <2>1. CASE l \notin leases
    <3>1. le[l] = st.lease[l]
      BY <2>1
    <3> HIDE DEF le
    <3> QED BY <3>1, StateElim
  <2>2. CASE l \in leases
    <3>1. st.lease[l] \in LeaseRecord /\ st.lease[l].st = "reserved"
      BY <2>2, StateElim DEF StaleAcquisition
    <3>2. le[l] = [st.lease[l] EXCEPT !.st = "rolled_back"]
      BY <2>2
    <3> HIDE DEF le
    <3>3. le[l] \in LeaseRecord /\ le[l].s = st.lease[l].s
      BY <3>1, <3>2 DEF LeaseRecord
    <3> QED BY <2>2, <3>1, <3>3, NoRecordAssumption
  <2> QED BY <2>1, <2>2
<1>6. /\ p \in [Entries -> PoolRecord] /\ al \in [Entries -> AllocRecord \cup {None}]
      /\ r \in [Entries -> RouteRecord \cup {None}] /\ b \in [Sessions -> BrowserRecord \cup {None}]
      /\ le \in [Leases -> LeaseRecord \cup {None}]
  BY <1>3, <1>4, <1>5
<1> HIDE DEF p, al, r, b, le
<1>7. /\ back \in ServiceState /\ back.pool = p /\ back.route = r /\ back.alloc = al /\ back.lease = le
  BY <1>6 DEF ServiceState
<1> HIDE DEF back
<1>8. ASSUME NEW x \in [Entries -> PoolRecord] PROVE P(x) \in [Entries -> PoolRecord]
  BY ReadinessTypes DEF PoolRecord
<1>9. ASSUME NEW x \in [Entries -> RouteRecord \cup {None}] PROVE R(x) \in [Entries -> RouteRecord \cup {None}]
  <2> SUFFICES ASSUME NEW e \in Entries PROVE R(x)[e] \in RouteRecord \cup {None}
    OBVIOUS
  <2>1. x[e] \in RouteRecord \cup {None}
    OBVIOUS
  <2> QED BY <2>1 DEF RouteRecord
<1>10. ASSUME NEW x \in [Entries -> AllocRecord \cup {None}] PROVE A(x) \in [Entries -> AllocRecord \cup {None}]
  <2> SUFFICES ASSUME NEW e \in Entries PROVE A(x)[e] \in AllocRecord \cup {None}
    OBVIOUS
  <2>1. x[e] \in AllocRecord \cup {None}
    OBVIOUS
  <2> QED BY <2>1, ReadinessTypes DEF AllocRecord
<1> HIDE DEF P, R, A
<1>a. s1 \in ServiceState /\ s1.route = r /\ s1.alloc = al /\ s1.lease = le
  BY <1>6, <1>7, <1>8, SetPool
<1> HIDE DEF s1
<1>b. s2 \in ServiceState /\ s2.alloc = al /\ s2.lease = le
  BY <1>6, <1>9, <1>a, SetRoute
<1> HIDE DEF s2
<1>c. s3 \in ServiceState /\ s3.lease = le
  BY <1>6, <1>10, <1>b, SetAlloc
<1> HIDE DEF s3
<1> QED BY <1>1, <1>5, <1>c

-----------------------------------------------------------------------------
(* Types and leases, in every scenario. *)

OpenType == [entry : Entries \cup {None}, lease : 0 .. MaxOpens, reused : BOOLEAN]

LEMMA BaseElim ==
  ASSUME RoutesBase
  PROVE  /\ scenario \in Scenario
         /\ svc \in ServiceState /\ stage \in [Sessions -> Steps] /\ open \in [Sessions -> OpenType]
         /\ live \subseteq Sessions /\ alive \in [Sessions -> 0 .. MaxOpens] /\ display \subseteq Entries
         /\ shown \in [Sessions -> Entries \cup {None}]
         /\ probe \in [before : ServiceState, after : ServiceState] \cup {None}
         /\ LeasesInOrder
BY RoutesAssumption DEF RoutesBase, RoutesTypeOK, OpenType

LEMMA BaseKept ==
  ASSUME RoutesBase, scenario' = scenario, svc' \in ServiceState, LeasesKept(svc.lease, svc'.lease),
         stage' \in [Sessions -> Steps], open' \in [Sessions -> OpenType],
         live' \subseteq Sessions, alive' \in [Sessions -> 0 .. MaxOpens], display' \subseteq Entries,
         shown' \in [Sessions -> Entries \cup {None}],
         probe' \in [before : ServiceState, after : ServiceState] \cup {None},
         left' \in [opens : 0 .. scenario.opens, faults : Nat, releases : Nat],
         left'.opens = left.opens,
         \A s \in Sessions : stage'[s] # "idle" => open'[s].entry \in Entries,
         \A s \in Sessions : stage'[s] \notin {"idle", "begin"} =>
            stage[s] \notin {"idle", "begin"} /\ open'[s].lease = open[s].lease
  PROVE  RoutesBase'
<1>1. LeasesInOrder'
  BY DEF RoutesBase, LeasesInOrder, LeasesKept
<1>2. RoutesTypeOK'
  BY <1>1 DEF RoutesTypeOK, LeasesInOrder, OpenType
<1> QED BY <1>1, <1>2 DEF RoutesBase

LEMMA KeptReflexive == ASSUME NEW a PROVE LeasesKept(a, a)
BY DEF LeasesKept

(* Only the stage and the plan of s change. *)
LEMMA GotoType ==
  ASSUME RoutesBase, NEW s \in Sessions, NEW step \in Steps, Goto(s, step)
  PROVE  stage' \in [Sessions -> Steps] /\ stage'[s] = step /\ \A t \in Sessions \ {s} : stage'[t] = stage[t]
BY BaseElim DEF Goto

LEMMA EndType ==
  ASSUME RoutesBase, NEW s \in Sessions, End(s)
  PROVE  /\ stage' \in [Sessions -> Steps] /\ open' \in [Sessions -> OpenType]
         /\ stage'[s] = "idle" /\ \A t \in Sessions \ {s} : stage'[t] = stage[t] /\ open'[t] = open[t]
<1>1. NoOpen \in OpenType
  BY Distinct DEF NoOpen, OpenType
<1>2. Goto(s, "idle") /\ "idle" \in Steps
  BY DEF End, Steps
<1> QED BY <1>1, <1>2, BaseElim, GotoType DEF End

LEMMA PlanBase ==
  ASSUME RoutesBase, scenario' = scenario, NEW s \in Sessions, NEW pin \in Entries \cup {None}, Plan(s, pin)
  PROVE  RoutesBase' /\ svc' = svc
<1>1. PICK e \in Entries : open' = [open EXCEPT ![s] = [entry |-> e, lease |-> 0,
                                        reused |-> s \in live /\ SameOwnerEntry(svc, s, e)]]
  BY DEF Plan, Candidates
<1>2. [entry |-> e, lease |-> 0, reused |-> s \in live /\ SameOwnerEntry(svc, s, e)] \in OpenType
  BY Distinct DEF OpenType
<1>3. Goto(s, "begin") /\ UNCHANGED <<svc, live, alive, display, probe, shown, left>> /\ "begin" \in Steps
  BY DEF Plan, Steps
<1>4. open' \in [Sessions -> OpenType] /\ open'[s].entry \in Entries
      /\ \A t \in Sessions \ {s} : open'[t] = open[t]
  BY <1>1, <1>2, BaseElim DEF OpenType
<1>5. /\ \A t \in Sessions : stage'[t] # "idle" => open'[t].entry \in Entries
      /\ \A t \in Sessions : stage'[t] \notin {"idle", "begin"} =>
            stage[t] \notin {"idle", "begin"} /\ open'[t].lease = open[t].lease
  BY <1>3, <1>4, GotoType, BaseElim DEF LeasesInOrder
<1>6. left \in [opens : 0 .. scenario.opens, faults : Nat, releases : Nat]
  BY BaseElim DEF LeasesInOrder
<1> QED BY <1>3, <1>4, <1>5, <1>6, BaseKept, BaseElim, GotoType, KeptReflexive

LEMMA FreshLease ==
  ASSUME RoutesBase, left.opens # 0
  PROVE  /\ scenario.opens - left.opens + 1 \in Leases
         /\ svc.lease[scenario.opens - left.opens + 1] = None
         /\ left.opens \in 1 .. scenario.opens
<1>1. scenario.opens \in 1 .. MaxOpens /\ left.opens \in 0 .. scenario.opens
  BY BaseElim DEF Scenario, LeasesInOrder
<1>2. MaxOpens \in Nat
  BY Distinct
<1>3. scenario.opens - left.opens + 1 \in Leases /\ left.opens \in 1 .. scenario.opens
  BY <1>1, <1>2 DEF Leases
<1>4. ~(scenario.opens - left.opens + 1 <= scenario.opens - left.opens)
  BY <1>1, <1>2
<1> QED BY <1>3, <1>4, BaseElim DEF LeasesInOrder

LEMMA BeginBase ==
  ASSUME RoutesBase, scenario' = scenario, NEW s \in Sessions, Begin(s)
  PROVE  /\ RoutesBase'
         /\ \A l \in Leases : svc.lease[l] # None => svc'.lease[l] = svc.lease[l]
<1>0. stage[s] = "begin" /\ UNCHANGED <<live, alive, display, probe, shown>>
  BY DEF Begin
<1>l. left \in [opens : 0 .. scenario.opens, faults : Nat, releases : Nat]
  BY BaseElim DEF LeasesInOrder
<1>1. CASE left.opens = 0
  <2>1. End(s) /\ UNCHANGED <<svc, left>>
    BY <1>1 DEF Begin
  <2>2. /\ \A t \in Sessions : stage'[t] # "idle" => open'[t].entry \in Entries
        /\ \A t \in Sessions : stage'[t] \notin {"idle", "begin"} =>
              stage[t] \notin {"idle", "begin"} /\ open'[t].lease = open[t].lease
    BY <2>1, EndType, BaseElim DEF LeasesInOrder
  <2> QED BY <1>0, <1>l, <2>1, <2>2, BaseKept, BaseElim, EndType, KeptReflexive
<1>2. CASE left.opens # 0
  <2> DEFINE l == scenario.opens - left.opens + 1
             e == open[s].entry
  <2>1. /\ svc' = Reserved(svc, s, e, l) /\ open' = [open EXCEPT ![s].lease = l]
        /\ left' = [left EXCEPT !.opens = @ - 1] /\ Goto(s, "launch") /\ "launch" \in Steps
    BY <1>2 DEF Begin, Steps
  <2>2. l \in Leases /\ svc.lease[l] = None /\ left.opens \in 1 .. scenario.opens
    BY <1>2, FreshLease
  <2>3. e \in Entries
    BY <1>0, BaseElim DEF LeasesInOrder
  <2>n. l = scenario.opens - (left.opens - 1) /\ scenario.opens \in Nat /\ MaxOpens \in Nat
    BY <2>2, BaseElim, Distinct DEF Scenario
  <2>4. left' \in [opens : 0 .. scenario.opens, faults : Nat, releases : Nat] /\ left'.opens = left.opens - 1
    BY <1>l, <2>1, <2>2, <2>n
  <2> HIDE DEF l, e
  <2>5. /\ svc' \in ServiceState /\ svc'.lease[l] # None /\ svc'.lease[l].s = s
        /\ \A k \in Leases \ {l} : svc'.lease[k] = svc.lease[k]
    BY <2>1, <2>2, <2>3, BaseElim, ReservedFields
  <2>6. open' \in [Sessions -> OpenType] /\ open'[s].entry = e /\ open'[s].lease = l
        /\ \A t \in Sessions \ {s} : open'[t] = open[t]
    BY <2>1, <2>2, BaseElim, Distinct DEF OpenType, e
  <2>8. \A k \in Leases : svc'.lease[k] # None => k <= scenario.opens - left'.opens
    <3> SUFFICES ASSUME NEW k \in Leases, svc'.lease[k] # None PROVE k <= scenario.opens - left'.opens
      OBVIOUS
    <3>1. CASE k = l
      BY <3>1, <2>n, <2>4, <2>2, Distinct
    <3>2. CASE k # l
      <4>1. k <= scenario.opens - left.opens
        BY <3>2, <2>5, BaseElim DEF LeasesInOrder
      <4> QED BY <4>1, <2>n, <2>4, <2>2, Distinct
    <3> QED BY <3>1, <3>2
  <2>9. \A t \in Sessions : stage'[t] # "idle" => open'[t].entry \in Entries
    BY <2>1, <2>3, <2>6, GotoType, BaseElim DEF LeasesInOrder
  <2>10. ASSUME NEW t \in Sessions, stage'[t] \notin {"idle", "begin"}
         PROVE  /\ open'[t].lease \in Leases /\ svc'.lease[open'[t].lease] # None
                /\ svc'.lease[open'[t].lease].s = t
    <3>1. CASE t = s
      BY <3>1, <2>2, <2>5, <2>6
    <3>2. CASE t # s
      <4>1. stage[t] \notin {"idle", "begin"} /\ open'[t] = open[t]
        BY <3>2, <2>1, <2>6, <2>10, GotoType
      <4>2. open[t].lease \in Leases /\ svc.lease[open[t].lease] # None /\ svc.lease[open[t].lease].s = t
        BY <4>1, BaseElim DEF LeasesInOrder
      <4> QED BY <4>1, <4>2, <2>2, <2>5
    <3> QED BY <3>1, <3>2
  <2>11. LeasesInOrder'
    BY <2>4, <2>8, <2>9, <2>10, scenario' = scenario DEF LeasesInOrder
  <2>12. stage' \in [Sessions -> Steps]
    BY <2>1, GotoType
  <2>13. RoutesTypeOK'
    BY <1>0, <2>5, <2>6, <2>11, <2>12, BaseElim DEF RoutesTypeOK, LeasesInOrder, OpenType
  <2>14. RoutesBase'
    BY <1>0, <2>11, <2>13 DEF RoutesBase
  <2> QED BY <2>2, <2>5, <2>14
<1> QED BY <1>1, <1>2

LEMMA LeftType ==
  ASSUME RoutesBase
  PROVE  /\ left \in [opens : 0 .. scenario.opens, faults : Nat, releases : Nat]
         /\ \A s \in Sessions : stage[s] # "idle" => open[s].entry \in Entries
         /\ \A s \in Sessions : stage[s] \notin {"idle", "begin"} =>
              /\ open[s].lease \in Leases /\ svc.lease[open[s].lease] # None
              /\ svc.lease[open[s].lease].s = s
BY BaseElim DEF LeasesInOrder

(* An open under way goes on to another step. *)
LEMMA GoneOn ==
  ASSUME RoutesBase, NEW s \in Sessions, NEW step \in Steps, Goto(s, step),
         stage[s] \notin {"idle", "begin"},
         open' \in [Sessions -> OpenType],
         \A t \in Sessions : open'[t].entry = open[t].entry /\ open'[t].lease = open[t].lease
  PROVE  /\ stage' \in [Sessions -> Steps]
         /\ \A t \in Sessions : stage'[t] # "idle" => open'[t].entry \in Entries
         /\ \A t \in Sessions : stage'[t] \notin {"idle", "begin"} =>
              stage[t] \notin {"idle", "begin"} /\ open'[t].lease = open[t].lease
<1>1. stage' \in [Sessions -> Steps] /\ \A t \in Sessions \ {s} : stage'[t] = stage[t]
  BY GotoType
<1>2. \A t \in Sessions : stage'[t] # "idle" => stage[t] # "idle"
  BY <1>1
<1>3. \A t \in Sessions : stage'[t] \notin {"idle", "begin"} => stage[t] \notin {"idle", "begin"}
  BY <1>1
<1> QED BY <1>1, <1>2, <1>3, LeftType

LEMMA Ended ==
  ASSUME RoutesBase, NEW s \in Sessions, End(s)
  PROVE  /\ stage' \in [Sessions -> Steps] /\ open' \in [Sessions -> OpenType]
         /\ \A t \in Sessions : stage'[t] # "idle" => open'[t].entry \in Entries
         /\ \A t \in Sessions : stage'[t] \notin {"idle", "begin"} =>
              stage[t] \notin {"idle", "begin"} /\ open'[t].lease = open[t].lease
<1>1. /\ stage' \in [Sessions -> Steps] /\ open' \in [Sessions -> OpenType] /\ stage'[s] = "idle"
      /\ \A t \in Sessions \ {s} : stage'[t] = stage[t] /\ open'[t] = open[t]
  BY EndType
<1> QED BY <1>1, LeftType

LEMMA Stayed ==
  ASSUME RoutesBase, stage' = stage, open' = open
  PROVE  /\ stage' \in [Sessions -> Steps] /\ open' \in [Sessions -> OpenType]
         /\ \A t \in Sessions : stage'[t] # "idle" => open'[t].entry \in Entries
         /\ \A t \in Sessions : stage'[t] \notin {"idle", "begin"} =>
              stage[t] \notin {"idle", "begin"} /\ open'[t].lease = open[t].lease
BY LeftType, BaseElim

LEMMA LaunchBase ==
  ASSUME RoutesBase, scenario' = scenario, NEW s \in Sessions, Launch(s)
  PROVE  RoutesBase' /\ LeasesKept(svc.lease, svc'.lease)
<1>1. /\ stage[s] = "launch" /\ Goto(s, "checkout") /\ "checkout" \in Steps
      /\ UNCHANGED <<display, probe, left>>
  BY DEF Launch, Steps
<1>2. open[s].lease \in 0 .. MaxOpens /\ alive[s] \in 0 .. MaxOpens /\ svc \in ServiceState
  BY BaseElim DEF OpenType
<1>3. CASE /\ svc' = IF open[s].reused THEN svc ELSE Launched(svc, s, alive[s])
           /\ open' = [open EXCEPT ![s].reused = TRUE]
           /\ UNCHANGED <<live, alive, shown>>
  <2>1. svc' \in ServiceState /\ svc'.lease = svc.lease
    <3>1. CASE open[s].reused
      BY <1>2, <1>3, <3>1
    <3>2. CASE ~open[s].reused
      BY <1>2, <1>3, <3>2, LaunchedFields
    <3> QED BY <3>1, <3>2
  <2>2. /\ open' \in [Sessions -> OpenType]
        /\ \A t \in Sessions : open'[t].entry = open[t].entry /\ open'[t].lease = open[t].lease
    BY <1>3, BaseElim DEF OpenType
  <2> QED BY <1>1, <1>3, <2>1, <2>2, GoneOn, LeftType, BaseElim, BaseKept, KeptReflexive
<1>4. CASE /\ svc' = Launched(svc, s, open[s].lease)
           /\ live' = live \cup {s}
           /\ alive' = [alive EXCEPT ![s] = open[s].lease]
           /\ shown' = [shown EXCEPT ![s] = None]
           /\ UNCHANGED open
  <2>1. svc' \in ServiceState /\ svc'.lease = svc.lease
    BY <1>2, <1>4, LaunchedFields
  <2>2. /\ live' \subseteq Sessions /\ alive' \in [Sessions -> 0 .. MaxOpens]
        /\ shown' \in [Sessions -> Entries \cup {None}] /\ open' \in [Sessions -> OpenType]
    BY <1>2, <1>4, BaseElim
  <2> QED BY <1>1, <1>4, <2>1, <2>2, GoneOn, LeftType, BaseElim, BaseKept, KeptReflexive
<1> QED BY <1>1, <1>3, <1>4 DEF Launch

LEMMA RestoredBase ==
  ASSUME RoutesBase, NEW s \in Sessions, stage[s] \notin {"idle", "begin"}, CanRollBack(s),
         NEW n, n = Restored(svc, open[s].lease)
  PROVE  n \in ServiceState /\ LeasesKept(svc.lease, n.lease)
<1> DEFINE l == open[s].lease
<1>1. l \in Leases /\ svc.lease[l] # None /\ svc \in ServiceState /\ svc.lease[l].st = "reserved"
  BY LeftType, BaseElim DEF CanRollBack
<1> HIDE DEF l
<1>2. n = Restored(svc, l)
  BY DEF l
<1>3. n \in ServiceState /\ n.lease[l] # None /\ n.lease[l].s = svc.lease[l].s
      /\ \A k \in Leases \ {l} : n.lease[k] = svc.lease[k]
  BY <1>1, <1>2, RestoredFields
<1> QED BY <1>1, <1>3 DEF LeasesKept

LEMMA LaunchFailsBase ==
  ASSUME RoutesBase, scenario' = scenario, NEW s \in Sessions, LaunchFails(s)
  PROVE  RoutesBase' /\ LeasesKept(svc.lease, svc'.lease)
<1>1. stage[s] = "launch" /\ End(s) /\ UNCHANGED <<display, probe, left>>
  BY DEF LaunchFails
<1>2. svc' \in ServiceState /\ LeasesKept(svc.lease, svc'.lease)
  <2>1. CASE CanRollBack(s)
    BY <1>1, <2>1, RestoredBase DEF LaunchFails
  <2>2. CASE ~CanRollBack(s)
    BY <2>2, BaseElim, KeptReflexive DEF LaunchFails
  <2> QED BY <2>1, <2>2
<1>3. /\ live' \subseteq Sessions /\ alive' \in [Sessions -> 0 .. MaxOpens]
      /\ shown' \in [Sessions -> Entries \cup {None}]
  <2>1. CASE UNCHANGED <<live, alive, shown>>
    BY <2>1, BaseElim
  <2>2. CASE /\ live' = live \ {s} /\ alive' = [alive EXCEPT ![s] = 0]
             /\ shown' = [shown EXCEPT ![s] = None]
    BY <2>2, BaseElim, Distinct
  <2> QED BY <2>1, <2>2 DEF LaunchFails
<1> QED BY <1>1, <1>2, <1>3, Ended, LeftType, BaseElim, BaseKept

LEMMA RollBackBase ==
  ASSUME RoutesBase, scenario' = scenario, NEW s \in Sessions, stage[s] \notin {"idle", "begin"},
         RollBack(s), UNCHANGED <<live, alive, display, probe, shown, left>>
  PROVE  RoutesBase' /\ LeasesKept(svc.lease, svc'.lease)
<1>1. CASE CanRollBack(s)
  <2>1. /\ svc' = Restored(svc, open[s].lease) /\ Goto(s, "cleanup") /\ UNCHANGED open
        /\ "cleanup" \in Steps
    BY <1>1 DEF RollBack, Steps
  <2>2. svc' \in ServiceState /\ LeasesKept(svc.lease, svc'.lease)
    BY <1>1, <2>1, RestoredBase
  <2> QED BY <2>1, <2>2, GoneOn, LeftType, BaseElim, BaseKept
<1>2. CASE ~CanRollBack(s)
  <2>1. UNCHANGED svc /\ End(s)
    BY <1>2 DEF RollBack
  <2> QED BY <2>1, Ended, LeftType, BaseElim, BaseKept, KeptReflexive
<1> QED BY <1>1, <1>2

LEMMA ProofFailsBase ==
  ASSUME RoutesBase, scenario' = scenario, NEW s \in Sessions, ProofFails(s)
  PROVE  RoutesBase' /\ LeasesKept(svc.lease, svc'.lease)
BY RollBackBase DEF ProofFails

LEMMA CheckoutBase ==
  ASSUME RoutesBase, scenario' = scenario, NEW s \in Sessions, Checkout(s)
  PROVE  RoutesBase' /\ LeasesKept(svc.lease, svc'.lease)
<1>1. stage[s] = "checkout" /\ UNCHANGED <<live, alive, display, probe, shown, left>>
  BY DEF Checkout
<1>2. CASE Admissible(svc, s, open[s].entry)
  <2>1. svc' = CheckedOut(svc, s, open[s].entry) /\ Goto(s, "complete") /\ UNCHANGED open
        /\ "complete" \in Steps
    BY <1>2 DEF Checkout, Steps
  <2>2. svc' \in ServiceState /\ svc'.lease = svc.lease
    BY <1>1, <2>1, LeftType, BaseElim, CheckedOutFields
  <2> QED BY <1>1, <2>1, <2>2, GoneOn, LeftType, BaseElim, BaseKept, KeptReflexive
<1>3. CASE ~Admissible(svc, s, open[s].entry)
  <2>1. RollBack(s)
    BY <1>3 DEF Checkout
  <2> QED BY <1>1, <2>1, RollBackBase
<1> QED BY <1>2, <1>3

LEMMA CompleteBase ==
  ASSUME RoutesBase, scenario' = scenario, NEW s \in Sessions, Complete(s)
  PROVE  RoutesBase' /\ LeasesKept(svc.lease, svc'.lease)
<1> DEFINE l == open[s].lease
<1>1. stage[s] = "complete" /\ End(s) /\ UNCHANGED <<live, alive, display, probe, left>>
  BY DEF Complete
<1>2. CASE svc.lease[l].st = "reserved"
  <2>1. /\ svc' = Finalized(svc, l)
        /\ shown' = [shown EXCEPT ![s] = IF alive[s] = 0 THEN None ELSE open[s].entry]
    BY <1>2 DEF Complete
  <2>2. l \in Leases /\ svc.lease[l] # None /\ svc \in ServiceState /\ open[s].entry \in Entries
    BY <1>1, LeftType, BaseElim
  <2>4. shown' \in [Sessions -> Entries \cup {None}]
    BY <2>1, <2>2, BaseElim
  <2> HIDE DEF l
  <2>3. svc' \in ServiceState /\ LeasesKept(svc.lease, svc'.lease)
    <3>1. svc' \in ServiceState /\ svc'.lease[l] # None /\ svc'.lease[l].s = svc.lease[l].s
          /\ \A k \in Leases \ {l} : svc'.lease[k] = svc.lease[k]
      BY <2>1, <2>2, FinalizedFields
    <3> QED BY <1>2, <2>2, <3>1 DEF LeasesKept
  <2> QED BY <1>1, <2>3, <2>4, Ended, LeftType, BaseElim, BaseKept
<1>3. CASE svc.lease[l].st # "reserved"
  <2>1. UNCHANGED <<svc, shown>>
    BY <1>3 DEF Complete
  <2> QED BY <1>1, <2>1, Ended, LeftType, BaseElim, BaseKept, KeptReflexive
<1> QED BY <1>2, <1>3

LEMMA BrowserClosedBase ==
  ASSUME RoutesBase, NEW s \in Sessions, BrowserClosed(s)
  PROVE  /\ svc' \in ServiceState /\ LeasesKept(svc.lease, svc'.lease)
         /\ live' \subseteq Sessions /\ alive' \in [Sessions -> 0 .. MaxOpens]
         /\ shown' \in [Sessions -> Entries \cup {None}]
<1>1. svc' \in ServiceState /\ svc'.lease = svc.lease
  BY BaseElim, ClosedFields, ClosedDegradedFields DEF BrowserClosed
<1>2. /\ live' \subseteq Sessions /\ alive' \in [Sessions -> 0 .. MaxOpens]
      /\ shown' \in [Sessions -> Entries \cup {None}]
  BY BaseElim, Distinct DEF BrowserClosed
<1> QED BY <1>1, <1>2, KeptReflexive

LEMMA CleanupBase ==
  ASSUME RoutesBase, scenario' = scenario, NEW s \in Sessions, Cleanup(s)
  PROVE  RoutesBase' /\ LeasesKept(svc.lease, svc'.lease)
<1>1. End(s) /\ UNCHANGED <<display, probe, left>>
  BY DEF Cleanup
<1>2. CASE UNCHANGED <<svc, live, alive, shown>>
  BY <1>1, <1>2, Ended, LeftType, BaseElim, BaseKept, KeptReflexive
<1>3. CASE BrowserClosed(s)
  BY <1>1, <1>3, BrowserClosedBase, Ended, LeftType, BaseElim, BaseKept
<1> QED BY <1>2, <1>3 DEF Cleanup

LEMMA CloseBase ==
  ASSUME RoutesBase, scenario' = scenario, NEW s \in Sessions, Close(s)
  PROVE  RoutesBase' /\ LeasesKept(svc.lease, svc'.lease)
<1>1. BrowserClosed(s) /\ UNCHANGED <<stage, open, display, probe, left>>
  BY DEF Close
<1> QED BY <1>1, BrowserClosedBase, Stayed, LeftType, BaseElim, BaseKept

LEMMA ReleaseRouteBase ==
  ASSUME RoutesBase, scenario' = scenario, NEW e \in Entries, NEW park \in BOOLEAN, ReleaseRoute(e, park)
  PROVE  RoutesBase' /\ LeasesKept(svc.lease, svc'.lease)
<1>1. /\ left.releases > 0 /\ svc.route[e] # None /\ svc' = Released(svc, e, park)
      /\ shown' = [s \in Sessions |-> IF shown[s] = e THEN None ELSE shown[s]]
      /\ left' = [left EXCEPT !.releases = @ - 1]
      /\ UNCHANGED <<stage, open, live, alive, display, probe>>
  BY DEF ReleaseRoute
<1>2. svc' \in ServiceState /\ svc'.lease = svc.lease
  BY <1>1, BaseElim, ReleasedFields
<1>3. shown' \in [Sessions -> Entries \cup {None}]
  BY <1>1, BaseElim
<1>4. left' \in [opens : 0 .. scenario.opens, faults : Nat, releases : Nat] /\ left'.opens = left.opens
  BY <1>1, LeftType
<1> QED BY <1>1, <1>2, <1>3, <1>4, Stayed, BaseElim, BaseKept, KeptReflexive

LEMMA RepairBase ==
  ASSUME RoutesBase, scenario' = scenario, Repair
  PROVE  RoutesBase' /\ LeasesKept(svc.lease, svc'.lease)
<1>1. /\ svc' = Repaired(svc)
      /\ UNCHANGED <<stage, open, live, alive, display, probe, shown, left>>
  BY DEF Repair
<1>2. svc' \in ServiceState /\ LeasesKept(svc.lease, svc'.lease)
  BY <1>1, BaseElim, RepairedFields DEF LeasesKept
<1> QED BY <1>1, <1>2, Stayed, LeftType, BaseElim, BaseKept

LEMMA FaultLeft ==
  ASSUME RoutesBase, Fault
  PROVE  left' \in [opens : 0 .. scenario.opens, faults : Nat, releases : Nat] /\ left'.opens = left.opens
BY LeftType DEF Fault

LEMMA BrowserDiesBase ==
  ASSUME RoutesBase, scenario' = scenario, NEW s \in Sessions, BrowserDies(s)
  PROVE  RoutesBase' /\ LeasesKept(svc.lease, svc'.lease)
<1>1. Fault /\ UNCHANGED <<svc, stage, open, live, display, probe>>
  BY DEF BrowserDies
<1>2. alive' \in [Sessions -> 0 .. MaxOpens] /\ shown' \in [Sessions -> Entries \cup {None}]
  BY BaseElim, Distinct DEF BrowserDies
<1> QED BY <1>1, <1>2, FaultLeft, Stayed, BaseElim, BaseKept, KeptReflexive

LEMMA ObserveExitBase ==
  ASSUME RoutesBase, scenario' = scenario, NEW s \in Sessions, ObserveExit(s)
  PROVE  RoutesBase' /\ LeasesKept(svc.lease, svc'.lease)
<1>1. /\ svc' = ExitRecorded(svc, s) /\ live' = live \ {s}
      /\ UNCHANGED <<stage, open, alive, display, probe, shown, left>>
  BY DEF ObserveExit
<1>2. svc' \in ServiceState /\ svc'.lease = svc.lease
  BY <1>1, BaseElim, ExitRecordedFields
<1>3. live' \subseteq Sessions
  BY <1>1, BaseElim
<1> QED BY <1>1, <1>2, <1>3, Stayed, LeftType, BaseElim, BaseKept, KeptReflexive

LEMMA DaemonCrashBase ==
  ASSUME RoutesBase, scenario' = scenario, NEW s \in Sessions, DaemonCrash(s)
  PROVE  RoutesBase' /\ LeasesKept(svc.lease, svc'.lease)
<1>1. Fault /\ End(s) /\ UNCHANGED <<svc, alive, display, probe, shown>>
  BY DEF DaemonCrash
<1>2. live' \subseteq Sessions
  BY BaseElim DEF DaemonCrash
<1> QED BY <1>1, <1>2, FaultLeft, Ended, BaseElim, BaseKept, KeptReflexive

LEMMA DisplayChangesBase ==
  ASSUME RoutesBase, scenario' = scenario, NEW e \in Entries, DisplayChanges(e)
  PROVE  RoutesBase' /\ LeasesKept(svc.lease, svc'.lease)
<1>1. UNCHANGED <<svc, stage, open, live, alive, probe, shown>>
  BY DEF DisplayChanges
<1>2. display' \subseteq Entries
  BY BaseElim DEF DisplayChanges
<1>3. left' \in [opens : 0 .. scenario.opens, faults : Nat, releases : Nat] /\ left'.opens = left.opens
  BY FaultLeft, LeftType DEF DisplayChanges
<1> QED BY <1>1, <1>2, <1>3, Stayed, BaseElim, BaseKept, KeptReflexive

LEMMA ReconcileReadsBase ==
  ASSUME RoutesBase, scenario' = scenario, NEW missed, ReconcileReads(missed)
  PROVE  RoutesBase' /\ LeasesKept(svc.lease, svc'.lease)
<1>1. /\ probe' = [before |-> svc, after |-> Reconciled(svc, missed)]
      /\ UNCHANGED <<svc, stage, open, live, alive, display, shown, left>>
  BY DEF ReconcileReads
<1>2. Reconciled(svc, missed) \in ServiceState /\ svc \in ServiceState
  BY BaseElim, ReconciledFields
<1>3. probe' \in [before : ServiceState, after : ServiceState]
  BY <1>1, <1>2
<1> QED BY <1>1, <1>3, Stayed, LeftType, BaseElim, BaseKept, KeptReflexive

LEMMA ReconcileWritesBase ==
  ASSUME RoutesBase, scenario' = scenario, ReconcileWrites
  PROVE  RoutesBase' /\ LeasesKept(svc.lease, svc'.lease)
<1>1. /\ probe # None /\ probe' = None /\ svc' = MergedState(svc, probe.before, probe.after)
      /\ UNCHANGED <<stage, open, live, alive, display, shown, left>>
  BY DEF ReconcileWrites
<1>2. svc \in ServiceState /\ probe.before \in ServiceState /\ probe.after \in ServiceState
  BY <1>1, BaseElim
<1>3. svc' \in ServiceState /\ svc'.lease = svc.lease
  BY <1>1, <1>2, MergedFields
<1> QED BY <1>1, <1>3, Stayed, LeftType, BaseElim, BaseKept, KeptReflexive

-----------------------------------------------------------------------------
(* Owners, in the scenarios without a disturbance. *)

LEMMA OwnersElim ==
  ASSUME RoutesInductive, Undisturbed
  PROVE  /\ Single /\ Sound(svc)
         /\ \A e \in Entries : Paired(svc.alloc[e], svc.route[e])
         /\ Placement(svc) /\ Running(svc) /\ Reversible(svc) /\ EntryUncontested(svc)
         /\ probe # None => probe.before = svc /\ Sound(probe.after) /\ Follows(svc, probe.after)
         /\ Quiet => probe = None
BY DEF RoutesInductive, Ownership, Undisturbed, Quiet, Sound

LEMMA OwnersKept ==
  ASSUME probe' = None, Single',
         \A e \in Entries : Paired(svc'.alloc[e], svc'.route[e]),
         Placement(svc)', Running(svc)', Reversible(svc)', EntryUncontested(svc)'
  PROVE  Ownership'
BY DEF Ownership, Sound

LEMMA PlanOwners ==
  ASSUME RoutesInductive, Undisturbed, scenario' = scenario, NEW s \in Sessions,
         NEW pin \in Entries \cup {None}, Plan(s, pin), RoutesBase'
  PROVE  Ownership'
<1>b. RoutesBase
  BY DEF RoutesInductive
<1>1. PICK e \in Entries : DisplayFree(svc, s, e) /\ open' = [open EXCEPT ![s] = [entry |-> e, lease |-> 0,
                                        reused |-> s \in live /\ SameOwnerEntry(svc, s, e)]]
  BY DEF Plan, Candidates, Admissible
<1>2. /\ stage[s] = "idle" /\ Quiet /\ Goto(s, "begin") /\ "begin" \in Steps
      /\ UNCHANGED <<svc, live, alive, display, probe, shown, left>>
  BY DEF Plan, Steps
<1>3. \A t \in Sessions : stage[t] = "idle"
  <2>1. IsFiniteSet(UnderWay)
    BY RoutesAssumption, FS_Subset DEF UnderWay
  <2>2. Cardinality(UnderWay) \in Nat /\ Cardinality(UnderWay) < 1
    BY <2>1, FS_CardinalityType DEF Plan, Undisturbed
  <2>3. UnderWay = {}
    BY <2>1, <2>2, FS_EmptySet
  <2> QED BY <2>3 DEF UnderWay
<1>4. stage'[s] = "begin" /\ \A t \in Sessions \ {s} : stage'[t] = "idle"
  BY <1>b, <1>2, <1>3, GotoType
<1>5. open'[s].entry = e
  BY <1>b, <1>1, BaseElim
<1>p. \A d \in Entries : Paired(svc'.alloc[d], svc'.route[d])
  BY <1>2, OwnersElim
<1>q. Placement(svc)'
  BY <1>2, <1>3, <1>4, OwnersElim DEF Placement, BeforeCheckout
<1>r. Running(svc)'
  BY <1>2, OwnersElim DEF Running
<1>s. Reversible(svc)'
  BY <1>4 DEF Reversible
<1>t. EntryUncontested(svc)'
  <2> SUFFICES ASSUME NEW u \in Sessions \ {s}
               PROVE  shown[u] # e /\ (svc.browser[u] # None => svc.browser[u].disp # e)
    BY <1>2, <1>4, <1>5 DEF EntryUncontested
  <2>1. ~HoldsActive(svc.alloc[e], u)
    BY <1>1 DEF DisplayFree, HoldsActive, Holds
  <2>2. shown[u] # e
    BY <2>1, OwnersElim, Distinct DEF Running
  <2>3. svc.browser[u] # None => svc.browser[u].disp # e
    BY <1>3, <2>1, OwnersElim DEF Placement, BeforeCheckout, HoldsActive
  <2> QED BY <2>2, <2>3
<1>u. Single'
  BY <1>4 DEF Single
<1> QED BY <1>2, <1>p, <1>q, <1>r, <1>s, <1>t, <1>u, OwnersElim, OwnersKept

(* While an open is under way, the others are idle. *)
LEMMA OthersIdle ==
  ASSUME RoutesInductive, Undisturbed, NEW s \in Sessions, stage[s] # "idle"
  PROVE  /\ RoutesBase /\ \A t \in Sessions \ {s} : stage[t] = "idle"
         /\ open[s].entry \in Entries
         /\ \A t \in Sessions \ {s} :
              shown[t] # open[s].entry /\ (svc.browser[t] # None => svc.browser[t].disp # open[s].entry)
<1>1. RoutesBase
  BY DEF RoutesInductive
<1>2. open[s].entry \in Entries
  BY <1>1, LeftType
<1> QED BY <1>1, <1>2, OwnersElim DEF Single, EntryUncontested

LEMMA OneReversible ==
  ASSUME NEW s \in Sessions, \A t \in Sessions \ {s} : stage'[t] = "idle",
         NEW r, r = svc'.lease[open'[s].lease],
         r # None, r.st = "reserved", r.s = s, r.e = open'[s].entry, Paired(r.alloc, r.route),
         shown'[s] = r.e => HoldsActive(r.alloc, s),
         r.disp \in Entries =>
            /\ Holds(Beneath(svc', r), s)
            /\ \/ ~AllocInactive(Beneath(svc', r))
               \/ svc'.browser[s] = None
               \/ stage'[s] # "launch" /\ ~open'[s].reused /\ s \in live'
  PROVE  Reversible(svc)'
BY DEF Reversible

LEMMA BeginOwners ==
  ASSUME RoutesInductive, Undisturbed, scenario' = scenario, NEW s \in Sessions, Begin(s), RoutesBase'
  PROVE  Ownership'
<1>0. /\ stage[s] = "begin" /\ Quiet /\ UNCHANGED <<live, alive, display, probe, shown>>
  BY DEF Begin
<1>b. /\ RoutesBase /\ (\A t \in Sessions \ {s} : stage[t] = "idle") /\ open[s].entry \in Entries
      /\ svc \in ServiceState
  BY <1>0, OthersIdle, BaseElim
<1>1. CASE left.opens = 0
  <2>1. End(s) /\ UNCHANGED svc
    BY <1>1 DEF Begin
  <2>2. \A t \in Sessions : stage'[t] = "idle"
    BY <1>b, <2>1, EndType
  <2>p. \A d \in Entries : Paired(svc'.alloc[d], svc'.route[d])
    BY <2>1, OwnersElim
  <2>q. Placement(svc)'
    BY <1>0, <1>b, <2>1, <2>2, OwnersElim DEF Placement, BeforeCheckout
  <2>r. Running(svc)'
    BY <1>0, <2>1, OwnersElim DEF Running
  <2>s. Reversible(svc)'
    BY <2>2 DEF Reversible
  <2>t. EntryUncontested(svc)'
    BY <2>2 DEF EntryUncontested
  <2>u. Single'
    BY <2>2 DEF Single
  <2> QED BY <1>0, <2>p, <2>q, <2>r, <2>s, <2>t, <2>u, OwnersElim, OwnersKept
<1>2. CASE left.opens # 0
  <2> DEFINE l == scenario.opens - left.opens + 1
             e == open[s].entry
  <2>1. /\ svc' = Reserved(svc, s, e, l) /\ open' = [open EXCEPT ![s].lease = l] /\ Goto(s, "launch")
        /\ "launch" \in Steps
    BY <1>2 DEF Begin, Steps
  <2>2. l \in Leases /\ e \in Entries
    BY <1>2, <1>b, FreshLease
  <2>3. open'[s].lease = l /\ open'[s].entry = e
    BY <1>b, <2>1, BaseElim DEF OpenType
  <2>4. stage'[s] = "launch" /\ \A t \in Sessions \ {s} : stage'[t] = "idle"
    BY <1>b, <2>1, GotoType
  <2>x. \A t \in Sessions \ {s} : shown[t] # e /\ (svc.browser[t] # None => svc.browser[t].disp # e)
    BY <1>0, OthersIdle
  <2> HIDE DEF l, e
  <2>5. /\ HoldsActive(svc'.alloc[e], s) /\ svc'.route[e] # None /\ svc'.route[e].own = s
        /\ \A d \in Entries \ {e} : svc'.alloc[d] = svc.alloc[d] /\ svc'.route[d] = svc.route[d]
        /\ svc'.browser = svc.browser
    BY <1>b, <2>1, <2>2, ReservedFields
  <2>6. /\ svc'.lease[l] # None /\ svc'.lease[l].st = "reserved" /\ svc'.lease[l].s = s
        /\ svc'.lease[l].e = e
        /\ svc'.lease[l].alloc = svc.alloc[e] /\ svc'.lease[l].route = svc.route[e]
        /\ svc'.lease[l].disp = BrowserDisplay(svc, s)
    BY <1>b, <2>1, <2>2, ReservedFields
  <2>p. \A d \in Entries : Paired(svc'.alloc[d], svc'.route[d])
    BY <2>5, OwnersElim DEF Paired, HoldsActive, Holds
  <2>q. Placement(svc)'
    BY <1>0, <1>b, <2>4, <2>5, <2>x, OwnersElim DEF Placement, BeforeCheckout, HoldsActive
  <2>r. Running(svc)'
    <3> SUFFICES ASSUME NEW t \in Sessions
                 PROVE  /\ alive[t] # 0 => svc'.browser[t] # None /\ svc'.browser[t].pid = alive[t]
                        /\ shown[t] # None => alive[t] # 0 /\ HoldsActive(svc'.alloc[shown[t]], t)
      BY <1>0 DEF Running
    <3>1. shown[t] \in Entries \cup {None}
      BY <1>b, BaseElim
    <3> QED BY <2>5, <2>x, <3>1, OwnersElim DEF Running
  <2>s. Reversible(svc)'
    <3> DEFINE r == svc'.lease[l]
    <3>1. r # None /\ r.st = "reserved" /\ r.s = s /\ r.e = e /\ Paired(r.alloc, r.route)
      BY <2>2, <2>6, OwnersElim
    <3>2. shown[s] = r.e => HoldsActive(r.alloc, s)
      BY <2>2, <2>6, OwnersElim, Distinct DEF Running
    <3>3. r.disp \in Entries => Holds(Beneath(svc', r), s) /\ ~AllocInactive(Beneath(svc', r))
      <4> SUFFICES ASSUME r.disp \in Entries
                   PROVE  Holds(Beneath(svc', r), s) /\ ~AllocInactive(Beneath(svc', r))
        OBVIOUS
      <4>1. svc.browser[s] # None /\ svc.browser[s].disp = r.disp
        BY <1>b, <2>6, BrowserDisplayType
      <4>2. Holds(svc.alloc[r.disp], s) /\ ~AllocInactive(svc.alloc[r.disp])
        BY <1>0, <4>1, OwnersElim DEF Placement, BeforeCheckout
      <4>3. Beneath(svc', r) = svc.alloc[r.disp]
        BY <2>5, <2>6 DEF Beneath
      <4> QED BY <4>2, <4>3
    <3>4. r = svc'.lease[open'[s].lease]
      BY <2>3
    <3> HIDE DEF r
    <3> QED BY <1>0, <2>3, <2>4, <3>1, <3>2, <3>3, <3>4, OneReversible
  <2>t. EntryUncontested(svc)'
    BY <1>0, <2>3, <2>4, <2>5, <2>x DEF EntryUncontested
  <2>u. Single'
    BY <2>4 DEF Single
  <2> QED BY <1>0, <2>p, <2>q, <2>r, <2>s, <2>t, <2>u, OwnersElim, OwnersKept
<1> QED BY <1>1, <1>2

LEMMA LeaseOf ==
  ASSUME RoutesInductive, Undisturbed, NEW s \in Sessions, stage[s] \in {"launch", "checkout", "complete"},
         NEW l, l = open[s].lease, NEW r, r = svc.lease[l]
  PROVE  /\ l \in Leases /\ r # None /\ r.st = "reserved" /\ r.s = s /\ r.e = open[s].entry /\ r.e \in Entries
         /\ Paired(r.alloc, r.route)
         /\ shown[s] = r.e => HoldsActive(r.alloc, s)
         /\ r.disp \in Entries =>
              /\ Holds(Beneath(svc, r), s)
              /\ \/ ~AllocInactive(Beneath(svc, r))
                 \/ svc.browser[s] = None
                 \/ stage[s] # "launch" /\ ~open[s].reused /\ s \in live
<1>1. RoutesBase /\ open[s].entry \in Entries
  BY OthersIdle
<1>2. l \in Leases
  BY <1>1, LeftType
<1> QED BY <1>1, <1>2, OwnersElim DEF Reversible

(* The browser of s is recorded anew, on the display it had. *)
LEMMA LaunchedOwners ==
  ASSUME RoutesInductive, Undisturbed, NEW s \in Sessions, stage[s] = "launch",
         NEW p \in Leases, svc' = Launched(svc, s, p),
         alive'[s] = p, \A t \in Sessions \ {s} : alive'[t] = alive[t] /\ shown'[t] = shown[t],
         shown'[s] \in {shown[s], None}, shown'[s] # None => alive[s] # 0,
         stage'[s] = "checkout", \A t \in Sessions \ {s} : stage'[t] = stage[t] /\ open'[t] = open[t],
         open'[s].entry = open[s].entry, open'[s].lease = open[s].lease, probe' = None,
         \/ svc.browser[s] # None
         \/ ~open'[s].reused /\ s \in live'
  PROVE  Ownership'
<1> DEFINE d == BrowserDisplay(svc, s)
<1>b. /\ RoutesBase /\ (\A t \in Sessions \ {s} : stage[t] = "idle") /\ open[s].entry \in Entries
      /\ svc \in ServiceState /\ shown \in [Sessions -> Entries \cup {None}]
      /\ \A t \in Sessions \ {s} : shown[t] # open[s].entry
            /\ (svc.browser[t] # None => svc.browser[t].disp # open[s].entry)
  BY OthersIdle, BaseElim
<1>p0. p # 0 /\ p \in 0 .. MaxOpens
  BY Distinct
<1>1. /\ svc'.browser[s] # None /\ svc'.browser[s].pid = p
      /\ svc'.browser[s].disp = (IF d = None THEN Own ELSE d)
      /\ \A t \in Sessions \ {s} : svc'.browser[t] = svc.browser[t]
      /\ svc'.route = svc.route /\ svc'.lease = svc.lease
  BY <1>b, <1>p0, LaunchedFields
<1>2. /\ \A e \in Entries \ {d} : svc'.alloc[e] = svc.alloc[e]
      /\ d \in Entries =>
           /\ Holds(svc'.alloc[d], s)
           /\ svc.alloc[d] # None /\ ~AllocInactive(svc.alloc[d]) => ~AllocInactive(svc'.alloc[d])
  BY <1>b, <1>p0, LaunchedFields
<1>3. d \in Entries => svc.browser[s] # None /\ HoldsActive(svc.alloc[d], s)
  <2> SUFFICES ASSUME d \in Entries PROVE svc.browser[s] # None /\ HoldsActive(svc.alloc[d], s)
    OBVIOUS
  <2>1. svc.browser[s] # None /\ svc.browser[s].disp = d
    BY <1>b, BrowserDisplayType
  <2> QED BY <2>1, OwnersElim DEF Placement, BeforeCheckout, HoldsActive
<1>4. d \in Entries \cup {None, Own} /\ (svc.browser[s] # None => d = svc.browser[s].disp)
  BY <1>b, BrowserDisplayType
<1> HIDE DEF d
<1>5. d \in Entries => HoldsActive(svc'.alloc[d], s)
  BY <1>2, <1>3 DEF HoldsActive, Holds
<1>p. \A e \in Entries : Paired(svc'.alloc[e], svc'.route[e])
  <2> SUFFICES ASSUME NEW e \in Entries PROVE Paired(svc'.alloc[e], svc'.route[e])
    OBVIOUS
  <2>1. Paired(svc.alloc[e], svc.route[e])
    BY OwnersElim
  <2>2. CASE e = d
    BY <1>1, <1>2, <1>3, <2>1, <2>2 DEF Paired, HoldsActive, Holds
  <2>3. CASE e # d
    BY <1>1, <1>2, <2>1, <2>3
  <2> QED BY <2>2, <2>3
<1>q. Placement(svc)'
  <2> SUFFICES ASSUME NEW t \in Sessions, svc'.browser[t] # None
               PROVE  /\ svc'.browser[t].pid # 0
                      /\ svc'.browser[t].disp \in Entries => HoldsActive(svc'.alloc[svc'.browser[t].disp], t)
    BY DEF Placement, HoldsActive
  <2>1. CASE t = s
    BY <1>1, <1>4, <1>5, <1>p0, <2>1, Distinct
  <2>2. CASE t # s
    <3>1. /\ svc'.browser[t] = svc.browser[t] /\ svc.browser[t].pid # 0
          /\ svc.browser[t].disp \in Entries => HoldsActive(svc.alloc[svc.browser[t].disp], t)
      BY <1>1, <1>b, <2>2, OwnersElim DEF Placement, BeforeCheckout, HoldsActive
    <3>2. svc.browser[t].disp \in Entries => svc.browser[t].disp # d
      BY <1>3, <2>2, <3>1 DEF HoldsActive, Holds
    <3> QED BY <1>2, <3>1, <3>2
  <2> QED BY <2>1, <2>2
<1>r. Running(svc)'
  <2> SUFFICES ASSUME NEW t \in Sessions
               PROVE  /\ alive'[t] # 0 => svc'.browser[t] # None /\ svc'.browser[t].pid = alive'[t]
                      /\ shown'[t] # None => alive'[t] # 0 /\ HoldsActive(svc'.alloc[shown'[t]], t)
    BY DEF Running
  <2>0. /\ alive[t] # 0 => svc.browser[t] # None /\ svc.browser[t].pid = alive[t]
        /\ shown[t] # None => alive[t] # 0 /\ HoldsActive(svc.alloc[shown[t]], t)
        /\ shown[t] \in Entries \cup {None}
    BY <1>b, OwnersElim DEF Running
  <2>1. CASE t = s
    <3>1. shown'[s] # None => HoldsActive(svc.alloc[shown'[s]], s) /\ shown'[s] \in Entries
      BY <2>0, <2>1
    <3>2. shown'[s] # None => HoldsActive(svc'.alloc[shown'[s]], s)
      BY <1>2, <1>5, <3>1
    <3> QED BY <1>1, <1>p0, <2>1, <3>2
  <2>2. CASE t # s
    <3>1. shown[t] # None => shown[t] \in Entries /\ shown[t] # d
      BY <1>3, <2>0, <2>2 DEF HoldsActive, Holds
    <3> QED BY <1>1, <1>2, <2>0, <2>2, <3>1
  <2> QED BY <2>1, <2>2
<1>s. Reversible(svc)'
  <2> DEFINE l == open[s].lease
             r == svc.lease[l]
  <2>1. /\ r # None /\ r.st = "reserved" /\ r.s = s /\ r.e = open[s].entry /\ Paired(r.alloc, r.route)
        /\ r.e \in Entries
        /\ shown[s] = r.e => HoldsActive(r.alloc, s)
        /\ r.disp \in Entries =>
             /\ Holds(Beneath(svc, r), s)
             /\ \/ ~AllocInactive(Beneath(svc, r)) \/ svc.browser[s] = None
    BY LeaseOf
  <2>2. r = svc'.lease[open'[s].lease]
    BY <1>1
  <2> HIDE DEF r
  <2>3. shown'[s] = r.e => HoldsActive(r.alloc, s)
    BY <2>1, Distinct
  <2>4. ASSUME r.disp \in Entries
        PROVE  /\ Holds(Beneath(svc', r), s)
               /\ ~AllocInactive(Beneath(svc, r)) => ~AllocInactive(Beneath(svc', r))
    <3>1. CASE r.disp = r.e
      <4>1. Beneath(svc', r) = Beneath(svc, r)
        BY <3>1 DEF Beneath
      <4> QED BY <2>1, <2>4, <4>1
    <3>2. CASE r.disp # r.e
      <4>1. Beneath(svc', r) = svc'.alloc[r.disp] /\ Beneath(svc, r) = svc.alloc[r.disp]
        BY <3>2 DEF Beneath
      <4>2. CASE r.disp = d
        BY <1>5, <2>4, <4>1, <4>2 DEF HoldsActive
      <4>3. CASE r.disp # d
        BY <1>2, <2>1, <2>4, <4>1, <4>3
      <4> QED BY <4>2, <4>3
    <3> QED BY <3>1, <3>2
  <2>5. r.disp \in Entries =>
            /\ Holds(Beneath(svc', r), s)
            /\ \/ ~AllocInactive(Beneath(svc', r))
               \/ svc'.browser[s] = None
               \/ stage'[s] # "launch" /\ ~open'[s].reused /\ s \in live'
    BY <2>1, <2>4
  <2> QED BY <1>b, <2>1, <2>2, <2>3, <2>5, OneReversible
<1>t. EntryUncontested(svc)'
  BY <1>b, <1>1 DEF EntryUncontested
<1>u. Single'
  BY <1>b DEF Single
<1> QED BY <1>p, <1>q, <1>r, <1>s, <1>t, <1>u, OwnersKept

LEMMA LaunchOwners ==
  ASSUME RoutesInductive, Undisturbed, scenario' = scenario, NEW s \in Sessions, Launch(s), RoutesBase'
  PROVE  Ownership'
<1>0. /\ stage[s] = "launch" /\ Quiet /\ Goto(s, "checkout") /\ "checkout" \in Steps
      /\ UNCHANGED <<display, probe, left>>
  BY DEF Launch, Steps
<1>b. /\ RoutesBase /\ (\A t \in Sessions \ {s} : stage[t] = "idle") /\ open[s].entry \in Entries
      /\ svc \in ServiceState /\ alive \in [Sessions -> 0 .. MaxOpens]
      /\ shown \in [Sessions -> Entries \cup {None}] /\ open \in [Sessions -> OpenType]
      /\ \A t \in Sessions \ {s} : shown[t] # open[s].entry
            /\ (svc.browser[t] # None => svc.browser[t].disp # open[s].entry)
  BY <1>0, OthersIdle, BaseElim
<1>1. stage'[s] = "checkout" /\ \A t \in Sessions \ {s} : stage'[t] = stage[t]
  BY <1>0, <1>b, GotoType
<1>l. open[s].lease \in Leases
  BY <1>0, <1>b, LeftType
<1>n. probe' = None
  BY <1>0, OwnersElim
<1>2. CASE /\ s \in live /\ alive[s] # 0
           /\ svc' = (IF open[s].reused THEN svc ELSE Launched(svc, s, alive[s]))
           /\ open' = [open EXCEPT ![s].reused = TRUE]
           /\ UNCHANGED <<live, alive, shown>>
  <2>1. /\ open'[s].entry = open[s].entry /\ open'[s].lease = open[s].lease
        /\ \A t \in Sessions \ {s} : open'[t] = open[t]
    BY <1>2, <1>b DEF OpenType
  <2>2. CASE ~open[s].reused
    <3>1. alive[s] \in Leases
      <4>1. alive[s] \in 0 .. MaxOpens /\ alive[s] # 0 /\ MaxOpens \in Nat
        BY <1>2, <1>b, Distinct
      <4> QED BY <4>1 DEF Leases
    <3>2. svc.browser[s] # None
      BY <1>2, OwnersElim DEF Running
    <3>3. svc' = Launched(svc, s, alive[s])
      BY <1>2, <2>2
    <3> QED BY <1>0, <1>1, <1>2, <1>n, <2>1, <3>1, <3>2, <3>3, LaunchedOwners
  <2>3. CASE open[s].reused
    <3>1. svc' = svc
      BY <1>2, <2>3
    <3>p. \A d \in Entries : Paired(svc'.alloc[d], svc'.route[d])
      BY <3>1, OwnersElim
    <3>q. Placement(svc)'
      BY <1>0, <1>1, <1>2, <2>1, <3>1, OwnersElim DEF Placement, BeforeCheckout
    <3>r. Running(svc)'
      BY <1>2, <3>1, OwnersElim DEF Running
    <3>s. Reversible(svc)'
      <4> DEFINE l == open[s].lease
                 r == svc.lease[l]
      <4>1. /\ r # None /\ r.st = "reserved" /\ r.s = s /\ r.e = open[s].entry /\ Paired(r.alloc, r.route)
            /\ shown[s] = r.e => HoldsActive(r.alloc, s)
            /\ r.disp \in Entries =>
                 /\ Holds(Beneath(svc, r), s)
                 /\ \/ ~AllocInactive(Beneath(svc, r)) \/ svc.browser[s] = None
        BY <1>0, LeaseOf
      <4>2. r = svc'.lease[open'[s].lease]
        BY <2>1, <3>1
      <4> HIDE DEF r
      <4> QED BY <1>1, <1>2, <1>b, <2>1, <3>1, <4>1, <4>2, OneReversible
    <3>t. EntryUncontested(svc)'
      BY <1>1, <1>2, <1>b, <2>1, <3>1 DEF EntryUncontested
    <3>u. Single'
      BY <1>1, <1>b DEF Single
    <3> QED BY <1>n, <3>p, <3>q, <3>r, <3>s, <3>t, <3>u, OwnersKept
  <2> QED BY <2>2, <2>3
<1>3. CASE /\ ~open[s].reused
           /\ svc' = Launched(svc, s, open[s].lease)
           /\ live' = live \cup {s}
           /\ alive' = [alive EXCEPT ![s] = open[s].lease]
           /\ shown' = [shown EXCEPT ![s] = None]
           /\ UNCHANGED open
  <2>1. alive'[s] = open[s].lease /\ shown'[s] = None
        /\ \A t \in Sessions \ {s} : alive'[t] = alive[t] /\ shown'[t] = shown[t]
    BY <1>3, <1>b
  <2>2. ~open'[s].reused /\ s \in live' /\ open' = open
    BY <1>3
  <2> QED BY <1>0, <1>1, <1>3, <1>l, <1>n, <2>1, <2>2, LaunchedOwners
<1> QED BY <1>2, <1>3 DEF Launch

(* The records the lease of s remembers are put back, and s is left idle or to clean up. *)
LEMMA RestoredOwners ==
  ASSUME RoutesInductive, Undisturbed, NEW s \in Sessions, stage[s] \in {"launch", "checkout", "complete"},
         svc' = Restored(svc, open[s].lease), probe' = None,
         \A t \in Sessions \ {s} : stage'[t] = stage[t] /\ alive'[t] = alive[t] /\ shown'[t] = shown[t],
         \/ alive'[s] = alive[s] /\ shown'[s] = shown[s]
         \/ alive'[s] = 0 /\ shown'[s] = None,
         \/ stage[s] = "launch" /\ stage'[s] = "idle"
         \/ stage'[s] = "cleanup" /\ open' = open /\ live' = live
  PROVE  Ownership'
<1> DEFINE l == open[s].lease
           r == svc.lease[l]
<1>b. /\ RoutesBase /\ (\A t \in Sessions \ {s} : stage[t] = "idle") /\ open[s].entry \in Entries
      /\ svc \in ServiceState /\ shown \in [Sessions -> Entries \cup {None}]
      /\ \A t \in Sessions \ {s} : shown[t] # open[s].entry
            /\ (svc.browser[t] # None => svc.browser[t].disp # open[s].entry)
  BY OthersIdle, BaseElim
<1>1. /\ l \in Leases /\ r # None /\ r.s = s /\ r.e = open[s].entry /\ r.e \in Entries
      /\ Paired(r.alloc, r.route)
      /\ shown[s] = r.e => HoldsActive(r.alloc, s)
      /\ r.disp \in Entries =>
           /\ Holds(Beneath(svc, r), s)
           /\ \/ ~AllocInactive(Beneath(svc, r))
              \/ svc.browser[s] = None
              \/ stage[s] # "launch" /\ ~open[s].reused /\ s \in live
  BY LeaseOf
<1>0. svc' = Restored(svc, l)
  OBVIOUS
<1> HIDE DEF l
<1>2. /\ svc'.alloc[r.e] = r.alloc /\ svc'.route[r.e] = r.route
      /\ \A d \in Entries \ {r.e} : svc'.alloc[d] = svc.alloc[d] /\ svc'.route[d] = svc.route[d]
      /\ svc'.browser[s] = None <=> svc.browser[s] = None
      /\ svc'.browser[s] # None => svc'.browser[s].pid = svc.browser[s].pid /\ svc'.browser[s].disp = r.disp
      /\ \A t \in Sessions \ {s} : svc'.browser[t] = svc.browser[t]
  BY <1>0, <1>1, <1>b, RestoredFields
<1> HIDE DEF r
<1>p. \A e \in Entries : Paired(svc'.alloc[e], svc'.route[e])
  BY <1>1, <1>2, OwnersElim
<1>q. Placement(svc)'
  <2> SUFFICES ASSUME NEW t \in Sessions, svc'.browser[t] # None
               PROVE  /\ svc'.browser[t].pid # 0
                      /\ svc'.browser[t].disp \in Entries =>
                           /\ Holds(svc'.alloc[svc'.browser[t].disp], t)
                           /\ \/ stage'[t] \in BeforeCheckout
                              \/ stage'[t] = "cleanup" /\ (open'[t].reused \/ t \notin live')
                              => ~AllocInactive(svc'.alloc[svc'.browser[t].disp])
    BY DEF Placement
  <2>1. CASE t = s
    <3>1. svc'.browser[s].pid # 0 /\ svc'.browser[s].disp = r.disp
      BY <1>2, <2>1, OwnersElim DEF Placement
    <3>2. r.disp \in Entries => svc'.alloc[r.disp] = Beneath(svc, r)
      BY <1>1, <1>2 DEF Beneath
    <3>3. stage'[s] \in BeforeCheckout => stage[s] = "launch"
      BY DEF BeforeCheckout
    <3>4. stage'[s] = "cleanup" => open' = open /\ live' = live
      OBVIOUS
    <3> QED BY <1>1, <1>2, <2>1, <3>1, <3>2, <3>3, <3>4
  <2>2. CASE t # s
    <3>1. svc'.browser[t] = svc.browser[t] /\ svc.browser[t].disp # r.e /\ stage[t] = "idle"
      BY <1>1, <1>2, <1>b, <2>2
    <3> QED BY <1>2, <3>1, OwnersElim DEF Placement, BeforeCheckout
  <2> QED BY <2>1, <2>2
<1>r. Running(svc)'
  <2> SUFFICES ASSUME NEW t \in Sessions
               PROVE  /\ alive'[t] # 0 => svc'.browser[t] # None /\ svc'.browser[t].pid = alive'[t]
                      /\ shown'[t] # None => alive'[t] # 0 /\ HoldsActive(svc'.alloc[shown'[t]], t)
    BY DEF Running
  <2>0. /\ alive[t] # 0 => svc.browser[t] # None /\ svc.browser[t].pid = alive[t]
        /\ shown[t] # None => alive[t] # 0 /\ HoldsActive(svc.alloc[shown[t]], t)
        /\ shown[t] \in Entries \cup {None}
    BY <1>b, OwnersElim DEF Running
  <2>1. CASE t = s
    <3>1. shown[s] # None => HoldsActive(svc'.alloc[shown[s]], s)
      BY <1>1, <1>2, <2>0, <2>1
    <3> QED BY <1>2, <2>0, <2>1, <3>1
  <2>2. CASE t # s
    <3>1. shown[t] # None => HoldsActive(svc'.alloc[shown[t]], t)
      BY <1>1, <1>2, <1>b, <2>0, <2>2
    <3> QED BY <1>2, <2>0, <2>2, <3>1
  <2> QED BY <2>1, <2>2
<1>s. Reversible(svc)'
  BY <1>b DEF Reversible
<1>t. EntryUncontested(svc)'
  BY <1>b, <1>2 DEF EntryUncontested
<1>u. Single'
  BY <1>b DEF Single
<1> QED BY <1>p, <1>q, <1>r, <1>s, <1>t, <1>u, OwnersKept

LEMMA LaunchFailsOwners ==
  ASSUME RoutesInductive, Undisturbed, scenario' = scenario, NEW s \in Sessions, LaunchFails(s), RoutesBase'
  PROVE  Ownership'
<1>1. stage[s] = "launch" /\ Quiet /\ End(s) /\ UNCHANGED <<display, probe, left>>
  BY DEF LaunchFails
<1>2. CanRollBack(s)
  BY <1>1, LeaseOf DEF CanRollBack
<1>3. svc' = Restored(svc, open[s].lease)
  BY <1>2 DEF LaunchFails
<1>b. RoutesBase /\ alive \in [Sessions -> 0 .. MaxOpens] /\ shown \in [Sessions -> Entries \cup {None}]
  BY <1>1, OthersIdle, BaseElim
<1>4. stage'[s] = "idle" /\ \A t \in Sessions \ {s} : stage'[t] = stage[t]
  BY <1>1, <1>b, EndType
<1>5. /\ \A t \in Sessions \ {s} : alive'[t] = alive[t] /\ shown'[t] = shown[t]
      /\ \/ alive'[s] = alive[s] /\ shown'[s] = shown[s]
         \/ alive'[s] = 0 /\ shown'[s] = None
  BY <1>b DEF LaunchFails
<1>6. probe' = None
  BY <1>1, OwnersElim
<1> QED BY <1>1, <1>3, <1>4, <1>5, <1>6, RestoredOwners

LEMMA RollBackOwners ==
  ASSUME RoutesInductive, Undisturbed, scenario' = scenario, NEW s \in Sessions,
         stage[s] \in {"checkout", "complete"}, Quiet, RollBack(s),
         UNCHANGED <<live, alive, display, probe, shown, left>>
  PROVE  Ownership'
<1>1. CanRollBack(s)
  BY LeaseOf DEF CanRollBack
<1>2. svc' = Restored(svc, open[s].lease) /\ Goto(s, "cleanup") /\ UNCHANGED open /\ "cleanup" \in Steps
  BY <1>1 DEF RollBack, Steps
<1>3. stage'[s] = "cleanup" /\ \A t \in Sessions \ {s} : stage'[t] = stage[t]
  BY <1>2, OthersIdle, GotoType
<1>4. probe' = None
  BY OwnersElim
<1> QED BY <1>2, <1>3, <1>4, RestoredOwners

LEMMA ProofFailsOwners ==
  ASSUME RoutesInductive, Undisturbed, scenario' = scenario, NEW s \in Sessions, ProofFails(s), RoutesBase'
  PROVE  Ownership'
BY RollBackOwners DEF ProofFails

LEMMA CheckoutOwners ==
  ASSUME RoutesInductive, Undisturbed, scenario' = scenario, NEW s \in Sessions, Checkout(s), RoutesBase'
  PROVE  Ownership'
<1>0. /\ stage[s] = "checkout" /\ Quiet /\ UNCHANGED <<live, alive, display, probe, shown, left>>
  BY DEF Checkout
<1> DEFINE e == open[s].entry
<1>1. CASE ~Admissible(svc, s, e)
  <2>1. RollBack(s)
    BY <1>1 DEF Checkout
  <2> QED BY <1>0, <2>1, RollBackOwners
<1>2. CASE Admissible(svc, s, e)
  <2>1. svc' = CheckedOut(svc, s, e) /\ Goto(s, "complete") /\ UNCHANGED open /\ "complete" \in Steps
    BY <1>2 DEF Checkout, Steps
  <2>b. /\ RoutesBase /\ (\A t \in Sessions \ {s} : stage[t] = "idle") /\ e \in Entries
        /\ svc \in ServiceState /\ shown \in [Sessions -> Entries \cup {None}]
        /\ \A t \in Sessions \ {s} : shown[t] # e /\ (svc.browser[t] # None => svc.browser[t].disp # e)
    BY <1>0, OthersIdle, BaseElim
  <2>e. open[s].entry = e
    OBVIOUS
  <2> HIDE DEF e
  <2>2. stage'[s] = "complete" /\ \A t \in Sessions \ {s} : stage'[t] = "idle"
    BY <2>1, <2>b, GotoType
  <2>3. /\ Holds(svc'.alloc[e], s) /\ svc'.route[e] # None /\ svc'.route[e].own = s
        /\ svc.alloc[e] # None /\ ~AllocInactive(svc.alloc[e]) => ~AllocInactive(svc'.alloc[e])
        /\ \A d \in Entries \ {e} : svc'.alloc[d] = svc.alloc[d] /\ svc'.route[d] = svc.route[d]
        /\ svc'.browser[s] = None <=> svc.browser[s] = None
        /\ svc'.browser[s] # None => svc'.browser[s].pid = svc.browser[s].pid /\ svc'.browser[s].disp = e
        /\ \A t \in Sessions \ {s} : svc'.browser[t] = svc.browser[t]
        /\ svc'.lease = svc.lease
    BY <2>1, <2>b, CheckedOutFields
  <2>p. \A d \in Entries : Paired(svc'.alloc[d], svc'.route[d])
    BY <2>3, OwnersElim DEF Paired, Holds
  <2>q. Placement(svc)'
    <3> SUFFICES ASSUME NEW t \in Sessions, svc'.browser[t] # None
                 PROVE  /\ svc'.browser[t].pid # 0
                        /\ svc'.browser[t].disp \in Entries =>
                             /\ Holds(svc'.alloc[svc'.browser[t].disp], t)
                             /\ stage'[t] # "complete" => ~AllocInactive(svc'.alloc[svc'.browser[t].disp])
      BY DEF Placement, BeforeCheckout
    <3>1. CASE t = s
      BY <2>2, <2>3, <3>1, OwnersElim DEF Placement
    <3>2. CASE t # s
      BY <2>3, <2>b, <3>2, OwnersElim DEF Placement, BeforeCheckout
    <3> QED BY <3>1, <3>2
  <2>r. Running(svc)'
    <3> SUFFICES ASSUME NEW t \in Sessions
                 PROVE  /\ alive[t] # 0 => svc'.browser[t] # None /\ svc'.browser[t].pid = alive[t]
                        /\ shown[t] # None => alive[t] # 0 /\ HoldsActive(svc'.alloc[shown[t]], t)
      BY <1>0 DEF Running
    <3>0. /\ alive[t] # 0 => svc.browser[t] # None /\ svc.browser[t].pid = alive[t]
          /\ shown[t] # None => alive[t] # 0 /\ HoldsActive(svc.alloc[shown[t]], t)
          /\ shown[t] \in Entries \cup {None}
      BY <2>b, OwnersElim DEF Running
    <3>1. shown[t] # None => HoldsActive(svc'.alloc[shown[t]], t)
      BY <2>3, <2>b, <3>0 DEF HoldsActive, Holds
    <3> QED BY <2>3, <3>0, <3>1
  <2>s. Reversible(svc)'
    <3> DEFINE l == open[s].lease
               r == svc.lease[l]
    <3>1. /\ r # None /\ r.st = "reserved" /\ r.s = s /\ r.e = e /\ Paired(r.alloc, r.route)
          /\ shown[s] = r.e => HoldsActive(r.alloc, s)
          /\ r.disp \in Entries =>
               /\ Holds(Beneath(svc, r), s)
               /\ \/ ~AllocInactive(Beneath(svc, r))
                  \/ svc.browser[s] = None
                  \/ ~open[s].reused /\ s \in live
      BY <1>0, <2>e, LeaseOf
    <3>2. r = svc'.lease[open'[s].lease]
      BY <2>1, <2>3
    <3> HIDE DEF r
    <3>3. r.disp \in Entries => Beneath(svc', r) = Beneath(svc, r)
      BY <2>3, <3>1 DEF Beneath
    <3> QED BY <1>0, <2>1, <2>2, <2>3, <2>e, <3>1, <3>2, <3>3, OneReversible
  <2>t. EntryUncontested(svc)'
    BY <1>0, <2>1, <2>2, <2>3, <2>b, <2>e DEF EntryUncontested
  <2>u. Single'
    BY <2>2 DEF Single
  <2> QED BY <1>0, <2>p, <2>q, <2>r, <2>s, <2>t, <2>u, OwnersElim, OwnersKept
<1> QED BY <1>1, <1>2

LEMMA CompleteOwners ==
  ASSUME RoutesInductive, Undisturbed, scenario' = scenario, NEW s \in Sessions, Complete(s), RoutesBase'
  PROVE  Ownership'
<1> DEFINE l == open[s].lease
           e == open[s].entry
<1>0. /\ stage[s] = "complete" /\ Quiet /\ End(s) /\ UNCHANGED <<live, alive, display, probe, left>>
  BY DEF Complete
<1>b. /\ RoutesBase /\ (\A t \in Sessions \ {s} : stage[t] = "idle") /\ e \in Entries
      /\ svc \in ServiceState /\ shown \in [Sessions -> Entries \cup {None}]
      /\ \A t \in Sessions \ {s} : shown[t] # e /\ (svc.browser[t] # None => svc.browser[t].disp # e)
  BY <1>0, OthersIdle, BaseElim
<1>1. l \in Leases /\ svc.lease[l] # None /\ svc.lease[l].st = "reserved" /\ svc.lease[l].s = s
      /\ svc.lease[l].e = e
  BY <1>0, LeaseOf
<1>2. svc' = Finalized(svc, l) /\ shown' = [shown EXCEPT ![s] = IF alive[s] = 0 THEN None ELSE e]
  BY <1>1 DEF Complete
<1>3. \A t \in Sessions : stage'[t] = "idle"
  BY <1>0, <1>b, EndType
<1> HIDE DEF l, e
<1>4. /\ HoldsActive(svc'.alloc[e], s) /\ svc'.route[e] # None /\ svc'.route[e].own = s
      /\ \A d \in Entries \ {e} : svc'.alloc[d] = svc.alloc[d] /\ svc'.route[d] = svc.route[d]
      /\ svc'.browser[s] = None <=> svc.browser[s] = None
      /\ svc'.browser[s] # None => svc'.browser[s].pid = svc.browser[s].pid /\ svc'.browser[s].disp = e
      /\ \A t \in Sessions \ {s} : svc'.browser[t] = svc.browser[t]
  BY <1>1, <1>2, <1>b, FinalizedFields
<1>5. shown'[s] = (IF alive[s] = 0 THEN None ELSE e) /\ \A t \in Sessions \ {s} : shown'[t] = shown[t]
  BY <1>2, <1>b
<1>p. \A d \in Entries : Paired(svc'.alloc[d], svc'.route[d])
  BY <1>4, OwnersElim DEF Paired, HoldsActive, Holds
<1>q. Placement(svc)'
  <2> SUFFICES ASSUME NEW t \in Sessions, svc'.browser[t] # None
               PROVE  /\ svc'.browser[t].pid # 0
                      /\ svc'.browser[t].disp \in Entries => HoldsActive(svc'.alloc[svc'.browser[t].disp], t)
    BY DEF Placement, HoldsActive
  <2>1. CASE t = s
    BY <1>4, <2>1, OwnersElim DEF Placement
  <2>2. CASE t # s
    <3>1. svc'.browser[t] = svc.browser[t] /\ svc.browser[t].disp # e
      BY <1>4, <1>b, <2>2
    <3>2. /\ svc.browser[t].pid # 0
          /\ svc.browser[t].disp \in Entries => HoldsActive(svc.alloc[svc.browser[t].disp], t)
      BY <1>b, <2>2, <3>1, OwnersElim DEF Placement, BeforeCheckout, HoldsActive
    <3> QED BY <1>4, <3>1, <3>2
  <2> QED BY <2>1, <2>2
<1>r. Running(svc)'
  <2> SUFFICES ASSUME NEW t \in Sessions
               PROVE  /\ alive[t] # 0 => svc'.browser[t] # None /\ svc'.browser[t].pid = alive[t]
                      /\ shown'[t] # None => alive[t] # 0 /\ HoldsActive(svc'.alloc[shown'[t]], t)
    BY <1>0 DEF Running
  <2>0. /\ alive[t] # 0 => svc.browser[t] # None /\ svc.browser[t].pid = alive[t]
        /\ shown[t] # None => alive[t] # 0 /\ HoldsActive(svc.alloc[shown[t]], t)
        /\ shown[t] \in Entries \cup {None}
    BY <1>b, OwnersElim DEF Running
  <2>1. CASE t = s
    BY <1>4, <1>5, <2>0, <2>1
  <2>2. CASE t # s
    BY <1>4, <1>5, <1>b, <2>0, <2>2
  <2> QED BY <2>1, <2>2
<1>s. Reversible(svc)'
  BY <1>3 DEF Reversible
<1>t. EntryUncontested(svc)'
  BY <1>3 DEF EntryUncontested
<1>u. Single'
  BY <1>3 DEF Single
<1> QED BY <1>0, <1>p, <1>q, <1>r, <1>s, <1>t, <1>u, OwnersElim, OwnersKept

(* The browser of s is closed; another open may be under way. *)
LEMMA ClosedOwners ==
  ASSUME RoutesInductive, Undisturbed, NEW s \in Sessions, BrowserClosed(s), Quiet, probe' = probe,
         stage'[s] = "idle", \A t \in Sessions \ {s} : stage'[t] = stage[t] /\ open'[t] = open[t]
  PROVE  Ownership'
<1>b. /\ RoutesBase /\ svc \in ServiceState /\ alive \in [Sessions -> 0 .. MaxOpens]
      /\ shown \in [Sessions -> Entries \cup {None}]
  BY BaseElim DEF RoutesInductive
<1>1. /\ svc' = Closed(svc, s) /\ live' = live \ {s}
      /\ alive' = [alive EXCEPT ![s] = 0] /\ shown' = [shown EXCEPT ![s] = None]
  BY DEF BrowserClosed, Undisturbed
<1>2. /\ alive'[s] = 0 /\ shown'[s] = None
      /\ \A t \in Sessions \ {s} : alive'[t] = alive[t] /\ shown'[t] = shown[t] /\ (t \in live' <=> t \in live)
  BY <1>1, <1>b
<1>3. /\ SameOwners(svc.alloc, svc'.alloc) /\ SameOwners(svc.route, svc'.route)
      /\ \A e \in Entries : ~Holds(svc.alloc[e], s) => svc'.alloc[e] = svc.alloc[e]
      /\ svc'.browser[s] = None /\ \A t \in Sessions \ {s} : svc'.browser[t] = svc.browser[t]
      /\ svc'.lease = svc.lease
  BY <1>1, <1>b, ClosedFields
<1>4. \A e \in Entries, t \in Sessions \ {s} : Holds(svc.alloc[e], t) => svc'.alloc[e] = svc.alloc[e]
  BY <1>3 DEF Holds
<1>p. \A d \in Entries : Paired(svc'.alloc[d], svc'.route[d])
  BY <1>3, OwnersElim DEF Paired, SameOwners
<1>q. Placement(svc)'
  <2> SUFFICES ASSUME NEW t \in Sessions \ {s}, svc'.browser[t] # None
               PROVE  /\ svc'.browser[t].pid # 0
                      /\ svc'.browser[t].disp \in Entries =>
                           /\ Holds(svc'.alloc[svc'.browser[t].disp], t)
                           /\ \/ stage'[t] \in BeforeCheckout
                              \/ stage'[t] = "cleanup" /\ (open'[t].reused \/ t \notin live')
                              => ~AllocInactive(svc'.alloc[svc'.browser[t].disp])
    BY <1>3 DEF Placement
  <2> QED BY <1>2, <1>3, <1>4, OwnersElim DEF Placement
<1>r. Running(svc)'
  <2> SUFFICES ASSUME NEW t \in Sessions
               PROVE  /\ alive'[t] # 0 => svc'.browser[t] # None /\ svc'.browser[t].pid = alive'[t]
                      /\ shown'[t] # None => alive'[t] # 0 /\ HoldsActive(svc'.alloc[shown'[t]], t)
    BY DEF Running
  <2>0. /\ alive[t] # 0 => svc.browser[t] # None /\ svc.browser[t].pid = alive[t]
        /\ shown[t] # None => alive[t] # 0 /\ HoldsActive(svc.alloc[shown[t]], t)
        /\ shown[t] \in Entries \cup {None}
    BY <1>b, OwnersElim DEF Running
  <2>1. CASE t = s
    BY <1>2, <2>1
  <2>2. CASE t # s
    BY <1>2, <1>3, <1>4, <2>0, <2>2 DEF HoldsActive
  <2> QED BY <2>1, <2>2
<1>s. Reversible(svc)'
  <2> SUFFICES ASSUME NEW t \in Sessions \ {s}, stage[t] \in {"launch", "checkout", "complete"}
               PROVE  Reversible(svc)'
    BY DEF Reversible
  <2> DEFINE l == open[t].lease
             r == svc.lease[l]
  <2>1. /\ r # None /\ r.st = "reserved" /\ r.s = t /\ r.e = open[t].entry /\ Paired(r.alloc, r.route)
        /\ shown[t] = r.e => HoldsActive(r.alloc, t)
        /\ r.disp \in Entries =>
             /\ Holds(Beneath(svc, r), t)
             /\ \/ ~AllocInactive(Beneath(svc, r))
                \/ svc.browser[t] = None
                \/ stage[t] # "launch" /\ ~open[t].reused /\ t \in live
    BY LeaseOf
  <2>2. r = svc'.lease[open'[t].lease]
    BY <1>3
  <2> HIDE DEF r
  <2>3. r.disp \in Entries => Beneath(svc', r) = Beneath(svc, r)
    BY <1>4, <2>1 DEF Beneath
  <2>4. \A u \in Sessions \ {t} : stage'[u] = "idle"
    BY OthersIdle
  <2> QED BY <1>2, <1>3, <2>1, <2>2, <2>3, <2>4, OneReversible
<1>t. EntryUncontested(svc)'
  <2> SUFFICES ASSUME NEW t \in Sessions, stage'[t] # "idle", NEW u \in Sessions \ {t}
               PROVE  /\ shown'[u] # open'[t].entry
                      /\ svc'.browser[u] # None => svc'.browser[u].disp # open'[t].entry
    BY DEF EntryUncontested
  <2>1. t # s /\ stage[t] # "idle" /\ open'[t] = open[t] /\ open[t].entry \in Entries
    BY OthersIdle
  <2> QED BY <1>2, <1>3, <2>1, OwnersElim, Distinct DEF EntryUncontested
<1>u. Single'
  BY OwnersElim DEF Single
<1> QED BY <1>p, <1>q, <1>r, <1>s, <1>t, <1>u, OwnersElim, OwnersKept

LEMMA CleanupOwners ==
  ASSUME RoutesInductive, Undisturbed, scenario' = scenario, NEW s \in Sessions, Cleanup(s), RoutesBase'
  PROVE  Ownership'
<1>0. stage[s] = "cleanup" /\ Quiet /\ End(s) /\ UNCHANGED <<display, probe, left>>
  BY DEF Cleanup
<1>b. RoutesBase /\ \A t \in Sessions \ {s} : stage[t] = "idle"
  BY <1>0, OthersIdle
<1>1. stage'[s] = "idle" /\ \A t \in Sessions \ {s} : stage'[t] = stage[t] /\ open'[t] = open[t]
  BY <1>0, <1>b, EndType
<1>2. CASE open[s].reused \/ s \notin live
  <2>1. UNCHANGED <<svc, live, alive, shown>>
    BY <1>2 DEF Cleanup
  <2>p. \A d \in Entries : Paired(svc'.alloc[d], svc'.route[d])
    BY <2>1, OwnersElim
  <2>q. Placement(svc)'
    BY <1>0, <1>1, <1>2, <1>b, <2>1, OwnersElim DEF Placement, BeforeCheckout
  <2>r. Running(svc)'
    BY <2>1, OwnersElim DEF Running
  <2>s. Reversible(svc)'
    BY <1>1, <1>b DEF Reversible
  <2>t. EntryUncontested(svc)'
    BY <1>1, <1>b DEF EntryUncontested
  <2>u. Single'
    BY <1>1, <1>b DEF Single
  <2> QED BY <1>0, <2>p, <2>q, <2>r, <2>s, <2>t, <2>u, OwnersElim, OwnersKept
<1>3. CASE ~(open[s].reused \/ s \notin live)
  <2>1. BrowserClosed(s)
    BY <1>3 DEF Cleanup
  <2> QED BY <1>0, <1>1, <2>1, ClosedOwners
<1> QED BY <1>2, <1>3

LEMMA CloseOwners ==
  ASSUME RoutesInductive, Undisturbed, scenario' = scenario, NEW s \in Sessions, Close(s), RoutesBase'
  PROVE  Ownership'
BY ClosedOwners DEF Close

LEMMA ReleaseRouteOwners ==
  ASSUME RoutesInductive, Undisturbed, scenario' = scenario, NEW e \in Entries, NEW park \in BOOLEAN,
         ReleaseRoute(e, park), RoutesBase'
  PROVE  Ownership'
<1>b. RoutesBase /\ svc \in ServiceState /\ shown \in [Sessions -> Entries \cup {None}]
  BY BaseElim DEF RoutesInductive
<1>1. /\ Quiet /\ ~park /\ svc.route[e] # None /\ svc' = Released(svc, e, park)
      /\ shown' = [s \in Sessions |-> IF shown[s] = e THEN None ELSE shown[s]]
      /\ UNCHANGED <<stage, open, live, alive, display, probe>>
  BY DEF ReleaseRoute, Undisturbed
<1>2. /\ SameOwners(svc.alloc, svc'.alloc) /\ SameOwners(svc.route, svc'.route)
      /\ \A d \in Entries : svc.alloc[d] # None =>
            (AllocInactive(svc'.alloc[d]) <=> AllocInactive(svc.alloc[d]))
      /\ svc'.browser = svc.browser /\ svc'.lease = svc.lease
  BY <1>1, <1>b, ReleasedFields
<1>3. \A d \in Entries, t \in Sessions : Holds(svc.alloc[d], t) =>
        Holds(svc'.alloc[d], t) /\ (AllocInactive(svc'.alloc[d]) <=> AllocInactive(svc.alloc[d]))
  BY <1>2 DEF Holds, SameOwners
<1>4. \A t \in Sessions : shown'[t] # None => shown'[t] = shown[t]
  BY <1>1
<1>p. \A d \in Entries : Paired(svc'.alloc[d], svc'.route[d])
  BY <1>2, OwnersElim DEF Paired, SameOwners
<1>q. Placement(svc)'
  BY <1>1, <1>2, <1>3, OwnersElim DEF Placement
<1>r. Running(svc)'
  <2> SUFFICES ASSUME NEW t \in Sessions
               PROVE  /\ alive[t] # 0 => svc.browser[t] # None /\ svc.browser[t].pid = alive[t]
                      /\ shown'[t] # None => alive[t] # 0 /\ HoldsActive(svc'.alloc[shown'[t]], t)
    BY <1>1, <1>2 DEF Running
  <2>0. /\ alive[t] # 0 => svc.browser[t] # None /\ svc.browser[t].pid = alive[t]
        /\ shown[t] # None => alive[t] # 0 /\ HoldsActive(svc.alloc[shown[t]], t)
        /\ shown[t] \in Entries \cup {None}
    BY <1>b, OwnersElim DEF Running
  <2> QED BY <1>3, <1>4, <2>0 DEF HoldsActive
<1>s. Reversible(svc)'
  <2> SUFFICES ASSUME NEW t \in Sessions, stage[t] \in {"launch", "checkout", "complete"}
               PROVE  Reversible(svc)'
    BY <1>1 DEF Reversible
  <2> DEFINE l == open[t].lease
             r == svc.lease[l]
  <2>1. /\ r # None /\ r.st = "reserved" /\ r.s = t /\ r.e = open[t].entry /\ Paired(r.alloc, r.route)
        /\ r.e \in Entries
        /\ shown[t] = r.e => HoldsActive(r.alloc, t)
        /\ r.disp \in Entries =>
             /\ Holds(Beneath(svc, r), t)
             /\ \/ ~AllocInactive(Beneath(svc, r))
                \/ svc.browser[t] = None
                \/ stage[t] # "launch" /\ ~open[t].reused /\ t \in live
    BY LeaseOf
  <2>2. r = svc'.lease[open'[t].lease]
    BY <1>1, <1>2
  <2> HIDE DEF r
  <2>3. r.disp \in Entries => /\ Holds(Beneath(svc', r), t)
                              /\ AllocInactive(Beneath(svc', r)) <=> AllocInactive(Beneath(svc, r))
    BY <1>3, <2>1 DEF Beneath
  <2>4. \A u \in Sessions \ {t} : stage'[u] = "idle"
    BY <1>1, OthersIdle
  <2>5. shown'[t] = r.e => HoldsActive(r.alloc, t)
    BY <1>4, <2>1, Distinct
  <2> QED BY <1>1, <1>2, <2>1, <2>2, <2>3, <2>4, <2>5, OneReversible
<1>t. EntryUncontested(svc)'
  <2> SUFFICES ASSUME NEW t \in Sessions, stage[t] # "idle", NEW u \in Sessions \ {t}
               PROVE  /\ shown'[u] # open[t].entry
                      /\ svc.browser[u] # None => svc.browser[u].disp # open[t].entry
    BY <1>1, <1>2 DEF EntryUncontested
  <2> QED BY <1>4, OthersIdle, Distinct
<1>u. Single'
  BY <1>1, OwnersElim DEF Single
<1> QED BY <1>1, <1>p, <1>q, <1>r, <1>s, <1>t, <1>u, OwnersElim, OwnersKept

LEMMA ObserveExitOwners ==
  ASSUME RoutesInductive, Undisturbed, scenario' = scenario, NEW s \in Sessions, ObserveExit(s), RoutesBase'
  PROVE  Ownership'
<1> DEFINE d == BrowserDisplay(svc, s)
<1>b. /\ RoutesBase /\ svc \in ServiceState /\ shown \in [Sessions -> Entries \cup {None}]
  BY BaseElim DEF RoutesInductive
<1>1. /\ Quiet /\ stage[s] = "idle" /\ alive[s] = 0 /\ svc' = ExitRecorded(svc, s) /\ live' = live \ {s}
      /\ UNCHANGED <<stage, open, alive, display, probe, shown, left>>
  BY DEF ObserveExit
<1>2. /\ \A e \in Entries : IF e = d /\ svc.alloc[e] # None
                            THEN Holds(svc'.alloc[e], s) ELSE svc'.alloc[e] = svc.alloc[e]
      /\ svc'.route = svc.route /\ svc'.lease = svc.lease
      /\ svc'.browser[s] = None /\ \A t \in Sessions \ {s} : svc'.browser[t] = svc.browser[t]
  BY <1>1, <1>b, ExitRecordedFields
<1>3. d \in Entries => Holds(svc.alloc[d], s)
  <2>1. d \in Entries => svc.browser[s] # None /\ svc.browser[s].disp = d
    BY <1>b, BrowserDisplayType
  <2> QED BY <2>1, OwnersElim DEF Placement
<1> HIDE DEF d
<1>4. /\ SameOwners(svc.alloc, svc'.alloc)
      /\ \A e \in Entries : ~Holds(svc.alloc[e], s) => svc'.alloc[e] = svc.alloc[e]
  BY <1>2, <1>3 DEF Holds, SameOwners
<1>5. \A e \in Entries, t \in Sessions \ {s} : Holds(svc.alloc[e], t) => svc'.alloc[e] = svc.alloc[e]
  BY <1>4 DEF Holds
<1>p. \A e \in Entries : Paired(svc'.alloc[e], svc'.route[e])
  BY <1>2, <1>4, OwnersElim DEF Paired, SameOwners
<1>q. Placement(svc)'
  BY <1>1, <1>2, <1>5, OwnersElim DEF Placement
<1>r. Running(svc)'
  <2> SUFFICES ASSUME NEW t \in Sessions
               PROVE  /\ alive[t] # 0 => svc'.browser[t] # None /\ svc'.browser[t].pid = alive[t]
                      /\ shown[t] # None => alive[t] # 0 /\ HoldsActive(svc'.alloc[shown[t]], t)
    BY <1>1 DEF Running
  <2>0. /\ alive[t] # 0 => svc.browser[t] # None /\ svc.browser[t].pid = alive[t]
        /\ shown[t] # None => alive[t] # 0 /\ HoldsActive(svc.alloc[shown[t]], t)
        /\ shown[t] \in Entries \cup {None}
    BY <1>b, OwnersElim DEF Running
  <2> QED BY <1>1, <1>2, <1>5, <2>0 DEF HoldsActive
<1>s. Reversible(svc)'
  <2> SUFFICES ASSUME NEW t \in Sessions \ {s}, stage[t] \in {"launch", "checkout", "complete"}
               PROVE  Reversible(svc)'
    BY <1>1 DEF Reversible
  <2> DEFINE l == open[t].lease
             r == svc.lease[l]
  <2>1. /\ r # None /\ r.st = "reserved" /\ r.s = t /\ r.e = open[t].entry /\ Paired(r.alloc, r.route)
        /\ shown[t] = r.e => HoldsActive(r.alloc, t)
        /\ r.disp \in Entries =>
             /\ Holds(Beneath(svc, r), t)
             /\ \/ ~AllocInactive(Beneath(svc, r))
                \/ svc.browser[t] = None
                \/ stage[t] # "launch" /\ ~open[t].reused /\ t \in live
    BY LeaseOf
  <2>2. r = svc'.lease[open'[t].lease]
    BY <1>1, <1>2
  <2> HIDE DEF r
  <2>3. r.disp \in Entries => Beneath(svc', r) = Beneath(svc, r)
    BY <1>5, <2>1 DEF Beneath
  <2>4. \A u \in Sessions \ {t} : stage'[u] = "idle"
    BY <1>1, OthersIdle
  <2> QED BY <1>1, <1>2, <2>1, <2>2, <2>3, <2>4, OneReversible
<1>t. EntryUncontested(svc)'
  BY <1>1, <1>2, OwnersElim DEF EntryUncontested
<1>u. Single'
  BY <1>1, OwnersElim DEF Single
<1> QED BY <1>1, <1>p, <1>q, <1>r, <1>s, <1>t, <1>u, OwnersElim, OwnersKept

(* Records stay sound while processes and displays come and go. *)
LEMMA SoundKept ==
  ASSUME NEW st, Sound(st),
         \/ /\ UNCHANGED <<stage, open, live>>
            /\ \A s \in Sessions : \/ alive'[s] = alive[s] /\ shown'[s] = shown[s]
                                   \/ alive'[s] = 0 /\ shown'[s] = None
         \/ /\ UNCHANGED <<alive, shown>>
            /\ \E s \in Sessions :
                 /\ stage[s] \in BeforeCheckout /\ stage'[s] = "idle" /\ live' = live \ {s}
                 /\ \A t \in Sessions \ {s} : stage'[t] = stage[t] /\ open'[t] = open[t],
         \A s \in Sessions : stage[s] # "idle" => open[s].entry \in Entries
  PROVE  Sound(st)'
<1>1. CASE /\ UNCHANGED <<stage, open, live>>
           /\ \A s \in Sessions : \/ alive'[s] = alive[s] /\ shown'[s] = shown[s]
                                  \/ alive'[s] = 0 /\ shown'[s] = None
  <2>q. Placement(st)'
    BY <1>1 DEF Sound, Placement
  <2>r. Running(st)'
    BY <1>1 DEF Sound, Running
  <2>s. Reversible(st)'
    BY <1>1, Distinct DEF Sound, Reversible
  <2>t. EntryUncontested(st)'
    BY <1>1, Distinct DEF Sound, EntryUncontested
  <2> QED BY <2>q, <2>r, <2>s, <2>t DEF Sound
<1>2. CASE /\ UNCHANGED <<alive, shown>>
           /\ \E s \in Sessions :
                 /\ stage[s] \in BeforeCheckout /\ stage'[s] = "idle" /\ live' = live \ {s}
                 /\ \A t \in Sessions \ {s} : stage'[t] = stage[t] /\ open'[t] = open[t]
  <2>1. PICK s \in Sessions :
                 /\ stage[s] \in BeforeCheckout /\ stage'[s] = "idle" /\ live' = live \ {s}
                 /\ \A t \in Sessions \ {s} : stage'[t] = stage[t] /\ open'[t] = open[t]
    BY <1>2
  <2>q. Placement(st)'
    <3> SUFFICES ASSUME NEW t \in Sessions, st.browser[t] # None
                 PROVE  /\ st.browser[t].pid # 0
                        /\ st.browser[t].disp \in Entries =>
                             /\ Holds(st.alloc[st.browser[t].disp], t)
                             /\ \/ stage'[t] \in BeforeCheckout
                                \/ stage'[t] = "cleanup" /\ (open'[t].reused \/ t \notin live')
                                => ~AllocInactive(st.alloc[st.browser[t].disp])
      BY DEF Placement
    <3>1. CASE t = s
      BY <2>1, <3>1 DEF Sound, Placement
    <3>2. CASE t # s
      BY <2>1, <3>2 DEF Sound, Placement
    <3> QED BY <3>1, <3>2
  <2>r. Running(st)'
    BY <1>2 DEF Sound, Running
  <2>s. Reversible(st)'
    BY <1>2, <2>1 DEF Sound, Reversible
  <2>t. EntryUncontested(st)'
    BY <1>2, <2>1 DEF Sound, EntryUncontested
  <2> QED BY <2>q, <2>r, <2>s, <2>t DEF Sound
<1> QED BY <1>1, <1>2

LEMMA FaultOwners ==
  ASSUME RoutesInductive, Undisturbed, UNCHANGED <<svc, probe>>,
         \/ /\ UNCHANGED <<stage, open, live>>
            /\ \A s \in Sessions : \/ alive'[s] = alive[s] /\ shown'[s] = shown[s]
                                   \/ alive'[s] = 0 /\ shown'[s] = None
         \/ /\ UNCHANGED <<alive, shown>>
            /\ \E s \in Sessions :
                 /\ stage[s] \in BeforeCheckout /\ stage'[s] = "idle" /\ live' = live \ {s}
                 /\ \A t \in Sessions \ {s} : stage'[t] = stage[t] /\ open'[t] = open[t]
  PROVE  Ownership'
<1>1. \A s \in Sessions : stage[s] # "idle" => open[s].entry \in Entries
  BY LeftType DEF RoutesInductive
<1>2. Single'
  BY OwnersElim DEF Single
<1>3. Sound(svc)'
  <2>1. PICK x : x = svc
    OBVIOUS
  <2>2. Sound(x)'
    BY <1>1, <2>1, SoundKept, OwnersElim
  <2>3. x = svc'
    BY <2>1
  <2> QED BY <2>2, <2>3 DEF Sound, Placement, Running, Reversible, EntryUncontested
<1>4. ASSUME probe # None
      PROVE  Sound(probe.after)'
  <2>1. PICK x : x = probe.after
    OBVIOUS
  <2>2. Sound(x)'
    BY <1>1, <1>4, <2>1, SoundKept, OwnersElim
  <2>3. x = probe'.after
    BY <2>1
  <2> QED BY <2>2, <2>3 DEF Sound, Placement, Running, Reversible, EntryUncontested
<1>5. probe' # None => probe'.before = svc' /\ Follows(svc', probe'.after)
  BY OwnersElim
<1> QED BY <1>2, <1>3, <1>4, <1>5 DEF Ownership

LEMMA BrowserDiesOwners ==
  ASSUME RoutesInductive, Undisturbed, scenario' = scenario, NEW s \in Sessions, BrowserDies(s), RoutesBase'
  PROVE  Ownership'
<1>1. /\ UNCHANGED <<svc, stage, open, live, display, probe>>
      /\ alive' = [alive EXCEPT ![s] = 0] /\ shown' = [shown EXCEPT ![s] = None]
  BY DEF BrowserDies
<1>2. \A t \in Sessions : \/ alive'[t] = alive[t] /\ shown'[t] = shown[t]
                          \/ alive'[t] = 0 /\ shown'[t] = None
  BY <1>1, BaseElim DEF RoutesInductive
<1> QED BY <1>1, <1>2, FaultOwners

LEMMA DaemonCrashOwners ==
  ASSUME RoutesInductive, Undisturbed, scenario' = scenario, NEW s \in Sessions, DaemonCrash(s), RoutesBase'
  PROVE  Ownership'
<1>1. /\ UNCHANGED <<svc, alive, display, probe, shown>> /\ End(s) /\ live' = live \ {s}
      /\ stage[s] \in BeforeCheckout
  BY DEF DaemonCrash, Undisturbed
<1>2. stage'[s] = "idle" /\ \A t \in Sessions \ {s} : stage'[t] = stage[t] /\ open'[t] = open[t]
  BY <1>1, EndType DEF RoutesInductive
<1> QED BY <1>1, <1>2, FaultOwners

LEMMA DisplayChangesOwners ==
  ASSUME RoutesInductive, Undisturbed, scenario' = scenario, NEW e \in Entries, DisplayChanges(e), RoutesBase'
  PROVE  Ownership'
BY FaultOwners DEF DisplayChanges

LEMMA ReconcileReadsOwners ==
  ASSUME RoutesInductive, Undisturbed, scenario' = scenario, NEW missed, ReconcileReads(missed),
         RoutesBase'
  PROVE  Ownership'
<1> DEFINE n == Reconciled(svc, missed)
<1>b. RoutesBase /\ svc \in ServiceState /\ shown \in [Sessions -> Entries \cup {None}]
  BY BaseElim DEF RoutesInductive
<1>0. missed = {}
  BY DEF ReconcileReads, Undisturbed
<1>1. /\ probe' = [before |-> svc, after |-> n]
      /\ UNCHANGED <<svc, stage, open, live, alive, display, shown, left>>
  BY DEF ReconcileReads
<1>2. /\ n.lease = svc.lease /\ SameOwners(svc.alloc, n.alloc) /\ SameOwners(svc.route, n.route)
      /\ \A e \in Entries : svc.alloc[e] # None /\ Found(svc, svc.alloc[e].own) => n.alloc[e] = svc.alloc[e]
      /\ \A s \in Sessions :
           /\ Found(svc, s) => n.browser[s] # None
           /\ n.browser[s] # None =>
                /\ svc.browser[s] # None
                /\ n.browser[s].pid = svc.browser[s].pid /\ n.browser[s].disp = svc.browser[s].disp
                /\ svc.browser[s].pid # 0 => Found(svc, s)
  BY <1>b, <1>0, ReconciledFields
<1>3. probe'.before = svc' /\ probe'.after = n
  BY <1>1
<1> HIDE DEF n
<1>4. \A e \in Entries, s \in Sessions : Holds(svc.alloc[e], s) =>
        Holds(n.alloc[e], s) /\ (Found(svc, s) => n.alloc[e] = svc.alloc[e])
  BY <1>2 DEF Holds, SameOwners
<1>5. \A s \in Sessions : n.browser[s] # None => Found(svc, s)
  BY <1>2, OwnersElim DEF Placement
<1>6. \A s \in Sessions : alive[s] # 0 => Found(svc, s)
  BY OwnersElim DEF Running, Found
<1>p. \A e \in Entries : Paired(n.alloc[e], n.route[e])
  BY <1>2, OwnersElim DEF Paired, SameOwners
<1>q. Placement(n)
  <2> SUFFICES ASSUME NEW t \in Sessions, n.browser[t] # None
               PROVE  /\ n.browser[t].pid # 0
                      /\ n.browser[t].disp \in Entries =>
                           /\ Holds(n.alloc[n.browser[t].disp], t)
                           /\ \/ stage[t] \in BeforeCheckout
                              \/ stage[t] = "cleanup" /\ (open[t].reused \/ t \notin live)
                              => ~AllocInactive(n.alloc[n.browser[t].disp])
    BY DEF Placement
  <2>1. /\ svc.browser[t] # None /\ n.browser[t].pid = svc.browser[t].pid
        /\ n.browser[t].disp = svc.browser[t].disp /\ Found(svc, t)
    BY <1>2, <1>5
  <2>2. svc.browser[t].disp \in Entries => n.alloc[svc.browser[t].disp] = svc.alloc[svc.browser[t].disp]
    BY <1>4, <2>1, OwnersElim DEF Placement
  <2> QED BY <2>1, <2>2, OwnersElim DEF Placement
<1>r. Running(n)
  <2> SUFFICES ASSUME NEW t \in Sessions
               PROVE  /\ alive[t] # 0 => n.browser[t] # None /\ n.browser[t].pid = alive[t]
                      /\ shown[t] # None => alive[t] # 0 /\ HoldsActive(n.alloc[shown[t]], t)
    BY DEF Running
  <2>0. /\ alive[t] # 0 => svc.browser[t] # None /\ svc.browser[t].pid = alive[t]
        /\ shown[t] # None => alive[t] # 0 /\ HoldsActive(svc.alloc[shown[t]], t)
        /\ shown[t] \in Entries \cup {None}
    BY <1>b, OwnersElim DEF Running
  <2> QED BY <1>2, <1>4, <1>6, <2>0 DEF HoldsActive
<1>s. Reversible(n)
  <2> SUFFICES ASSUME NEW t \in Sessions, stage[t] \in {"launch", "checkout", "complete"},
                      NEW r, r = n.lease[open[t].lease]
               PROVE  /\ r # None /\ r.st = "reserved" /\ r.s = t /\ r.e = open[t].entry
                      /\ Paired(r.alloc, r.route)
                      /\ shown[t] = r.e => HoldsActive(r.alloc, t)
                      /\ r.disp \in Entries =>
                          /\ Holds(Beneath(n, r), t)
                          /\ \/ ~AllocInactive(Beneath(n, r))
                             \/ n.browser[t] = None
                             \/ stage[t] # "launch" /\ ~open[t].reused /\ t \in live
    BY DEF Reversible
  <2>0. r = svc.lease[open[t].lease]
    BY <1>2
  <2>1. /\ r # None /\ r.st = "reserved" /\ r.s = t /\ r.e = open[t].entry /\ Paired(r.alloc, r.route)
        /\ shown[t] = r.e => HoldsActive(r.alloc, t)
        /\ r.disp \in Entries =>
             /\ Holds(Beneath(svc, r), t)
             /\ \/ ~AllocInactive(Beneath(svc, r))
                \/ svc.browser[t] = None
                \/ stage[t] # "launch" /\ ~open[t].reused /\ t \in live
    BY <2>0, LeaseOf
  <2>2. r.disp \in Entries => Holds(Beneath(n, r), t) /\ (Found(svc, t) => Beneath(n, r) = Beneath(svc, r))
    BY <1>4, <2>1 DEF Beneath
  <2> QED BY <1>2, <1>5, <2>1, <2>2
<1>t. EntryUncontested(n)
  BY <1>2, OwnersElim DEF EntryUncontested
<1>f. Follows(svc, n)
  BY <1>2 DEF Follows, SameOwners
<1>7. Sound(n)
  BY <1>p, <1>q, <1>r, <1>s, <1>t DEF Sound
<1>8. Sound(probe.after)' /\ Sound(svc)'
  BY <1>1, <1>3, <1>7, OwnersElim DEF Sound, Placement, Running, Reversible, EntryUncontested
<1>9. Single'
  BY <1>1, OwnersElim DEF Single
<1> QED BY <1>1, <1>3, <1>8, <1>9, <1>f DEF Ownership

LEMMA ReconcileWritesOwners ==
  ASSUME RoutesInductive, Undisturbed, scenario' = scenario, ReconcileWrites, RoutesBase'
  PROVE  Ownership'
<1> DEFINE n == probe.after
<1>1. /\ probe # None /\ probe' = None /\ svc' = MergedState(svc, probe.before, n)
      /\ UNCHANGED <<stage, open, live, alive, display, shown, left>>
  BY DEF ReconcileWrites
<1>2. svc \in ServiceState /\ n \in ServiceState /\ probe.before = svc /\ Sound(n) /\ Follows(svc, n)
  BY <1>1, BaseElim, OwnersElim DEF RoutesInductive
<1>3. svc' = MergedState(svc, svc, n)
  BY <1>1, <1>2
<1> HIDE DEF n
<1>4. /\ svc'.alloc = n.alloc /\ svc'.route = n.route /\ svc'.lease = n.lease
      /\ \A s \in Sessions :
           /\ svc'.browser[s] = None <=> n.browser[s] = None
           /\ svc'.browser[s] # None =>
                svc'.browser[s].pid = n.browser[s].pid /\ svc'.browser[s].disp = n.browser[s].disp
  <2>1. n.lease = svc.lease
    BY <1>2 DEF Follows
  <2> QED BY <1>2, <1>3, <2>1, MergedFields
<1>p. \A e \in Entries : Paired(svc'.alloc[e], svc'.route[e])
  BY <1>2, <1>4 DEF Sound
<1>q. Placement(svc)'
  BY <1>1, <1>2, <1>4 DEF Sound, Placement
<1>r. Running(svc)'
  BY <1>1, <1>2, <1>4 DEF Sound, Running
<1>s. Reversible(svc)'
  BY <1>1, <1>2, <1>4 DEF Sound, Reversible, Beneath
<1>t. EntryUncontested(svc)'
  BY <1>1, <1>2, <1>4 DEF Sound, EntryUncontested
<1>u. Single'
  BY <1>1, OwnersElim DEF Single
<1> QED BY <1>1, <1>p, <1>q, <1>r, <1>s, <1>t, <1>u, OwnersKept

-----------------------------------------------------------------------------
(* The invariant and what follows from it. *)

LEMMA InductiveInit == RoutesInit => RoutesInductive
<1> SUFFICES ASSUME RoutesInit PROVE RoutesInductive
  OBVIOUS
<1>t. /\ \A e \in Entries : svc.alloc[e] = None /\ svc.route[e] = None
      /\ \A s \in Sessions : svc.browser[s] = None /\ stage[s] = "idle" /\ alive[s] = 0 /\ shown[s] = None
      /\ \A l \in Leases : svc.lease[l] = None
      /\ probe = None
  BY DEF RoutesInit
<1>s. scenario \in Scenarios /\ scenario \in Scenario
  BY RoutesAssumption DEF RoutesInit
<1>1. svc \in ServiceState
  <2> DEFINE p == [st |-> "available", cur |-> FALSE, rd |-> Is("none"), kept |-> Is("none")]
  <2>1. p \in PoolRecord
    BY ReadinessTypes DEF PoolRecord
  <2> HIDE DEF p
  <2>2. svc = [pool |-> [e \in Entries |-> p], alloc |-> [e \in Entries |-> None],
               route |-> [e \in Entries |-> None], browser |-> [s \in Sessions |-> None],
               lease |-> [l \in Leases |-> None]]
    BY DEF RoutesInit, p
  <2> QED BY <2>1, <2>2 DEF ServiceState
<1>2. stage \in [Sessions -> Steps] /\ open \in [Sessions -> OpenType]
  <2>1. NoOpen \in OpenType /\ "idle" \in Steps
    BY Distinct DEF NoOpen, OpenType, Steps
  <2> QED BY <2>1 DEF RoutesInit
<1>3. /\ live \subseteq Sessions /\ alive \in [Sessions -> 0 .. MaxOpens]
      /\ display \subseteq Entries /\ shown \in [Sessions -> Entries \cup {None}]
  BY <1>s, Distinct DEF RoutesInit, Scenario
<1>4. left \in [opens : 0 .. scenario.opens, faults : Nat, releases : Nat]
  <2>1. scenario.opens \in 0 .. scenario.opens /\ scenario.faults \in Nat /\ scenario.releases \in Nat
    BY <1>s, Distinct DEF Scenario
  <2> QED BY <2>1 DEF RoutesInit
<1>5. LeasesInOrder
  BY <1>4, <1>t DEF LeasesInOrder
<1>6. RoutesBase
  BY <1>1, <1>2, <1>3, <1>5, <1>s, <1>t DEF RoutesBase, RoutesTypeOK, OpenType
<1>7. Ownership
  BY <1>t DEF Ownership, Single, Sound, Paired, Placement, Running, Reversible, EntryUncontested
<1> QED BY <1>6, <1>7 DEF RoutesInductive

LEMMA InductiveStep ==
  ASSUME RoutesInductive, [RoutesNext]_routeVars
  PROVE  /\ RoutesInductive'
         /\ \A l \in Leases : svc.lease[l] # None /\ svc.lease[l].st # "reserved"
                => svc'.lease[l] = svc.lease[l]
<1> DEFINE Final == \A l \in Leases : svc.lease[l] # None /\ svc.lease[l].st # "reserved"
                                        => svc'.lease[l] = svc.lease[l]
<1>b. RoutesBase
  BY DEF RoutesInductive
<1>k. LeasesKept(svc.lease, svc'.lease) => Final
  BY DEF LeasesKept
<1>o. ASSUME RoutesBase', Undisturbed => Ownership', scenario' = scenario PROVE RoutesInductive'
  <2>1. Undisturbed' => Undisturbed
    BY <1>o DEF Undisturbed
  <2>2. CASE Undisturbed
    BY <1>o, <2>2 DEF RoutesInductive
  <2>3. CASE ~Undisturbed
    <3>1. Ownership'
      BY <2>1, <2>3 DEF Ownership
    <3> QED BY <1>o, <3>1 DEF RoutesInductive
  <2> QED BY <2>2, <2>3
<1> SUFFICES RoutesInductive' /\ Final
  OBVIOUS
<1> HIDE DEF Final
<1>1. CASE UNCHANGED routeVars
  <2>1. /\ scenario' = scenario /\ svc' = svc /\ stage' = stage /\ open' = open /\ live' = live
        /\ alive' = alive /\ display' = display /\ probe' = probe /\ shown' = shown /\ left' = left
    BY <1>1 DEF routeVars
  <2>2. RoutesBase' /\ LeasesKept(svc.lease, svc'.lease)
    BY <1>b, <2>1, Stayed, LeftType, BaseElim, BaseKept, KeptReflexive
  <2>3. Undisturbed => Ownership'
    BY <2>1, FaultOwners
  <2> QED BY <1>o, <1>k, <2>1, <2>2, <2>3
<1>2. CASE RoutesNext
  <2>s. scenario' = scenario /\ Step
    BY <1>2 DEF RoutesNext
  <2>1. ASSUME NEW s \in Sessions, NEW pin \in Entries \cup {None}, Plan(s, pin)
        PROVE  RoutesInductive' /\ Final
    BY <1>b, <1>k, <1>o, <2>1, <2>s, PlanBase, PlanOwners, KeptReflexive
  <2>2. ASSUME NEW s \in Sessions, Begin(s) PROVE RoutesInductive' /\ Final
    BY <1>b, <1>o, <2>2, <2>s, BeginBase, BeginOwners DEF Final
  <2>3. ASSUME NEW s \in Sessions, Launch(s) PROVE RoutesInductive' /\ Final
    BY <1>b, <1>k, <1>o, <2>3, <2>s, LaunchBase, LaunchOwners
  <2>4. ASSUME NEW s \in Sessions, LaunchFails(s) PROVE RoutesInductive' /\ Final
    BY <1>b, <1>k, <1>o, <2>4, <2>s, LaunchFailsBase, LaunchFailsOwners
  <2>5. ASSUME NEW s \in Sessions, ProofFails(s) PROVE RoutesInductive' /\ Final
    BY <1>b, <1>k, <1>o, <2>5, <2>s, ProofFailsBase, ProofFailsOwners
  <2>6. ASSUME NEW s \in Sessions, Checkout(s) PROVE RoutesInductive' /\ Final
    BY <1>b, <1>k, <1>o, <2>6, <2>s, CheckoutBase, CheckoutOwners
  <2>7. ASSUME NEW s \in Sessions, Complete(s) PROVE RoutesInductive' /\ Final
    BY <1>b, <1>k, <1>o, <2>7, <2>s, CompleteBase, CompleteOwners
  <2>8. ASSUME NEW s \in Sessions, Cleanup(s) PROVE RoutesInductive' /\ Final
    BY <1>b, <1>k, <1>o, <2>8, <2>s, CleanupBase, CleanupOwners
  <2>9. ASSUME NEW s \in Sessions, Close(s) PROVE RoutesInductive' /\ Final
    BY <1>b, <1>k, <1>o, <2>9, <2>s, CloseBase, CloseOwners
  <2>10. ASSUME NEW s \in Sessions, BrowserDies(s) PROVE RoutesInductive' /\ Final
    BY <1>b, <1>k, <1>o, <2>10, <2>s, BrowserDiesBase, BrowserDiesOwners
  <2>11. ASSUME NEW s \in Sessions, ObserveExit(s) PROVE RoutesInductive' /\ Final
    BY <1>b, <1>k, <1>o, <2>11, <2>s, ObserveExitBase, ObserveExitOwners
  <2>12. ASSUME NEW s \in Sessions, DaemonCrash(s) PROVE RoutesInductive' /\ Final
    BY <1>b, <1>k, <1>o, <2>12, <2>s, DaemonCrashBase, DaemonCrashOwners
  <2>13. ASSUME NEW e \in Entries, NEW park \in BOOLEAN, ReleaseRoute(e, park)
         PROVE  RoutesInductive' /\ Final
    BY <1>b, <1>k, <1>o, <2>13, <2>s, ReleaseRouteBase, ReleaseRouteOwners
  <2>14. ASSUME NEW e \in Entries, DisplayChanges(e) PROVE RoutesInductive' /\ Final
    BY <1>b, <1>k, <1>o, <2>14, <2>s, DisplayChangesBase, DisplayChangesOwners
  <2>15. CASE Repair
    <3>1. ~Undisturbed
      BY <2>15 DEF Repair, Undisturbed
    <3> QED BY <1>b, <1>k, <1>o, <2>15, <2>s, <3>1, RepairBase
  <2>16. ASSUME NEW missed \in SUBSET Sessions, ReconcileReads(missed)
         PROVE  RoutesInductive' /\ Final
    BY <1>b, <1>k, <1>o, <2>16, <2>s, ReconcileReadsBase, ReconcileReadsOwners
  <2>17. CASE ReconcileWrites
    BY <1>b, <1>k, <1>o, <2>17, <2>s, ReconcileWritesBase, ReconcileWritesOwners
  <2> QED BY <2>s, <2>1, <2>2, <2>3, <2>4, <2>5, <2>6, <2>7, <2>8, <2>9, <2>10, <2>11, <2>12, <2>13,
             <2>14, <2>15, <2>16, <2>17 DEF Step, SessionStep
<1> QED BY <1>1, <1>2

(* Types, the order of the leases and, in an undisturbed scenario, the owners of the     *)
(* records hold in every state.                                                          *)
THEOREM RoutesInvariance == RoutesSpec => []RoutesInductive
<1>1. RoutesInductive /\ [RoutesNext]_routeVars => RoutesInductive'
  BY InductiveStep
<1> QED BY <1>1, InductiveInit, PTL DEF RoutesSpec

(* The records have their types, and a display's route and allocation never name two      *)
(* active owners, whatever failed opens, crashes before a checkout, releases and the      *)
(* reconciliation make of them.                                                           *)
THEOREM RecordsAgreeAlways == RoutesSpec => []RecordsAgree
<1>1. RoutesInductive => RecordsAgree
  <2> SUFFICES ASSUME RoutesInductive PROVE RecordsAgree
    OBVIOUS
  <2>1. RoutesTypeOK
    BY DEF RoutesInductive, RoutesBase
  <2>2. OwnersAgree
    <3> SUFFICES ASSUME Undisturbed, NEW e \in Entries, svc.alloc[e] # None, svc.route[e] # None
                 PROVE  svc.alloc[e].own = svc.route[e].own
      BY DEF OwnersAgree
    <3> QED BY OwnersElim DEF Paired
  <2> QED BY <2>1, <2>2 DEF RecordsAgree
<1> QED BY <1>1, RoutesInvariance, PTL

(* While a browser that an open returned runs on its entry, the entry is shown to no      *)
(* other session and refused to each of them.                                             *)
THEOREM RoutesExclusive == RoutesSpec => []OneBrowserPerRoute
<1>1. RoutesInductive => OneBrowserPerRoute
  <2> SUFFICES ASSUME RoutesInductive, Undisturbed, NEW s \in Sessions, NEW t \in Sessions,
                      s # t, shown[s] # None
               PROVE  shown[s] # shown[t] /\ ~Admissible(svc, t, shown[s])
    BY DEF OneBrowserPerRoute
  <2>1. HoldsActive(svc.alloc[shown[s]], s)
    BY OwnersElim DEF Running
  <2>2. shown[t] # None => HoldsActive(svc.alloc[shown[t]], t)
    BY OwnersElim DEF Running
  <2>3. shown[s] # shown[t]
    BY <2>1, <2>2 DEF HoldsActive, Holds
  <2>4. ~DisplayFree(svc, t, shown[s])
    BY <2>1 DEF DisplayFree, HoldsActive, Holds
  <2> QED BY <2>3, <2>4 DEF Admissible
<1> QED BY <1>1, RoutesInvariance, PTL

(* A finalized or rolled-back lease is never touched again, in any scenario. *)
THEOREM LeasesFinal == RoutesSpec => LeaseFinal
<1>1. RoutesInductive /\ [RoutesNext]_routeVars =>
        [\A l \in Leases : svc.lease[l] # None /\ svc.lease[l].st # "reserved"
            => svc'.lease[l] = svc.lease[l]]_routeVars
  BY InductiveStep
<1> QED BY <1>1, RoutesInvariance, PTL DEF RoutesSpec, LeaseFinal
=============================================================================
