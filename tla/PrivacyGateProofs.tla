-------------------------- MODULE PrivacyGateProofs --------------------------
(* The safety of PrivacyGate for any number of connections, commands,       *)
(* private tasks, stages and epochs.                                        *)
EXTENDS PrivacyGate, TLAPS

(* Public work finds this directory closed. *)
Closed(d) == d.anchor /\ ~(d.epoch # 0 /\ d.clean)

(* Whoever holds a lease found the gate open, and it has stayed open; a     *)
(* reader's epoch is still the one on disk.                                 *)
LeasesOpen ==
  /\ LeasedCommands # {} \/ reading # {} => ~Closed(disk)
  /\ \A k \in reading : captured[k] = disk.epoch

(* Public work that the browser may still execute is on record, where       *)
(* neither a crash nor a power failure removes it.                          *)
OnRecord ==
  /\ \A c \in Commands : cpc[c] \in {"receipted", "sent"} =>
       c \in disk.receipts /\ c \in durable.receipts
  /\ \A c \in Commands : c \in browser =>
       /\ cpc[c] \in {"sent", "done"}
       /\ c \in disk.receipts /\ c \in durable.receipts
  /\ \A c \in Commands : c \in answered => cpc[c] \in {"sent", "done"} /\ c \notin browser
  /\ \A k \in Clients : k \in browser => disk.uncertain /\ durable.uncertain

(* No public work is in the browser once a private task has the lock, or    *)
(* the gate is closed, or would be closed after a power failure.            *)
Quiet ==
  ~SharedFree \/ Closed(disk) \/ Closed(durable) =>
    browser = {} /\ \A c \in Commands : cpc[c] \notin {"receipted", "sent"}

(* What a private task that draws a new epoch knows until it has written it. *)
Drawing ==
  \A p \in Permits :
    ppc[p] \in {"anchor", "temp", "rename"} /\ purpose[p] \in {"begin", "resume"} =>
      /\ permit[p].epoch = lastEpoch /\ lastEpoch \notin opened \cup intents
      /\ lastEpoch # 0 /\ opened \subseteq finished
      /\ ppc[p] = "anchor" => purpose[p] = "begin" /\ disk.epoch = 0

(* What a private task that holds an epoch knows while it rewrites it. *)
Rewriting ==
  \A p \in Permits :
    /\ ppc[p] = "anchor" => purpose[p] = "begin"
    /\ ppc[p] \in {"temp", "rename"} /\ purpose[p] \in {"advance", "finish"} =>
         /\ permit[p].epoch = disk.epoch /\ permit[p].epoch # 0 /\ ~disk.clean
         /\ purpose[p] = "finish" => permit[p].stage = disk.stage
         /\ durable.anchor /\ durable.epoch = disk.epoch /\ ~durable.clean
    /\ ppc[p] \in {"temp", "rename", "sync"} /\ purpose[p] = "finish" =>
         permit[p].epoch \in finished

Written ==
  \A p \in Permits :
    /\ ppc[p] \in {"temp", "rename", "sync", "held"} => disk.anchor
    /\ ppc[p] = "sync" =>
         /\ permit[p].epoch = disk.epoch /\ permit[p].stage = disk.stage
         /\ disk.clean <=> purpose[p] = "finish"
         /\ disk.epoch # 0
         /\ purpose[p] \in {"begin", "resume"} =>
              disk.epoch \notin intents /\ opened \subseteq finished /\ disk.epoch = lastEpoch
    /\ ppc[p] = "held" => permit[p].epoch # 0

EpochsKnown ==
  /\ opened \subseteq 1 .. lastEpoch /\ intents \subseteq 1 .. lastEpoch
  /\ disk.epoch <= lastEpoch /\ durable.epoch <= lastEpoch
  /\ disk.epoch # 0 => disk.anchor
  /\ durable.epoch # 0 => durable.anchor

(* An epoch that is open and not finished is the one directory d holds, and *)
(* it holds it closed; no epoch was opened after the one it holds.          *)
Remembers(d) ==
  /\ opened \ finished \subseteq {d.epoch}
  /\ ~Closed(d) => opened \subseteq finished
  /\ \A e \in opened : e <= d.epoch
Remembered == Remembers(disk) /\ Remembers(durable)

(* An epoch with an intent on file is durable as long as it is private. *)
IntentDurable ==
  disk.epoch \in intents /\ ~disk.clean =>
    durable.anchor /\ durable.epoch = disk.epoch /\ ~durable.clean

Inductive ==
  /\ TypeOK /\ LockExclusive /\ LeasesOpen /\ OnRecord /\ Quiet
  /\ Drawing /\ Rewriting /\ Written /\ EpochsKnown /\ Remembered
  /\ IntentDurable /\ PermitCurrent /\ PermitLockDurable

-----------------------------------------------------------------------------
(* Public steps leave the state record alone, private steps the receipts *)
(* and the marks.                                                           *)

SameState(d, e) ==
  d.anchor = e.anchor /\ d.epoch = e.epoch /\ d.clean = e.clean /\ d.stage = e.stage
SameFiles(d, e) == d.receipts = e.receipts /\ d.uncertain = e.uncertain

PublicMove == PublicStep \/ \E m \in Commands \cup Clients : BrowserAnswers(m)

PublicFrame ==
  /\ UNCHANGED privateVars
  /\ SameState(disk', disk)
  /\ SameState(durable', durable) \/ SameState(durable', disk)
PrivateFrame ==
  /\ UNCHANGED publicVars
  /\ SameFiles(disk', disk)
  /\ SameFiles(durable', durable) \/ SameFiles(durable', disk)

LEMMA PublicFrameHolds ==
  ASSUME TypeOK, PublicMove
  PROVE  PublicFrame
<1> USE DEF TypeOK, Directory, PublicFrame, SameState, WriteSynced, WriteUnsynced
<1>1. ASSUME NEW k \in Clients, Connect(k) PROVE PublicFrame
  BY <1>1 DEF Connect
<1>2. ASSUME NEW k \in Clients, Disconnect(k) PROVE PublicFrame
  BY <1>2 DEF Disconnect
<1>3. ASSUME NEW k \in Clients, Observe(k) PROVE PublicFrame
  BY <1>3 DEF Observe
<1>4. ASSUME NEW k \in Clients, EndObserve(k) PROVE PublicFrame
  BY <1>4 DEF EndObserve
<1>5. ASSUME NEW k \in Clients, SendRaw(k) PROVE PublicFrame
  BY <1>5 DEF SendRaw
<1>6. ASSUME NEW c \in Commands, CommandReceipt(c) PROVE PublicFrame
  BY <1>6 DEF CommandReceipt
<1>7. ASSUME NEW c \in Commands, CommandSend(c) PROVE PublicFrame
  BY <1>7 DEF CommandSend
<1>8. ASSUME NEW c \in Commands, CommandFails(c) PROVE PublicFrame
  BY <1>8 DEF CommandFails
<1>9. ASSUME NEW c \in Commands, CommandComplete(c) PROVE PublicFrame
  BY <1>9 DEF CommandComplete
<1>10. ASSUME NEW c \in Commands, NEW k \in Clients, CommandLease(c, k) PROVE PublicFrame
  BY <1>10 DEF CommandLease
<1>11. ASSUME NEW m \in Commands \cup Clients, BrowserAnswers(m) PROVE PublicFrame
  BY <1>11 DEF BrowserAnswers
<1> QED
  BY <1>1, <1>2, <1>3, <1>4, <1>5, <1>6, <1>7, <1>8, <1>9, <1>10, <1>11
  DEF PublicMove, PublicStep

LEMMA PrivateFrameHolds ==
  ASSUME TypeOK, PrivateStep
  PROVE  PrivateFrame
<1> USE DEF TypeOK, Directory, PrivateFrame, SameFiles, WriteSynced, WriteUnsynced
<1>1. ASSUME NEW p \in Permits, BeginPrivate(p) PROVE PrivateFrame
  BY <1>1 DEF BeginPrivate
<1>2. ASSUME NEW p \in Permits, CreateAnchor(p) PROVE PrivateFrame
  BY <1>2 DEF CreateAnchor
<1>3. ASSUME NEW p \in Permits, ResumePrivate(p) PROVE PrivateFrame
  BY <1>3 DEF ResumePrivate
<1>4. ASSUME NEW p \in Permits, AdvanceTarget(p) PROVE PrivateFrame
  BY <1>4 DEF AdvanceTarget
<1>5. ASSUME NEW p \in Permits, FinishPrivate(p) PROVE PrivateFrame
  BY <1>5 DEF FinishPrivate
<1>6. ASSUME NEW p \in Permits, CreateTemp(p) PROVE PrivateFrame
  BY <1>6 DEF CreateTemp
<1>7. ASSUME NEW p \in Permits, RenameState(p) PROVE PrivateFrame
  BY <1>7 DEF RenameState
<1>8. ASSUME NEW p \in Permits, SyncState(p) PROVE PrivateFrame
  BY <1>8 DEF SyncState
<1>9. ASSUME NEW p \in Permits, FinishFails(p) PROVE PrivateFrame
  BY <1>9 DEF FinishFails
<1>10. ASSUME NEW p \in Permits, DropPermit(p) PROVE PrivateFrame
  BY <1>10 DEF DropPermit
<1>11. ASSUME NEW p \in Permits, RecordIntent(p) PROVE PrivateFrame
  BY <1>11 DEF RecordIntent
<1> QED
  BY <1>1, <1>2, <1>3, <1>4, <1>5, <1>6, <1>7, <1>8, <1>9, <1>10, <1>11 DEF PrivateStep

(* The types. *)
LEMMA PublicTypes ==
  ASSUME TypeOK, PublicMove
  PROVE  TypeOK'
<1> USE GateAssumption DEF TypeOK, Directory, PublicType, WriteSynced, WriteUnsynced
<1>1. ASSUME NEW k \in Clients, Connect(k) PROVE disk' \in Directory /\ durable' \in Directory /\ PublicType'
  BY <1>1 DEF Connect
<1>2. ASSUME NEW k \in Clients, Disconnect(k) PROVE disk' \in Directory /\ durable' \in Directory /\ PublicType'
  BY <1>2 DEF Disconnect
<1>3. ASSUME NEW k \in Clients, Observe(k) PROVE disk' \in Directory /\ durable' \in Directory /\ PublicType'
  BY <1>3 DEF Observe
<1>4. ASSUME NEW k \in Clients, EndObserve(k) PROVE disk' \in Directory /\ durable' \in Directory /\ PublicType'
  BY <1>4 DEF EndObserve
<1>5. ASSUME NEW k \in Clients, SendRaw(k) PROVE disk' \in Directory /\ durable' \in Directory /\ PublicType'
  BY <1>5 DEF SendRaw
<1>6. ASSUME NEW c \in Commands, CommandReceipt(c) PROVE disk' \in Directory /\ durable' \in Directory /\ PublicType'
  BY <1>6 DEF CommandReceipt
<1>7. ASSUME NEW c \in Commands, CommandSend(c) PROVE disk' \in Directory /\ durable' \in Directory /\ PublicType'
  BY <1>7 DEF CommandSend
<1>8. ASSUME NEW c \in Commands, CommandFails(c) PROVE disk' \in Directory /\ durable' \in Directory /\ PublicType'
  BY <1>8 DEF CommandFails, LeasedCommands
<1>9. ASSUME NEW c \in Commands, CommandComplete(c) PROVE disk' \in Directory /\ durable' \in Directory /\ PublicType'
  BY <1>9 DEF CommandComplete
<1>10. ASSUME NEW c \in Commands, NEW k \in Clients, CommandLease(c, k) PROVE disk' \in Directory /\ durable' \in Directory /\ PublicType'
  BY <1>10 DEF CommandLease
<1>11. ASSUME NEW m \in Commands \cup Clients, BrowserAnswers(m) PROVE disk' \in Directory /\ durable' \in Directory /\ PublicType'
  BY <1>11 DEF BrowserAnswers
<1>12. PrivateType'
  BY PublicFrameHolds DEF PublicFrame, PrivateType, privateVars
<1> QED
  BY <1>1, <1>2, <1>3, <1>4, <1>5, <1>6, <1>7, <1>8, <1>9, <1>10, <1>11, <1>12
  DEF PublicMove, PublicStep

(* What is left of a temporary file is a flag of the directory. *)
LEMMA LitterIsFlag ==
  ASSUME disk \in Directory, NEW p \in Permits
  PROVE  Litter(p) \subseteq BOOLEAN
BY DEF Litter, Directory

LEMMA PrivateTypes ==
  ASSUME TypeOK, PrivateStep
  PROVE  TypeOK'
<1> USE GateAssumption
    DEF TypeOK, Directory, PrivateType, Purposes, Epochs, StartWrite, WriteSynced,
        WriteUnsynced
<1>1. ASSUME NEW p \in Permits, BeginPrivate(p) PROVE disk' \in Directory /\ durable' \in Directory /\ PrivateType'
  BY <1>1 DEF BeginPrivate
<1>2. ASSUME NEW p \in Permits, CreateAnchor(p) PROVE disk' \in Directory /\ durable' \in Directory /\ PrivateType'
  BY <1>2 DEF CreateAnchor
<1>3. ASSUME NEW p \in Permits, ResumePrivate(p) PROVE disk' \in Directory /\ durable' \in Directory /\ PrivateType'
  BY <1>3 DEF ResumePrivate
<1>4. ASSUME NEW p \in Permits, AdvanceTarget(p) PROVE disk' \in Directory /\ durable' \in Directory /\ PrivateType'
  BY <1>4 DEF AdvanceTarget, CanAdvance
<1>5. ASSUME NEW p \in Permits, FinishPrivate(p) PROVE disk' \in Directory /\ durable' \in Directory /\ PrivateType'
  BY <1>5 DEF FinishPrivate
<1>6. ASSUME NEW p \in Permits, CreateTemp(p) PROVE disk' \in Directory /\ durable' \in Directory /\ PrivateType'
  BY <1>6 DEF CreateTemp
<1>7. ASSUME NEW p \in Permits, RenameState(p) PROVE disk' \in Directory /\ durable' \in Directory /\ PrivateType'
  BY <1>7 DEF RenameState
<1>8. ASSUME NEW p \in Permits, SyncState(p) PROVE disk' \in Directory /\ durable' \in Directory /\ PrivateType'
  <2>1. permit[p].epoch \in Epochs
    OBVIOUS
  <2>2. disk' \in Directory /\ durable' \in Directory
    BY <1>8 DEF SyncState
  <2>3. /\ ppc' \in [Permits -> {"idle", "anchor", "temp", "rename", "sync", "held"}]
        /\ permit' = permit /\ finished' = finished
    BY <1>8 DEF SyncState, AfterSynced, AfterUnsynced
  <2>4. opened' = opened \/ opened' = opened \cup {permit[p].epoch}
    BY <1>8 DEF SyncState, AfterSynced, AfterUnsynced
  <2> QED
    BY <1>8, <2>1, <2>2, <2>3, <2>4 DEF SyncState
<1>9. ASSUME NEW p \in Permits, FinishFails(p) PROVE disk' \in Directory /\ durable' \in Directory /\ PrivateType'
  BY <1>9, LitterIsFlag DEF FinishFails
<1>10. ASSUME NEW p \in Permits, DropPermit(p) PROVE disk' \in Directory /\ durable' \in Directory /\ PrivateType'
  BY <1>10, LitterIsFlag DEF DropPermit
<1>11. ASSUME NEW p \in Permits, RecordIntent(p) PROVE disk' \in Directory /\ durable' \in Directory /\ PrivateType'
  <2>1. permit[p].epoch \in Epochs
    OBVIOUS
  <2>2. intents' \subseteq Epochs
    BY <1>11, <2>1 DEF RecordIntent
  <2> QED
    BY <1>11, <2>2 DEF RecordIntent
<1>12. PublicType'
  BY PrivateFrameHolds DEF PrivateFrame, PublicType, publicVars
<1> QED
  BY <1>1, <1>2, <1>3, <1>4, <1>5, <1>6, <1>7, <1>8, <1>9, <1>10, <1>11, <1>12 DEF PrivateStep

-----------------------------------------------------------------------------
(* What public steps keep. *)

(* What the private tasks know does not change under a public step. *)
LEMMA PublicKeepsPrivate ==
  ASSUME Inductive, PublicMove
  PROVE  /\ Drawing' /\ Rewriting' /\ Written' /\ EpochsKnown' /\ Remembered'
         /\ IntentDurable' /\ PermitCurrent' /\ PermitLockDurable'
<1>1. PublicFrame
  BY PublicFrameHolds DEF Inductive
<1> USE <1>1 DEF Inductive, PublicFrame, privateVars, SameState
<1>2. Drawing'
  BY DEF Drawing
<1>3. Written'
  BY DEF Written
<1>4. EpochsKnown'
  BY DEF EpochsKnown
<1>5. Remembered'
  BY DEF Remembered, Remembers, Closed
<1>6. IntentDurable'
  BY DEF IntentDurable, EpochsKnown
<1>7. PermitCurrent'
  BY DEF PermitCurrent
<1>8. PermitLockDurable'
  BY DEF PermitLockDurable, PermitCurrent, Written
<1>9. Rewriting'
  BY DEF Rewriting, Written
<1> QED
  BY <1>2, <1>3, <1>4, <1>5, <1>6, <1>7, <1>8, <1>9

(* Mutual exclusion: a lease is only taken while no private task is active. *)
LEMMA PublicKeepsLock ==
  ASSUME Inductive, PublicMove
  PROVE  LockExclusive'
<1> USE DEF Inductive, LockExclusive, SharedFree, LeasedCommands, TypeOK, PublicType,
            privateVars
<1>1. ASSUME NEW k \in Clients, Connect(k) PROVE LockExclusive'
  BY <1>1 DEF Connect
<1>2. ASSUME NEW k \in Clients, Disconnect(k) PROVE LockExclusive'
  BY <1>2 DEF Disconnect
<1>3. ASSUME NEW k \in Clients, Observe(k) PROVE LockExclusive'
  BY <1>3 DEF Observe, ObserverLease
<1>4. ASSUME NEW k \in Clients, EndObserve(k) PROVE LockExclusive'
  BY <1>4 DEF EndObserve
<1>5. ASSUME NEW k \in Clients, SendRaw(k) PROVE LockExclusive'
  BY <1>5 DEF SendRaw, ObserverLease
<1>6. ASSUME NEW c \in Commands, CommandReceipt(c) PROVE LockExclusive'
  BY <1>6 DEF CommandReceipt
<1>7. ASSUME NEW c \in Commands, CommandSend(c) PROVE LockExclusive'
  BY <1>7 DEF CommandSend
<1>8. ASSUME NEW c \in Commands, CommandFails(c) PROVE LockExclusive'
  BY <1>8 DEF CommandFails
<1>9. ASSUME NEW c \in Commands, CommandComplete(c) PROVE LockExclusive'
  BY <1>9 DEF CommandComplete
<1>10. ASSUME NEW c \in Commands, NEW k \in Clients, CommandLease(c, k) PROVE LockExclusive'
  BY <1>10 DEF CommandLease, ObserverLease
<1>11. ASSUME NEW m \in Commands \cup Clients, BrowserAnswers(m) PROVE LockExclusive'
  BY <1>11 DEF BrowserAnswers
<1> QED
  BY <1>1, <1>2, <1>3, <1>4, <1>5, <1>6, <1>7, <1>8, <1>9, <1>10, <1>11
  DEF PublicMove, PublicStep

LEMMA PublicKeepsLeases ==
  ASSUME Inductive, PublicMove
  PROVE  LeasesOpen'
<1>0. PublicFrame
  BY PublicFrameHolds DEF Inductive
<1> USE <1>0 DEF Inductive, LeasesOpen, Closed, GateOpen, LeasedCommands, TypeOK, PublicType,
            PublicFrame, SameState, privateVars
<1>1. ASSUME NEW k \in Clients, Connect(k) PROVE LeasesOpen'
  BY <1>1 DEF Connect
<1>2. ASSUME NEW k \in Clients, Disconnect(k) PROVE LeasesOpen'
  BY <1>2 DEF Disconnect
<1>3. ASSUME NEW k \in Clients, Observe(k) PROVE LeasesOpen'
  BY <1>3 DEF Observe, ObserverLease
<1>4. ASSUME NEW k \in Clients, EndObserve(k) PROVE LeasesOpen'
  BY <1>4 DEF EndObserve
<1>5. ASSUME NEW k \in Clients, SendRaw(k) PROVE LeasesOpen'
  BY <1>5 DEF SendRaw, ObserverLease
<1>6. ASSUME NEW c \in Commands, CommandReceipt(c) PROVE LeasesOpen'
  BY <1>6 DEF CommandReceipt
<1>7. ASSUME NEW c \in Commands, CommandSend(c) PROVE LeasesOpen'
  BY <1>7 DEF CommandSend
<1>8. ASSUME NEW c \in Commands, CommandFails(c) PROVE LeasesOpen'
  BY <1>8 DEF CommandFails
<1>9. ASSUME NEW c \in Commands, CommandComplete(c) PROVE LeasesOpen'
  BY <1>9 DEF CommandComplete
<1>10. ASSUME NEW c \in Commands, NEW k \in Clients, CommandLease(c, k) PROVE LeasesOpen'
  BY <1>10 DEF CommandLease, ObserverLease
<1>11. ASSUME NEW m \in Commands \cup Clients, BrowserAnswers(m) PROVE LeasesOpen'
  BY <1>11 DEF BrowserAnswers
<1> QED
  BY <1>1, <1>2, <1>3, <1>4, <1>5, <1>6, <1>7, <1>8, <1>9, <1>10, <1>11
  DEF PublicMove, PublicStep

LEMMA PublicKeepsRecord ==
  ASSUME Inductive, PublicMove
  PROVE  OnRecord'
<1> USE GateAssumption
    DEF Inductive, OnRecord, LeasedCommands, TypeOK, PublicType, Directory, WriteSynced,
        WriteUnsynced
<1>1. ASSUME NEW k \in Clients, Connect(k) PROVE OnRecord'
  BY <1>1 DEF Connect
<1>2. ASSUME NEW k \in Clients, Disconnect(k) PROVE OnRecord'
  BY <1>2 DEF Disconnect
<1>3. ASSUME NEW k \in Clients, Observe(k) PROVE OnRecord'
  BY <1>3 DEF Observe
<1>4. ASSUME NEW k \in Clients, EndObserve(k) PROVE OnRecord'
  BY <1>4 DEF EndObserve
<1>5. ASSUME NEW k \in Clients, SendRaw(k) PROVE OnRecord'
  BY <1>5 DEF SendRaw
<1>6. ASSUME NEW c \in Commands, CommandReceipt(c) PROVE OnRecord'
  BY <1>6 DEF CommandReceipt
<1>7. ASSUME NEW c \in Commands, CommandSend(c) PROVE OnRecord'
  BY <1>7 DEF CommandSend
<1>8. ASSUME NEW c \in Commands, CommandFails(c) PROVE OnRecord'
  BY <1>8 DEF CommandFails
<1>9. ASSUME NEW c \in Commands, CommandComplete(c) PROVE OnRecord'
  BY <1>9 DEF CommandComplete
<1>10. ASSUME NEW c \in Commands, NEW k \in Clients, CommandLease(c, k) PROVE OnRecord'
  BY <1>10 DEF CommandLease
<1>11. ASSUME NEW m \in Commands \cup Clients, BrowserAnswers(m) PROVE OnRecord'
  BY <1>11 DEF BrowserAnswers
<1> QED
  BY <1>1, <1>2, <1>3, <1>4, <1>5, <1>6, <1>7, <1>8, <1>9, <1>10, <1>11
  DEF PublicMove, PublicStep

LEMMA PublicKeepsQuiet ==
  ASSUME Inductive, PublicMove
  PROVE  Quiet'
<1>0. PublicFrame
  BY PublicFrameHolds DEF Inductive
<1> USE <1>0 DEF Inductive, Quiet, Closed, SharedFree, TypeOK, PublicType,
        PublicFrame, SameState, privateVars
<1>1. ASSUME NEW k \in Clients, Connect(k) PROVE Quiet'
  BY <1>1 DEF Connect
<1>2. ASSUME NEW k \in Clients, Disconnect(k) PROVE Quiet'
  BY <1>2 DEF Disconnect
<1>3. ASSUME NEW k \in Clients, Observe(k) PROVE Quiet'
  BY <1>3 DEF Observe
<1>4. ASSUME NEW k \in Clients, EndObserve(k) PROVE Quiet'
  BY <1>4 DEF EndObserve
<1>5. ASSUME NEW k \in Clients, SendRaw(k) PROVE Quiet'
  BY <1>5 DEF SendRaw, ObserverLease, GateOpen, WriteSynced, WriteUnsynced
<1>6. ASSUME NEW c \in Commands, CommandReceipt(c) PROVE Quiet'
  BY <1>6
  DEF CommandReceipt, LockExclusive, SharedFree, LeasesOpen, LeasedCommands, WriteSynced,
      WriteUnsynced
<1>7. ASSUME NEW c \in Commands, CommandSend(c) PROVE Quiet'
  BY <1>7 DEF CommandSend
<1>8. ASSUME NEW c \in Commands, CommandFails(c) PROVE Quiet'
  BY <1>8 DEF CommandFails, LeasedCommands
<1>9. ASSUME NEW c \in Commands, CommandComplete(c) PROVE Quiet'
  BY <1>9 DEF CommandComplete
<1>10. ASSUME NEW c \in Commands, NEW k \in Clients, CommandLease(c, k) PROVE Quiet'
  BY <1>10 DEF CommandLease
<1>11. ASSUME NEW m \in Commands \cup Clients, BrowserAnswers(m) PROVE Quiet'
  BY <1>11 DEF BrowserAnswers
<1> QED
  BY <1>1, <1>2, <1>3, <1>4, <1>5, <1>6, <1>7, <1>8, <1>9, <1>10, <1>11
  DEF PublicMove, PublicStep

LEMMA PublicKeeps ==
  ASSUME Inductive, PublicMove
  PROVE  Inductive'
  BY PublicTypes, PublicKeepsPrivate, PublicKeepsLock, PublicKeepsLeases,
     PublicKeepsRecord, PublicKeepsQuiet DEF Inductive

-----------------------------------------------------------------------------
(* What private steps keep. *)

(* A private step is taken by the only task that holds a lock, when the     *)
(* browser has no public work left.                                         *)
LEMMA PrivateAlone ==
  ASSUME Inductive, NEW p \in Permits,
         ppc[p] # "idle" \/ BeginPrivate(p) \/ ResumePrivate(p)
  PROVE  /\ LeasedCommands = {} /\ reading = {} /\ browser = {}
         /\ \A q \in Permits : q # p => ppc[q] = "idle"
<1>1. CASE ppc[p] # "idle"
  BY <1>1 DEF Inductive, LockExclusive, SharedFree, Quiet
<1>2. CASE BeginPrivate(p)
  <2>1. browser \cap Commands = {} /\ browser \cap Clients = {}
    BY <1>2 DEF BeginPrivate, Admissible, Inductive, OnRecord
  <2> QED
    BY <1>2, <2>1
    DEF BeginPrivate, ExclusiveFree, SharedFree, Inductive, TypeOK, PublicType
<1>3. CASE ResumePrivate(p)
  BY <1>3 DEF ResumePrivate, ExclusiveFree, SharedFree, Inductive, Quiet, Closed
<1> QED
  BY <1>1, <1>2, <1>3

LEMMA PrivateKeepsPublic ==
  ASSUME Inductive, PrivateStep
  PROVE  LeasesOpen' /\ OnRecord' /\ Quiet'
<1>1. PrivateFrame
  BY PrivateFrameHolds DEF Inductive
<1>2. LeasedCommands = {} /\ reading = {} /\ browser = {}
  BY PrivateAlone
  DEF PrivateStep, CreateAnchor, AdvanceTarget, FinishPrivate, CreateTemp,
      RenameState, SyncState, FinishFails, DropPermit, RecordIntent
<1>3. UNCHANGED <<reading, browser, answered, cpc, captured>>
  BY <1>1 DEF PrivateFrame, publicVars
<1>4. OnRecord'
  BY <1>1, <1>2, <1>3 DEF Inductive, OnRecord, PrivateFrame, SameFiles, LeasedCommands
<1>5. LeasesOpen'
  BY <1>2, <1>3 DEF LeasesOpen, LeasedCommands
<1>6. Quiet'
  BY <1>2, <1>3 DEF Quiet, LeasedCommands
<1> QED
  BY <1>4, <1>5, <1>6

(* The private task stays alone. *)
LEMMA PrivateKeepsLockExclusive ==
  ASSUME Inductive, PrivateStep
  PROVE  LockExclusive'
<1> USE GateAssumption
    DEF Inductive, TypeOK, PrivateType, Directory, Epochs, Purposes, LockExclusive,
        SharedFree, LeasedCommands, publicVars
<1>1. ASSUME NEW p \in Permits, BeginPrivate(p) PROVE LockExclusive'
  BY <1>1, PrivateAlone DEF BeginPrivate, StartWrite, Admissible, ExclusiveFree, SharedFree
<1>2. ASSUME NEW p \in Permits, CreateAnchor(p) PROVE LockExclusive'
  BY <1>2, PrivateAlone DEF CreateAnchor, WriteSynced, WriteUnsynced
<1>3. ASSUME NEW p \in Permits, ResumePrivate(p) PROVE LockExclusive'
  BY <1>3, PrivateAlone DEF ResumePrivate, StartWrite, ExclusiveFree, SharedFree
<1>4. ASSUME NEW p \in Permits, AdvanceTarget(p) PROVE LockExclusive'
  BY <1>4, PrivateAlone DEF AdvanceTarget, StartWrite, CanAdvance
<1>5. ASSUME NEW p \in Permits, FinishPrivate(p) PROVE LockExclusive'
  BY <1>5, PrivateAlone DEF FinishPrivate, StartWrite
<1>6. ASSUME NEW p \in Permits, CreateTemp(p) PROVE LockExclusive'
  BY <1>6, PrivateAlone DEF CreateTemp
<1>7. ASSUME NEW p \in Permits, RenameState(p) PROVE LockExclusive'
  BY <1>7, PrivateAlone DEF RenameState, WriteUnsynced
<1>8. ASSUME NEW p \in Permits, SyncState(p) PROVE LockExclusive'
  BY <1>8, PrivateAlone DEF SyncState, AfterSynced, AfterUnsynced, WriteSynced, WriteUnsynced
<1>9. ASSUME NEW p \in Permits, FinishFails(p) PROVE LockExclusive'
  BY <1>9, PrivateAlone DEF FinishFails, WriteUnsynced
<1>10. ASSUME NEW p \in Permits, DropPermit(p) PROVE LockExclusive'
  BY <1>10, PrivateAlone DEF DropPermit, WriteUnsynced
<1>11. ASSUME NEW p \in Permits, RecordIntent(p) PROVE LockExclusive'
  BY <1>11, PrivateAlone DEF RecordIntent
<1> QED
  BY <1>1, <1>2, <1>3, <1>4, <1>5, <1>6, <1>7, <1>8, <1>9, <1>10, <1>11 DEF PrivateStep

(* Epochs are drawn in order. *)
LEMMA PrivateKeepsEpochsKnown ==
  ASSUME Inductive, PrivateStep
  PROVE  EpochsKnown'
<1> USE GateAssumption
    DEF Inductive, TypeOK, PrivateType, Directory, Epochs, Purposes, EpochsKnown, Drawing,
        Rewriting, Written, PermitCurrent
<1>1. ASSUME NEW p \in Permits, BeginPrivate(p) PROVE EpochsKnown'
  BY <1>1, PrivateAlone DEF BeginPrivate, StartWrite, Admissible, ExclusiveFree, SharedFree
<1>2. ASSUME NEW p \in Permits, CreateAnchor(p) PROVE EpochsKnown'
  BY <1>2, PrivateAlone DEF CreateAnchor, WriteSynced, WriteUnsynced
<1>3. ASSUME NEW p \in Permits, ResumePrivate(p) PROVE EpochsKnown'
  BY <1>3, PrivateAlone DEF ResumePrivate, StartWrite, ExclusiveFree, SharedFree
<1>4. ASSUME NEW p \in Permits, AdvanceTarget(p) PROVE EpochsKnown'
  BY <1>4, PrivateAlone DEF AdvanceTarget, StartWrite, CanAdvance
<1>5. ASSUME NEW p \in Permits, FinishPrivate(p) PROVE EpochsKnown'
  BY <1>5, PrivateAlone DEF FinishPrivate, StartWrite
<1>6. ASSUME NEW p \in Permits, CreateTemp(p) PROVE EpochsKnown'
  BY <1>6, PrivateAlone DEF CreateTemp
<1>7. ASSUME NEW p \in Permits, RenameState(p) PROVE EpochsKnown'
  BY <1>7, PrivateAlone DEF RenameState, WriteUnsynced
<1>8. ASSUME NEW p \in Permits, SyncState(p) PROVE EpochsKnown'
  <2>1. permit[p].epoch = disk.epoch /\ disk.epoch \in 1 .. lastEpoch
    BY <1>8 DEF SyncState
  <2>2. opened' \in {opened, opened \cup {disk.epoch}}
    BY <1>8, <2>1 DEF SyncState, AfterSynced, AfterUnsynced
  <2>3. disk' = disk /\ durable' \in {durable, disk} /\ UNCHANGED <<lastEpoch, intents>>
    BY <1>8 DEF SyncState, WriteSynced, WriteUnsynced
  <2> QED
    BY <2>1, <2>2, <2>3
<1>9. ASSUME NEW p \in Permits, FinishFails(p) PROVE EpochsKnown'
  BY <1>9, PrivateAlone DEF FinishFails, WriteUnsynced
<1>10. ASSUME NEW p \in Permits, DropPermit(p) PROVE EpochsKnown'
  BY <1>10, PrivateAlone DEF DropPermit, WriteUnsynced
<1>11. ASSUME NEW p \in Permits, RecordIntent(p) PROVE EpochsKnown'
  <2>1. permit[p].epoch \in 1 .. lastEpoch
    BY <1>11 DEF RecordIntent
  <2> QED
    BY <1>11, <2>1 DEF RecordIntent
<1> QED
  BY <1>1, <1>2, <1>3, <1>4, <1>5, <1>6, <1>7, <1>8, <1>9, <1>10, <1>11 DEF PrivateStep

(* A new epoch is unknown until it is written. *)
LEMMA PrivateKeepsDrawing ==
  ASSUME Inductive, PrivateStep
  PROVE  Drawing'
<1> USE GateAssumption
    DEF Inductive, TypeOK, PrivateType, Directory, Epochs, Purposes, Drawing, EpochsKnown,
        Remembered, Remembers, Closed
<1>1. ASSUME NEW p \in Permits, BeginPrivate(p) PROVE Drawing'
  BY <1>1, PrivateAlone DEF BeginPrivate, StartWrite, Admissible, ExclusiveFree, SharedFree
<1>2. ASSUME NEW p \in Permits, CreateAnchor(p) PROVE Drawing'
  BY <1>2, PrivateAlone DEF CreateAnchor, WriteSynced, WriteUnsynced
<1>3. ASSUME NEW p \in Permits, ResumePrivate(p) PROVE Drawing'
  BY <1>3, PrivateAlone DEF ResumePrivate, StartWrite, ExclusiveFree, SharedFree
<1>4. ASSUME NEW p \in Permits, AdvanceTarget(p) PROVE Drawing'
  BY <1>4, PrivateAlone DEF AdvanceTarget, StartWrite, CanAdvance
<1>5. ASSUME NEW p \in Permits, FinishPrivate(p) PROVE Drawing'
  BY <1>5, PrivateAlone DEF FinishPrivate, StartWrite
<1>6. ASSUME NEW p \in Permits, CreateTemp(p) PROVE Drawing'
  BY <1>6, PrivateAlone DEF CreateTemp
<1>7. ASSUME NEW p \in Permits, RenameState(p) PROVE Drawing'
  BY <1>7, PrivateAlone DEF RenameState, WriteUnsynced
<1>8. ASSUME NEW p \in Permits, SyncState(p) PROVE Drawing'
  BY <1>8, PrivateAlone DEF SyncState, AfterSynced, AfterUnsynced, WriteSynced, WriteUnsynced
<1>9. ASSUME NEW p \in Permits, FinishFails(p) PROVE Drawing'
  BY <1>9, PrivateAlone DEF FinishFails, WriteUnsynced
<1>10. ASSUME NEW p \in Permits, DropPermit(p) PROVE Drawing'
  BY <1>10, PrivateAlone DEF DropPermit, WriteUnsynced
<1>11. ASSUME NEW p \in Permits, RecordIntent(p) PROVE Drawing'
  BY <1>11, PrivateAlone DEF RecordIntent
<1> QED
  BY <1>1, <1>2, <1>3, <1>4, <1>5, <1>6, <1>7, <1>8, <1>9, <1>10, <1>11 DEF PrivateStep

(* A rewritten epoch is the one on disk. *)
LEMMA PrivateKeepsRewriting ==
  ASSUME Inductive, PrivateStep
  PROVE  Rewriting'
<1> USE GateAssumption
    DEF Inductive, TypeOK, PrivateType, Directory, Epochs, Purposes, Rewriting, Written,
        PermitCurrent, PermitLockDurable
<1>1. ASSUME NEW p \in Permits, BeginPrivate(p) PROVE Rewriting'
  BY <1>1, PrivateAlone DEF BeginPrivate, StartWrite, Admissible, ExclusiveFree, SharedFree
<1>2. ASSUME NEW p \in Permits, CreateAnchor(p) PROVE Rewriting'
  BY <1>2, PrivateAlone DEF CreateAnchor, WriteSynced, WriteUnsynced
<1>3. ASSUME NEW p \in Permits, ResumePrivate(p) PROVE Rewriting'
  BY <1>3, PrivateAlone DEF ResumePrivate, StartWrite, ExclusiveFree, SharedFree
<1>4. ASSUME NEW p \in Permits, AdvanceTarget(p) PROVE Rewriting'
  BY <1>4, PrivateAlone DEF AdvanceTarget, StartWrite, CanAdvance
<1>5. ASSUME NEW p \in Permits, FinishPrivate(p) PROVE Rewriting'
  BY <1>5, PrivateAlone DEF FinishPrivate, StartWrite
<1>6. ASSUME NEW p \in Permits, CreateTemp(p) PROVE Rewriting'
  BY <1>6, PrivateAlone DEF CreateTemp
<1>7. ASSUME NEW p \in Permits, RenameState(p) PROVE Rewriting'
  BY <1>7, PrivateAlone DEF RenameState, WriteUnsynced
<1>8. ASSUME NEW p \in Permits, SyncState(p) PROVE Rewriting'
  BY <1>8, PrivateAlone DEF SyncState, AfterSynced, AfterUnsynced, WriteSynced, WriteUnsynced
<1>9. ASSUME NEW p \in Permits, FinishFails(p) PROVE Rewriting'
  BY <1>9, PrivateAlone DEF FinishFails, WriteUnsynced
<1>10. ASSUME NEW p \in Permits, DropPermit(p) PROVE Rewriting'
  BY <1>10, PrivateAlone DEF DropPermit, WriteUnsynced
<1>11. ASSUME NEW p \in Permits, RecordIntent(p) PROVE Rewriting'
  BY <1>11, PrivateAlone DEF RecordIntent
<1> QED
  BY <1>1, <1>2, <1>3, <1>4, <1>5, <1>6, <1>7, <1>8, <1>9, <1>10, <1>11 DEF PrivateStep

(* A written epoch is the one on disk. *)
LEMMA PrivateKeepsWritten ==
  ASSUME Inductive, PrivateStep
  PROVE  Written'
<1> USE GateAssumption
    DEF Inductive, TypeOK, PrivateType, Directory, Epochs, Purposes, Written, Drawing,
        Rewriting, PermitCurrent, PermitLockDurable, EpochsKnown
<1>1. ASSUME NEW p \in Permits, BeginPrivate(p) PROVE Written'
  BY <1>1, PrivateAlone DEF BeginPrivate, StartWrite, Admissible, ExclusiveFree, SharedFree
<1>2. ASSUME NEW p \in Permits, CreateAnchor(p) PROVE Written'
  BY <1>2, PrivateAlone DEF CreateAnchor, WriteSynced, WriteUnsynced
<1>3. ASSUME NEW p \in Permits, ResumePrivate(p) PROVE Written'
  BY <1>3, PrivateAlone DEF ResumePrivate, StartWrite, ExclusiveFree, SharedFree
<1>4. ASSUME NEW p \in Permits, AdvanceTarget(p) PROVE Written'
  BY <1>4, PrivateAlone DEF AdvanceTarget, StartWrite, CanAdvance
<1>5. ASSUME NEW p \in Permits, FinishPrivate(p) PROVE Written'
  BY <1>5, PrivateAlone DEF FinishPrivate, StartWrite
<1>6. ASSUME NEW p \in Permits, CreateTemp(p) PROVE Written'
  BY <1>6, PrivateAlone DEF CreateTemp
<1>7. ASSUME NEW p \in Permits, RenameState(p) PROVE Written'
  <2>1. \A q \in Permits : q # p => ppc'[q] = "idle"
    BY <1>7, PrivateAlone DEF RenameState
  <2>2. disk.anchor /\ permit[p].epoch # 0
    BY <1>7 DEF RenameState
  <2>3. /\ disk'.anchor = disk.anchor /\ disk'.epoch = permit[p].epoch
        /\ disk'.stage = permit[p].stage /\ disk'.clean = (purpose[p] = "finish")
    BY <1>7 DEF RenameState, WriteUnsynced
  <2>4. purpose[p] \in {"begin", "resume"} =>
          permit[p].epoch \notin intents /\ opened \subseteq finished
            /\ permit[p].epoch = lastEpoch
    BY <1>7 DEF RenameState
  <2>5. ppc'[p] = "sync" /\ UNCHANGED <<purpose, permit, lastEpoch, intents, opened, finished>>
    BY <1>7 DEF RenameState
  <2> QED
    BY <2>1, <2>2, <2>3, <2>4, <2>5
<1>8. ASSUME NEW p \in Permits, SyncState(p) PROVE Written'
  BY <1>8, PrivateAlone DEF SyncState, AfterSynced, AfterUnsynced, WriteSynced, WriteUnsynced
<1>9. ASSUME NEW p \in Permits, FinishFails(p) PROVE Written'
  BY <1>9, PrivateAlone DEF FinishFails, WriteUnsynced
<1>10. ASSUME NEW p \in Permits, DropPermit(p) PROVE Written'
  BY <1>10, PrivateAlone DEF DropPermit, WriteUnsynced
<1>11. ASSUME NEW p \in Permits, RecordIntent(p) PROVE Written'
  BY <1>11, PrivateAlone DEF RecordIntent
<1> QED
  BY <1>1, <1>2, <1>3, <1>4, <1>5, <1>6, <1>7, <1>8, <1>9, <1>10, <1>11 DEF PrivateStep

(* A usable permit knows the state on disk. *)
LEMMA PrivateKeepsPermitCurrent ==
  ASSUME Inductive, PrivateStep
  PROVE  PermitCurrent'
<1> USE GateAssumption
    DEF Inductive, TypeOK, PrivateType, Directory, Epochs, Purposes, PermitCurrent, Written,
        Rewriting
<1>1. ASSUME NEW p \in Permits, BeginPrivate(p) PROVE PermitCurrent'
  BY <1>1, PrivateAlone DEF BeginPrivate, StartWrite, Admissible, ExclusiveFree, SharedFree
<1>2. ASSUME NEW p \in Permits, CreateAnchor(p) PROVE PermitCurrent'
  BY <1>2, PrivateAlone DEF CreateAnchor, WriteSynced, WriteUnsynced
<1>3. ASSUME NEW p \in Permits, ResumePrivate(p) PROVE PermitCurrent'
  <2>1. \A q \in Permits : q # p => ppc'[q] # "held"
    BY <1>3, PrivateAlone DEF ResumePrivate, StartWrite
  <2>2. disk.epoch \in intents => disk.epoch # 0
    BY DEF EpochsKnown
  <2> QED
    BY <1>3, <2>1, <2>2 DEF ResumePrivate, StartWrite
<1>4. ASSUME NEW p \in Permits, AdvanceTarget(p) PROVE PermitCurrent'
  BY <1>4, PrivateAlone DEF AdvanceTarget, StartWrite, CanAdvance
<1>5. ASSUME NEW p \in Permits, FinishPrivate(p) PROVE PermitCurrent'
  BY <1>5, PrivateAlone DEF FinishPrivate, StartWrite
<1>6. ASSUME NEW p \in Permits, CreateTemp(p) PROVE PermitCurrent'
  BY <1>6, PrivateAlone DEF CreateTemp
<1>7. ASSUME NEW p \in Permits, RenameState(p) PROVE PermitCurrent'
  BY <1>7, PrivateAlone DEF RenameState, WriteUnsynced
<1>8. ASSUME NEW p \in Permits, SyncState(p) PROVE PermitCurrent'
  BY <1>8, PrivateAlone DEF SyncState, AfterSynced, AfterUnsynced, WriteSynced, WriteUnsynced
<1>9. ASSUME NEW p \in Permits, FinishFails(p) PROVE PermitCurrent'
  BY <1>9, PrivateAlone DEF FinishFails, WriteUnsynced
<1>10. ASSUME NEW p \in Permits, DropPermit(p) PROVE PermitCurrent'
  BY <1>10, PrivateAlone DEF DropPermit, WriteUnsynced
<1>11. ASSUME NEW p \in Permits, RecordIntent(p) PROVE PermitCurrent'
  BY <1>11, PrivateAlone DEF RecordIntent
<1> QED
  BY <1>1, <1>2, <1>3, <1>4, <1>5, <1>6, <1>7, <1>8, <1>9, <1>10, <1>11 DEF PrivateStep

(* A usable permit is backed by a durable record. *)
LEMMA PrivateKeepsPermitLockDurable ==
  ASSUME Inductive, PrivateStep
  PROVE  PermitLockDurable'
<1> USE GateAssumption
    DEF Inductive, TypeOK, PrivateType, Directory, Epochs, Purposes, PermitLockDurable,
        PermitCurrent, Written, Rewriting, IntentDurable, EpochsKnown
<1>1. ASSUME NEW p \in Permits, BeginPrivate(p) PROVE PermitLockDurable'
  BY <1>1, PrivateAlone DEF BeginPrivate, StartWrite, Admissible, ExclusiveFree, SharedFree
<1>2. ASSUME NEW p \in Permits, CreateAnchor(p) PROVE PermitLockDurable'
  BY <1>2, PrivateAlone DEF CreateAnchor, WriteSynced, WriteUnsynced
<1>3. ASSUME NEW p \in Permits, ResumePrivate(p) PROVE PermitLockDurable'
  BY <1>3, PrivateAlone DEF ResumePrivate, StartWrite, ExclusiveFree, SharedFree
<1>4. ASSUME NEW p \in Permits, AdvanceTarget(p) PROVE PermitLockDurable'
  BY <1>4, PrivateAlone DEF AdvanceTarget, StartWrite, CanAdvance
<1>5. ASSUME NEW p \in Permits, FinishPrivate(p) PROVE PermitLockDurable'
  BY <1>5, PrivateAlone DEF FinishPrivate, StartWrite
<1>6. ASSUME NEW p \in Permits, CreateTemp(p) PROVE PermitLockDurable'
  BY <1>6, PrivateAlone DEF CreateTemp
<1>7. ASSUME NEW p \in Permits, RenameState(p) PROVE PermitLockDurable'
  BY <1>7, PrivateAlone DEF RenameState, WriteUnsynced
<1>8. ASSUME NEW p \in Permits, SyncState(p) PROVE PermitLockDurable'
  BY <1>8, PrivateAlone DEF SyncState, AfterSynced, AfterUnsynced, WriteSynced, WriteUnsynced
<1>9. ASSUME NEW p \in Permits, FinishFails(p) PROVE PermitLockDurable'
  BY <1>9, PrivateAlone DEF FinishFails, WriteUnsynced
<1>10. ASSUME NEW p \in Permits, DropPermit(p) PROVE PermitLockDurable'
  BY <1>10, PrivateAlone DEF DropPermit, WriteUnsynced
<1>11. ASSUME NEW p \in Permits, RecordIntent(p) PROVE PermitLockDurable'
  BY <1>11, PrivateAlone DEF RecordIntent
<1> QED
  BY <1>1, <1>2, <1>3, <1>4, <1>5, <1>6, <1>7, <1>8, <1>9, <1>10, <1>11 DEF PrivateStep

(* Open epochs are remembered. *)
LEMMA PrivateKeepsRemembered ==
  ASSUME Inductive, PrivateStep
  PROVE  Remembered'
<1> USE GateAssumption
    DEF Inductive, TypeOK, PrivateType, Directory, Epochs, Purposes, Remembered, Remembers,
        Closed, Drawing, Written, Rewriting, EpochsKnown, PermitCurrent
<1>1. ASSUME NEW p \in Permits, BeginPrivate(p) PROVE Remembered'
  BY <1>1, PrivateAlone DEF BeginPrivate, StartWrite, Admissible, ExclusiveFree, SharedFree
<1>2. ASSUME NEW p \in Permits, CreateAnchor(p) PROVE Remembered'
  BY <1>2, PrivateAlone DEF CreateAnchor, WriteSynced, WriteUnsynced
<1>3. ASSUME NEW p \in Permits, ResumePrivate(p) PROVE Remembered'
  BY <1>3, PrivateAlone DEF ResumePrivate, StartWrite, ExclusiveFree, SharedFree
<1>4. ASSUME NEW p \in Permits, AdvanceTarget(p) PROVE Remembered'
  BY <1>4, PrivateAlone DEF AdvanceTarget, StartWrite, CanAdvance
<1>5. ASSUME NEW p \in Permits, FinishPrivate(p) PROVE Remembered'
  BY <1>5, PrivateAlone DEF FinishPrivate, StartWrite
<1>6. ASSUME NEW p \in Permits, CreateTemp(p) PROVE Remembered'
  BY <1>6, PrivateAlone DEF CreateTemp
<1>7. ASSUME NEW p \in Permits, RenameState(p) PROVE Remembered'
  BY <1>7, PrivateAlone DEF RenameState, WriteUnsynced
<1>8. ASSUME NEW p \in Permits, SyncState(p) PROVE Remembered'
  <2>1. /\ permit[p].epoch = disk.epoch /\ disk.anchor /\ disk.epoch # 0
        /\ disk.clean <=> purpose[p] = "finish"
        /\ purpose[p] = "begin" => opened \subseteq finished
    BY <1>8 DEF SyncState
  <2>2. disk' = disk /\ finished' = finished
    BY <1>8 DEF SyncState, WriteSynced, WriteUnsynced, AfterSynced, AfterUnsynced
  <2>3. CASE opened' = opened /\ durable' \in {disk, durable}
    BY <2>2, <2>3
  <2>4. CASE purpose[p] = "begin" /\ opened' = opened \cup {disk.epoch} /\ durable' = disk
    <3>1. opened' \ finished' \subseteq {disk.epoch}
      BY <2>1, <2>2, <2>4
    <3>2. disk.anchor /\ ~disk.clean
      BY <2>1, <2>4
    <3>3. \A e \in opened' : e <= disk.epoch
      BY <2>4
    <3> QED
      BY <2>2, <2>4, <3>1, <3>2, <3>3
  <2> QED
    BY <1>8, <2>1, <2>3, <2>4
    DEF SyncState, WriteSynced, WriteUnsynced, AfterSynced, AfterUnsynced
<1>9. ASSUME NEW p \in Permits, FinishFails(p) PROVE Remembered'
  BY <1>9, PrivateAlone DEF FinishFails, WriteUnsynced
<1>10. ASSUME NEW p \in Permits, DropPermit(p) PROVE Remembered'
  BY <1>10, PrivateAlone DEF DropPermit, WriteUnsynced
<1>11. ASSUME NEW p \in Permits, RecordIntent(p) PROVE Remembered'
  BY <1>11, PrivateAlone DEF RecordIntent
<1> QED
  BY <1>1, <1>2, <1>3, <1>4, <1>5, <1>6, <1>7, <1>8, <1>9, <1>10, <1>11 DEF PrivateStep

(* Epochs with an intent stay durable. *)
LEMMA PrivateKeepsIntentDurable ==
  ASSUME Inductive, PrivateStep
  PROVE  IntentDurable'
<1> USE GateAssumption
    DEF Inductive, TypeOK, PrivateType, Directory, Epochs, Purposes, IntentDurable,
        PermitLockDurable, PermitCurrent, Drawing, Written, Rewriting, EpochsKnown
<1>1. ASSUME NEW p \in Permits, BeginPrivate(p) PROVE IntentDurable'
  BY <1>1, PrivateAlone DEF BeginPrivate, StartWrite, Admissible, ExclusiveFree, SharedFree
<1>2. ASSUME NEW p \in Permits, CreateAnchor(p) PROVE IntentDurable'
  BY <1>2, PrivateAlone DEF CreateAnchor, WriteSynced, WriteUnsynced
<1>3. ASSUME NEW p \in Permits, ResumePrivate(p) PROVE IntentDurable'
  BY <1>3, PrivateAlone DEF ResumePrivate, StartWrite, ExclusiveFree, SharedFree
<1>4. ASSUME NEW p \in Permits, AdvanceTarget(p) PROVE IntentDurable'
  BY <1>4, PrivateAlone DEF AdvanceTarget, StartWrite, CanAdvance
<1>5. ASSUME NEW p \in Permits, FinishPrivate(p) PROVE IntentDurable'
  BY <1>5, PrivateAlone DEF FinishPrivate, StartWrite
<1>6. ASSUME NEW p \in Permits, CreateTemp(p) PROVE IntentDurable'
  BY <1>6, PrivateAlone DEF CreateTemp
<1>7. ASSUME NEW p \in Permits, RenameState(p) PROVE IntentDurable'
  BY <1>7, PrivateAlone DEF RenameState, WriteUnsynced
<1>8. ASSUME NEW p \in Permits, SyncState(p) PROVE IntentDurable'
  BY <1>8, PrivateAlone DEF SyncState, AfterSynced, AfterUnsynced, WriteSynced, WriteUnsynced
<1>9. ASSUME NEW p \in Permits, FinishFails(p) PROVE IntentDurable'
  BY <1>9, PrivateAlone DEF FinishFails, WriteUnsynced
<1>10. ASSUME NEW p \in Permits, DropPermit(p) PROVE IntentDurable'
  BY <1>10, PrivateAlone DEF DropPermit, WriteUnsynced
<1>11. ASSUME NEW p \in Permits, RecordIntent(p) PROVE IntentDurable'
  BY <1>11, PrivateAlone DEF RecordIntent
<1> QED
  BY <1>1, <1>2, <1>3, <1>4, <1>5, <1>6, <1>7, <1>8, <1>9, <1>10, <1>11 DEF PrivateStep

LEMMA PrivateKeeps ==
  ASSUME Inductive, PrivateStep
  PROVE  Inductive'
  BY PrivateTypes, PrivateKeepsPublic, PrivateKeepsLockExclusive, PrivateKeepsEpochsKnown,
     PrivateKeepsDrawing, PrivateKeepsRewriting, PrivateKeepsWritten,
     PrivateKeepsPermitCurrent, PrivateKeepsPermitLockDurable, PrivateKeepsRemembered,
     PrivateKeepsIntentDurable
  DEF Inductive

-----------------------------------------------------------------------------
(* A power failure leaves the gate as some mixture of what was written and  *)
(* what was synced.                                                         *)
LEMMA PowerKeeps ==
  ASSUME Inductive, PowerFails
  PROVE  Inductive'
<1>0. PICK s \in {disk, durable}, f \in {disk, durable},
           R \in SUBSET (disk.receipts \cup durable.receipts) :
        \E l \in {f.litter} \cup UNION {Litter(p) : p \in Permits} :
          /\ disk.receipts \cap durable.receipts \subseteq R
          /\ disk' = [anchor |-> s.anchor, epoch |-> s.epoch, clean |-> s.clean,
                      stage |-> s.stage, receipts |-> R,
                      uncertain |-> f.uncertain, litter |-> l]
          /\ durable' = disk'
  BY DEF PowerFails
<1>1. PICK l \in {f.litter} \cup UNION {Litter(p) : p \in Permits} :
        /\ disk.receipts \cap durable.receipts \subseteq R
        /\ disk' = [anchor |-> s.anchor, epoch |-> s.epoch, clean |-> s.clean,
                    stage |-> s.stage, receipts |-> R,
                    uncertain |-> f.uncertain, litter |-> l]
        /\ durable' = disk'
  BY <1>0
<1>2. SameState(disk', s) /\ SameState(durable', s)
  BY <1>1 DEF SameState
<1>3. /\ reading' = {} /\ LeasedCommands' = {}
      /\ \A p \in Permits : ppc'[p] = "idle"
      /\ UNCHANGED <<browser, answered, purpose, permit, lastEpoch, intents, opened, finished>>
      /\ \A c \in Commands : cpc'[c] = cpc[c] \/ cpc'[c] = "done"
  BY DEF PowerFails, LeasedCommands, Inductive, TypeOK, PublicType
<1>4. TypeOK'
  <2>. l \in BOOLEAN
    <3>1. disk \in Directory /\ f.litter \in BOOLEAN
      BY DEF Inductive, TypeOK, Directory
    <3> QED
      BY <1>1, <3>1, LitterIsFlag
  <2>1. disk' \in Directory /\ durable' \in Directory
    BY <1>1 DEF Inductive, TypeOK, Directory
  <2>2. PublicType'
    BY DEF PowerFails, Inductive, TypeOK, PublicType
  <2>3. PrivateType'
    BY DEF PowerFails, Inductive, TypeOK, PrivateType
  <2> QED
    BY <2>1, <2>2, <2>3 DEF TypeOK
<1>5. LockExclusive' /\ LeasesOpen'
  BY <1>3 DEF LockExclusive, LeasesOpen, SharedFree
<1>6. OnRecord'
  BY <1>1, <1>3 DEF Inductive, OnRecord, LeasedCommands
<1>7. Quiet'
  BY <1>2, <1>3 DEF Inductive, Quiet, SharedFree, Closed, SameState, LeasedCommands
<1>8. Drawing' /\ Rewriting' /\ Written' /\ PermitCurrent' /\ PermitLockDurable'
  BY <1>3 DEF Drawing, Rewriting, Written, PermitCurrent, PermitLockDurable
<1>9. EpochsKnown'
  BY <1>2, <1>3 DEF Inductive, EpochsKnown, SameState
<1>10. Remembered'
  BY <1>2, <1>3 DEF Inductive, Remembered, Remembers, Closed, SameState
<1>11. IntentDurable'
  BY <1>1, <1>2, <1>3, <1>9 DEF IntentDurable, EpochsKnown, Inductive, SameState
<1> QED
  BY <1>4, <1>5, <1>6, <1>7, <1>8, <1>9, <1>10, <1>11 DEF Inductive

-----------------------------------------------------------------------------
LEMMA InductiveInit == Init => Inductive
<1> SUFFICES ASSUME Init PROVE Inductive
  OBVIOUS
<1> USE GateAssumption DEF Init, EmptyGate
<1>1. TypeOK
  BY DEF TypeOK, PublicType, PrivateType, Directory, Epochs, Purposes
<1>2. LockExclusive /\ LeasesOpen /\ OnRecord /\ Quiet
  BY DEF LockExclusive, LeasesOpen, OnRecord, Quiet, LeasedCommands, SharedFree
<1>3. Drawing /\ Rewriting /\ Written /\ PermitCurrent /\ PermitLockDurable
  BY DEF Drawing, Rewriting, Written, PermitCurrent, PermitLockDurable
<1>4. EpochsKnown /\ Remembered /\ IntentDurable
  BY DEF EpochsKnown, Remembered, Remembers, IntentDurable
<1> QED
  BY <1>1, <1>2, <1>3, <1>4 DEF Inductive

LEMMA StutterKeeps ==
  ASSUME Inductive, UNCHANGED vars
  PROVE  Inductive'
<1> USE DEF vars, Inductive
<1>1. TypeOK' /\ LockExclusive' /\ LeasesOpen' /\ OnRecord' /\ Quiet'
  BY DEF TypeOK, PublicType, PrivateType, LockExclusive, LeasesOpen, OnRecord, Quiet,
         LeasedCommands, SharedFree, Closed
<1>2. Drawing' /\ Rewriting' /\ Written' /\ PermitCurrent' /\ PermitLockDurable'
  BY DEF Drawing, Rewriting, Written, PermitCurrent, PermitLockDurable
<1>3. EpochsKnown' /\ Remembered' /\ IntentDurable'
  BY DEF EpochsKnown, Remembered, Remembers, IntentDurable, Closed
<1> QED
  BY <1>1, <1>2, <1>3

LEMMA InductiveInvariant == Spec => []Inductive
<1>1. Inductive /\ [Next]_vars => Inductive'
  BY PublicKeeps, PrivateKeeps, PowerKeeps, StutterKeeps DEF Next, PublicMove
<1> QED
  BY <1>1, InductiveInit, PTL DEF Spec

(* Every variable keeps its type. *)
THEOREM GateTypeCorrect == Spec => []TypeOK
<1>1. Inductive => TypeOK
  BY DEF Inductive
<1> QED
  BY <1>1, InductiveInvariant, PTL

(* No command and no observer holds a lease while a private epoch that was  *)
(* handed out is not finished: dropping the permit, killing its holder or   *)
(* cutting the power does not reopen the gate.                              *)
THEOREM GateStaysClosed == Spec => []NoPublicWhilePrivate
<1>1. Inductive => NoPublicWhilePrivate
  BY DEF Inductive, LeasesOpen, Remembered, Remembers, NoPublicWhilePrivate
<1> QED
  BY <1>1, InductiveInvariant, PTL

(* A permit is only held when the browser has executed every public command *)
(* and raw message that ever reached it.                                    *)
THEOREM PublicWorkDrained == Spec => []CommandsDrained
<1>1. Inductive => CommandsDrained
  BY DEF Inductive, Quiet, SharedFree, CommandsDrained
<1> QED
  BY <1>1, InductiveInvariant, PTL

(* An observer shows nothing after a private epoch it did not know of.      *)
THEOREM OldObserversRevoked == Spec => []ObserverRevoked
<1>1. Inductive => ObserverRevoked
  BY DEF Inductive, LeasesOpen, Remembered, Remembers, ObserverRevoked
<1> QED
  BY <1>1, InductiveInvariant, PTL

(* A usable permit agrees with the state on disk, and what a power failure  *)
(* would leave behind is the permit's private epoch.                        *)
THEOREM PermitsSound == Spec => []PermitSound
<1>1. Inductive => PermitSound
  BY DEF Inductive, PermitSound
<1> QED
  BY <1>1, InductiveInvariant, PTL

=============================================================================
