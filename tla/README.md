# A TLA+ verification of agent-browser

agent-browser drives browsers for agents. A command-line client talks to a
per-session daemon over a socket; the daemon's *control plane* queues the
requests, executes them one at a time against a browser and keeps a journal of
jobs in a state file that several daemons share. A *privacy gate* per browser
endpoint closes the browser to ordinary commands and observers while a private
interval (a log-in, a secret) is under way. Around these stand the CDP
transport, the private journey with its receipts, the life of the daemons and
their replacement by newer builds, the authorities under which an agent may
act and the confirmations a person gives, and the pool of remote desktops.

This directory holds TLA+ models of the parts where several tasks, processes
or failures meet, TLC configurations that check them on small instances, and
TLAPS proofs of the properties that matter most for every value of the
constants. `PROJECT.json` lists the runs, the source lines each definition
translates, the hazards, the findings and the theorems.

## Inventory

Paths are relative to `src/cli/src/`.

| Component | State | Operations | Hard behaviour | Correct when | Module |
|---|---|---|---|---|---|
| Control plane (`native/control_plane.rs`) | bounded channel, `queue_depth`, worker position, running token map, lease-retry tasks | `submit`, `enqueue_private`, `cancel_job_response`, `shutdown`, the worker's loop body, monitor and drain ticks | connection tasks, worker, retry tasks and cancel calls on a multi-threaded runtime | counter exact, each request in one place, executed at most once, answered; cancellation honoured | `ControlPlane` |
| Job journal (`native/service_jobs.rs`) | job records, 200 retained | queued, waiting, running, finished, cancelled, pruned | records written from several tasks, each under the repository lock | terminal records final, answers agree with records | `ControlPlane` |
| Cancellation token (`native/cancellation.rs`) | flag, `Notify` | `cancel`, `cancelled` | flag and notification are two steps | a requested cancellation arrives | `ControlPlane` |
| Privacy gate (`native/privacy_gate.rs`, `gate_*` of `native/private_secret_store.rs`) | a directory: anchor, state record, command receipts, uncertainty mark, temporary files; `flock` | public, observer and command leases; begin, advance, resume, finish a private epoch | several processes, process death, lost power, failing fsync | nothing public while private, no old observer revived, permits durable | `PrivacyGate` |
| Service state repository (`native/service_store.rs`) | `state.json`, hand-off registry, lock file | load, save, mutate under lock | two files, several processes, crash between, older releases that know no lock | no acknowledged update undone, hand-offs survive older releases, no call waits for ever | `ServiceStore` |
| CDP client (`native/cdp/client.rs`) | pending responses, sink, sealed flag, reader and keep-alive tasks, shutdown progress | connect, send, raw send, shutdown | late responses, timeouts, dropped futures, shutdowns that are interrupted and taken up again | a response reaches its own command, evidence of closure is true, commands end | `CdpTransport` |
| Private journey, recovery, broker, controller, delivery (`native/private_*.rs`) | create-new receipts, gate stage, broker record | claim, attach, operate, sanitize, detach, reconcile, deliver, recover | crash, failed sync or lost power between any two receipts; two connections for one plan | an operation is admitted once, effects have their cause, recovery never replays a browser action | `PrivateJourney` |
| Daemon and connection (`native/daemon.rs`, `connection.rs`, `main.rs`) | socket, pid, version, hash, token and stream files, startup lock, hand-off descriptor | start, accept, idle stop, hand over, retire, retry | two clients starting and replacing daemons, late starts, stale files | a request is not run twice without cause, a hand-over resumes its browser, nobody is locked out | `DaemonLifecycle` |
| Task authority: confirmations (`native/task_authority.rs`, `native/actions.rs`) | pending record, receipts, retired-id segments and manifest, the confirmation in memory | stage, expire, decide, run, record, clean up | two sources of one answer, reused ids, interruptions | one dispatch per decision, lost results stay visible, the ledger verifies | `TaskConfirmations` |
| Task authority: plans (the same files) | issuance and ledger files, the confirmed authority in memory | issue, admit, confirm, finalize, revoke, reconcile | lost outcomes, interrupted reconciliation, abandoned commands | no step twice, one replacement per predecessor, fresh confirmation above the ceiling | `TaskAuthority` |
| Remote view (`native/remote_view*.rs`, parts of `native/actions.rs` and `native/service_health.rs`) | route pool, routes, display allocations, browser records, acquisition leases | open (plan, reserve, launch, check out, finalize, roll back), close, release, repair, reconcile | opens of several daemons over one pool; reconciliation that reads and later writes | one browser per route, records agree, entries come back | `RemoteViewRoutes` |
| Service model, health, incidents, monitors, access (`native/service_*.rs`) | the shared service state | reconcile, derive, project | mostly pure recomputation under the repository lock | derived views agree with their sources | in part |
| Dispatch (`native/actions.rs`, `policy.rs`, `dependent_batch.rs`) | daemon state | some hundred browser commands | sequential | | in part |
| Browser, page interaction, stream server, WebDriver, CLI, MCP, installers | external processes, I/O | | outside the program, or single-threaded formatting | | none |

How they interact: a client makes sure that a daemon runs (`DaemonLifecycle`)
and sends it a request; a connection task calls `submit` and waits on a oneshot
channel; the worker (`ControlPlane`) calls into dispatch, which asks for an
authority or a confirmation (`TaskAuthority`, `TaskConfirmations`), plans a
route (`RemoteViewRoutes`), or calls the CDP client (`CdpTransport`), which
asks the privacy gate (`PrivacyGate`) for a lease before every command. The job
journal and the pool live in the service state repository (`ServiceStore`),
whose mutations are single steps of the other modules. Cancel calls bypass the
queue. Private requests go through the same queue, are not journalled, and hold
a permit of the gate during their journey (`PrivateJourney`).

## Modules

| Module | What it is |
|---|---|
| `ControlPlane` | control plane, job journal and cancellation token |
| `JobService` | what the control plane promises: a serial executor that accepts, starts and answers each request at most once |
| `ControlPlaneProofs` | theorems about `ControlPlane`, its implementation of `JobService` among them |
| `PrivacyGate`, `PrivacyGateProofs` | the privacy gate of one endpoint, its directory, and the CDP client's use of it; theorems |
| `ServiceStore` | the service state repository: two files shared by several daemons |
| `CdpTransport`, `CdpTransportProofs` | the WebSocket transport of one CDP client; theorems |
| `PrivateJourney`, `PrivateJourneyProofs` | a private journey from the coordinator's socket to its delivery, and recovery; theorems |
| `DaemonLifecycle`, `DaemonLifecycleProofs` | the daemons and clients of one session and the files between them; theorems |
| `TaskConfirmations`, `TaskConfirmationsProofs` | the durable confirmations of one session's controls; theorems |
| `TaskAuthority`, `TaskAuthorityProofs` | the authorities, step ledgers and reconciliations of one session; theorems |
| `RemoteViewRoutes` | route-bound opens on a pool of remote desktops |
| `ServiceStateProofs` | theorems about `ServiceStore` and `RemoteViewRoutes` |
| `MC...` | instances of these for TLC |

Operators marked as mutants (most are named `Definition_Word`, as
`Park_Uncounted`) are mutated forms of the definition that follows them. The
specifications do not use them; they serve to show that a property notices the
bug they stand for.

Three modules (`DaemonLifecycle`, `TaskAuthority`, `RemoteViewRoutes`) have a
variable `scenario`, chosen in `Init` from the constant
`Scenarios` and never changed. A scenario says which calls are made and how
much may go wrong. It takes the place of several configurations: each behaviour
belongs to one scenario, and the run covers them all.

### ControlPlane

An action is a stretch of code between two accesses to state that another
task can see. Submission is three of them (`SubmitJournal` writes the record
and raises the counter, `SubmitSend` is the `try_send`, `SubmitRefused` takes
both back), the worker's loop body a dozen (`WorkerRecv`,
`WorkerCheckCancelled`, `WorkerGate`, `WorkerDispatch`, `WorkerRegister`,
execution with its three ends, `WorkerUnregister`, `WorkerFinish`,
`WorkerRespond`, `WorkerFollowUp`). `CancelRunning`, `CancelMiss` and
`CancelPersisted` are the cancel call's path over the token map and then the
journal; `ListenCheck` and `ListenArm` are the two halves of `cancelled()`.
`RetrySend` and `RetryStopped` are the detached task that owns a request while
it waits for a profile lease.

Abstracted: a request is an identity and a kind; a browser command is its set
of outcomes (`ok`, `error`, and `ok_timed_out` for a network capture, whose own
result has a `timedOut` field); time is the order of submissions and the number
of lease polls; a journal write is one step, which the repository lock
justifies, and does not fail. The two messages of the private path differ in
the count: `enqueue_private` raises `queue_depth`, a preflight
(`PreflightRequests`) takes a slot of the same channel without it.

A record of the journal need not speak of the request that asks about it. It
may have been pruned (the 200 newest are kept, while 256 requests fit the
channel), or another request with the same id may have written it: an id is the
caller's, and the one the CLI makes is the time modulo a million microseconds
(`commands.rs:64-73`). `lost` is the history of this, and `Owns(r)` says that
the record is still `r`'s. `AnswerAgreesWithJournal`, `ParkedCancelHolds` and
`SettledNeverRewritten` are stated for as long as it is; what happens
afterwards is among the disagreements below.

Bounds: `Capacity` (256 in the code) and `MaxJobs` (200) are parameters;
`MaxWaits` stands for the lease wait timeout and `MaxCancels` bounds the cancel
calls of a run. With a channel of one, a second request already finds it full,
and a parked one competes with a fresh one for the slot. `control_plane_jobs`
retains two records for three jobs, so that records are pruned under requests
in every position.

### PrivacyGate

The gate directory is a record of what its files say (`disk`), together with
what the last successful fsync made safe (`durable`). Locks are not variables:
as with `flock`, they follow from who holds an open descriptor, that is from
the program counters. `WriteSynced` and `WriteUnsynced` are the two outcomes
of a write followed by a directory sync. `CreateTemp`, `RenameState` and
`SyncState` are the steps of `write_gate_state`; what follows depends on what
the write is for (`purpose`). `DropPermit` is a dropped permit, an error path
or a dead process at any of these steps. `PowerFails` kills everything and
leaves some mixture of `disk` and `durable`. Epochs, random in the code, are
numbered in the order in which they are drawn, so "later" can be said.

Abstracted: encryption, file names and contents, inode checks (one endpoint and
one directory), the limit on the number of files. A permit's target and digest
are its stage: the code compares both with the record in the same test.
`BrowserAnswers` and `PowerFails` are external.

Two observations, neither a finding. `resume_private` reattaches to whatever
epoch the record names, also to one whose first sync had failed, but its only
caller (`private_recovery.rs:201-208`) accepts nothing but an epoch with an
intent on file at the last stage, and `ResumePrivate` models the two together;
`PermitLockDurable` needs it. And `finish_private` is called by tests only so
far: the model includes it as its comment describes it, called once cleanup has
been verified.

Bounds: two connections, commands, private tasks and epochs as in
`PrivacyGate_epochs.cfg`: one epoch to be finished or lost and one after it,
with work of before, between and after. Connections, commands and tasks are
interchangeable, so symmetry is sound.

### ServiceStore

A call of `load_snapshot`, `mutate` or `try_mutate_durable` is a walk of `pc`:
`TakeMutex`, `TakeLock`, `ReadState` and `ReadRegistry` (the two halves of
`load`), `Mutate`, `SaveRegistry` and `SaveState` (the two renames of `save`)
and, for a durable call, `SyncFiles`. A durable call gives up where an ordinary
one waits. `StorageFails` and `MutatorFails` are the error returns; a mutator may
also panic and poison its process's mutex. `Kill` ends all calls of a process.
The guards of mutex and lock file live as long as their call, so who holds
them is read off `pc` (`Holding`). `LegacyRead` and `LegacyWrite` are a release
from before the registry, which takes no lock and drops the hand-offs.

`stateLeft` and `registryLeft` are the contents a power failure may leave: all
that was renamed into place since the last sync. `owed`, `owedHandoff`, `safe`,
`safeHandoff` and `version` are history: what callers were told. A release
without the lock may undo ordinary mutations (that is why the registry
exists), so `NoLostUpdate` speaks of the time before it has written;
`HandoffKept` has no such condition.

Abstracted: a state is the set of mutations it contains and the version of one
hand-off (hand-offs are independent entries of one map, and nothing in the code
removes one); a rename is atomic. A save renames a file it has not synced
(service_store.rs:193-201, 357-364), and what a power failure leaves of it is
taken to be the old file or the new one, whole; that is the file system's
behaviour and not the code's (`load` of a file cut short would fail). Temporary
files carry the process id and are written under the lock, so they are part of
their rename; the second attempt at a rename that finds its directory gone is
part of `SaveState`.

Bounds: a reader, two ordinary calls and a durable one in two processes (which
wait for each other at the mutex and at the lock file), one legacy writer, one
power failure. Lost updates need two writers, a torn snapshot one writer and
one reader, a lost durable commit one durable call over an unsynced one.

### CdpTransport

A command is `Start` (it draws its id), `Acquire` (with the sink's guard in
hand it registers in the pending map), `Written` or `WriteFails`, and then
`Receive`, `ChannelClosed` or `Timeout`; `Cancel` drops its future at any
await. A raw message takes the same sink without a registration.
`ReaderDelivers` and `ReaderEnds` are the reader task, `KeepaliveStep` and
`KeepalivePinged` the keep-alive task, and `TaskStops` the effect of `abort()`
or of a panic. A shutdown is `CloseBegin`, `CloseTakesSink`, one `CloseJoins`
for each task and, when its three seconds are over, `CloseGivesUp` at any of
them; what it had done stays in the shutdown record for the next one. The
sink's mutex is read off the program counters. `BrowserAnswers` and
`ConnectionLost` are external.

Abstracted: payloads; events, which are broadcast and touch nothing of this
state; the gate's leases, which are in `PrivacyGate`. Bound: `MaxCalls` calls
out of two commands, a raw message and two shutdowns for different permits. Any
three of them interfere pairwise and with the tasks; a stale response needs two
commands, a resumed shutdown two shutdowns and a holder of the sink.

Fairness: tasks that are ready are polled and tokio's mutex is first come first
served, so calls advance (`FairSpec`). Nothing makes a socket take what is
written, so `Written` and `WriteFails` have no fairness. `EveryCommandEnds`
therefore says where a command that never ends must stand: before or in its
write, with the sink taken for good. A deadline that is forgotten, a refusal
that keeps the sink, or a registration cleared without its channel would leave
it elsewhere.

### PrivateJourney

A run is one connection at the coordinator's socket. Its actions follow the
code from `StageHandoff` and `Claim` through the four operations
(`AdmitOperation`, `ExecuteDom`, `StoreOperation`, `AdvanceTarget`), the
sanitized page and the acknowledged detach, the reconciliation
(`PrepareIntent`, `RetainAuthority`, `AdmitIntent`, `CommitBroker`,
`StoreCompletion`) to the delivery (`AdmitDelivery`, `SendKey`, `ReadAck`,
`CompleteDelivery`). Every store operation creates a receipt that must not
exist; it runs under the store's exclusive lock, so it is one step with three
outcomes: written and synced, refused, or broken off with a partial or an
unsynced receipt. `Fail` is an error or a death anywhere. `RecoverReads`,
`RecoverResumes`, `RecoverCommits`, `RecoverCompletes` are `recover()`, and
`PowerFails` loses what was not synced.

Abstracted: handles, origins, digests, page contents and the socket protocols
are checks that pass or fail; references are random and known only once their
payload is synced, so payloads are left out; every run has a browser of its
own, as the gate (modelled in `PrivacyGate`) admits one epoch for one browser.
That one consent is used for one browser run only is not stated.

Bounds: two connections for one plan and a third whose plan has another consent
and the same backup code; one caller of `recover()`; one power failure. A plan
claimed twice and a code typed twice need two runs. There is no liveness here:
nothing is retried, so a run may stop anywhere, and deadlock is not checked.

### DaemonLifecycle

A client is a call of `ensure_daemon` (`EnsureStep`) followed by one of
`send_command` (`SendStep`); a daemon starts (`StartStep`), serves
(`ServeStep`) and stops (`StopStep`). Every access to a shared file is a step:
the order of writing (`WriteOrder`) and of removing by clients (`CleanOrder`)
and daemons (`RemoveOrder`) is the code's. A file's content is the number of
the daemon it speaks of, which is also its token; `Orphan` is the token written
for a daemon that could not be spawned. Browsers are numbered as launched;
`record` is the hand-off descriptor, with the client that asked for it.

A command of a client (`Work`) that finds no browser launches one, attaches to
one that was launched before (a retained or shared-profile browser) or fails.
Preparing a hand-over fails when the CDP connection is not alive or the
descriptor cannot be written (`PrepareFails`); the descriptor is replaced by a
removal (`RemoveOldRecord`) and a rename (`WriteRecord`); and a resume that
cannot remove it afterwards answers all the same (`RemoveRecord`).

Abstracted: pid, version and hash files are removed in one step and read in one
step; the 150 ms after which a client looks again outlast the 100 ms exit delay
of a handler (`seen`); writing and binding the stream port is one step; a
daemon has one exit handler at a time; the startup lock's holder does not die.
A dead process and a finished call forget their fields, which keeps states
small and hides nothing. Not modelled: `close --all`, the Windows port file,
and how signals reach the accept loop (a stop by signal is an idle stop).

Scenarios: `Replacing` (two builds take turns, starts may be late),
`ColdBesidePrepare` (a cold start beside a hand-over request, a crash and an
idle stop), `InTime` (a replacement and a close when starts are in time). Each
has two clients, two or three daemons and two tries of `send_command` (five in
the code: the retries differ in nothing but their number). That calls come to
an end is not checked: a liveness check of this state space does not finish in
reasonable time, and each wait in `ensure_daemon` has its own deadline
(`LockTimeout`, `PollTimeout`, `ReadTimeout`).

`ResumedWhatWasHanded` is about the client that replaces a daemon: when it is
told that the replacement has resumed its hand-over, the browser it goes on with
is the one that was handed over, although in between other clients may have
made the replacement launch a browser, attach to one, resume, or hand over in
turn. There is one descriptor for a session. When a hand-over which another
client asked for has written it since, it names that client's browser and the
property says no more. It holds in every scenario, for any number of clients
(see the proofs).

### TaskConfirmations

One file write is one step, since files are written beside their place and
renamed; an operation of several writes is several steps of `op`. `StageControl`
and `StageWrites` stage a control, `Expire` is the passing of its deadline,
`Decide` confirms or denies (with a Boolean for whether the decision fits what
was staged), `RemovePending` and `RunReturns` follow a confirmation, `Preview`
and `Apply` with `PersistSegment`, `PersistManifest` and `RemoveReceipt` are
the cleanup. `BreaksOff` is a failed write or an abandoned command and `Crash`
the death of the daemon, at every step of `op`. `StageOther` is a confirmation
of any other action, which lives in memory only.

Archiving compares the whole record with the receipt already on file and not
its state alone: a pending record that was staged again under an id which
expired before differs from it in its times (`at`), and its own expiry then
fails.

Abstracted: digests, actors and URLs are equal or not; ages are the order of
staging. Bounds: three ids, one retired in a legacy file, segments of one id
(256 in the code) so that a second id already needs a new segment, three
stagings, two interruptions.

Fairness: an operator who goes on previewing and applying (strong, since other
commands come in between), and a worker that completes what it does. It is
assumed for `CleanupFinishes` only.

### TaskAuthority

`Submit` is a command under an authority: it is refused, stages a confirmation
in memory, or is admitted, which writes its receipt. `Confirm` runs the staged
command with policy and confirm list set aside. `BrokerCommand` and
`BrokerGone` are the broker transport. `Finish` records the outcome,
`FinishUnwritten` fails to; `Drop` abandons a command while it runs (its job
was cancelled or timed out) and `Crash` kills the daemon. `Issue`, `Revoke`,
and the three writes of a reconciliation (`ReconcileRevokes`,
`ReconcileReplaces`, `ReconcileCompletes`, with `ReconcileResumes` for a
repeated request) are the controls, taken as confirmed. `Drift` is a change of
the active target from outside.

Every request of a reconciliation, a repeated one too, is refused unless the
browser is at the target the request names; a replacement that is already there
is read first, and the request fails when its ledger cannot be read. The
receipt of a step remembers how it was admitted (`how`), at which target (`at`)
and for which target its confirmation was asked (`asked`).

Abstracted: a target and its URL are one value; labels, expiry and evidence
budgets can only refuse; a replacement's id, a digest in the code, is its
predecessor and its request; all authorities of a scenario have one plan and one
ceiling (`allowed`: read-only, or the one an issuance asked for).

Scenarios: `Interrupted` (two reads, two request ids, two interruptions and an
abandoned command), `SharedId` (two authorities with an explicit ceiling, two
requests with one id), `Wandering` (a reconciliation whose page comes and goes),
`Confirming` (a policed step and one above the ceiling, two authorities, two
targets), `Abandoned` (two steps above the ceiling, so that what a confirmation
leaves behind can be used, and a confirmed command that may be abandoned).

Fairness, for `ReconciliationResumes` only: the caller of each authority goes
on repeating its request (strong, as other commands come in between and the page
may be elsewhere for a while) and the worker goes on. A reconciliation that
stays pending is then one that is refused for good.

### RemoteViewRoutes

An open is `Plan` on a loaded snapshot and then the transactions `Begin`,
`Launch`, `Checkout` and `Complete`; `LaunchFails`, `ProofFails` and `Cleanup`
are its failures, which write back the records that its lease remembers.
`Close`, `ReleaseRoute`, `Repair`, `ReconcileReads` and `ReconcileWrites` (the
probe is asynchronous, so its result is merged into a state that has moved on),
`ObserveExit` and the faults (`BrowserDies`, `DaemonCrash`, `DisplayChanges`)
act on the same records. `stage` is where the open of each session stands.
`shown` is history: the entry the last open of a session returned. `Repaired`
says what the repair leaves without going through the leases one by one: of
two stale leases that remember the same record, the later one's copy stays.
The code goes through them in the order of their id strings (route, session,
time), the model in the order in which they were given out; the two can differ
when two sessions have stale leases on one entry, or one session on two.

A reconciliation probes every recorded browser. A process that runs may still
not answer within 750 ms (`CdpDisconnected`, service_health.rs:2033-2042;
`Unreachable` where no pid is recorded, 2043-2052) or not list its targets
(`Degraded`, 2073-2088); it is then not ready, and allocation, route and entry
are dealt with as if it were gone. `Probed` has a set of such browsers,
chosen at each probe where the scenario allows it (`misses`).

Abstracted: an entry, its route, its display and their allocation have one
number; a session has one browser, whose pid is the number of the open that
launched it; the allocation a launch makes for itself (`Own`) is not followed;
a plan that finds nothing is no step; restoring a missing lease is part of
`Complete`; the repair is run with both of its options and applied. Not
modelled: viewer and controller leases, hand-off records, profiles and builds,
strict recovery of retained browsers, route switching, pools given inline.

Scenarios (`MCRemoteViewRoutes`): two sessions and two entries, or one entry
where contention matters. `Calm` (three opens, one after another, and a browser
death, a display loss or a crash before the checkout), `Operated` (three opens
and a release), `Contended` (two opens that overlap on one entry, a release
that may park, repairs), `Rough` (a crash at any step, a release, forced closes
and repairs), `Unanswered` (three opens, and probes that running browsers do not
answer), `Overtaken` (commands between a reconciliation's read, which may miss a
browser, and its write). `Undisturbed` holds in the first two: opens follow one
another, a reconciliation is done before the next command, every browser that
runs answers its probes, nothing is parked, forced or repaired, and no daemon is
killed between the checkout and the end of its open.
`OwnersAgree` (the second part of `RecordsAgree`) and `OneBrowserPerRoute` are
stated for these; without any one of its conjuncts the code does not keep them,
as listed below. `RoutesTypeOK`, `LeaseFinal` and `EntryReturns` are stated for
every scenario. Fairness: an open that has begun goes on, and reconciliations
read and write again and again as long as one would change something. That is
the daemon's timer, 60 s by default. It takes a daemon that lives, and an
interval of 0 (flags.rs:1800) turns it off: entries then come back with the
next reconciliation somebody asks for, if any. No probe has to go unanswered,
although one that does frees an entry too.

## Runs

Passing:

| Run | Shows |
|---|---|
| `control_plane_jobs` | a lease-bound request, a network capture and a monitor run over a channel of one, two cancel calls, a journal of two, shutdown at any time: `QueueDepthExact`, `TokenOfRunningJob`, `AnswerAgreesWithJournal`, `ParkedCancelHolds`, `WaitEventsPaired`, `SettledNeverRewritten`, and `KeepsPromise` (refinement of `JobService`) |
| `control_plane_answers` | the channel shared with a private request and a preflight whose callers may give up: `QueueDepthExact` (the preflight is in no count), `KeepsPromise`, and `EveryCallerAnswered` under fairness |
| `privacy_gate_epochs` | `NoPublicWhilePrivate`, `CommandsDrained`, `ObserverRevoked`, `PermitSound` under process deaths, failing syncs and power failures |
| `service_store` | `NoLostUpdate`, `HandoffKept`, `SnapshotWhole` and `EveryCallReturns`, beside a legacy writer and with a power failure |
| `cdp_transport` | `EvidenceTrue` (closure is what its evidence says, and for one permit), `PendingMapSound` (no registration left behind, own answers only), `EveryCommandEnds` (nothing but a write that does not return keeps a command for ever) |
| `private_journey` | `PlanOnce`, `CodeOnce`, `IntentRecoverable`, `EffectsHaveCause` (a blank broker record, a completion and a delivery follow what must precede them) |
| `daemon_lifecycle` | `RunsHaveCause` (a command runs again only after a lost connection, a cold start's never), `QuietSessionAuthorised` (the token is that of the daemon that answers), `ResumedWhatWasHanded` (a hand-over resumes its own browser) |
| `task_confirmations` | `DispatchSound` (once, with lost results visible and one confirmation live), `LedgerVerifies`, `DecisionFinal`, `CleanupFinishes` |
| `task_authority` | `StepOnce`, `LineageSound` (one replacement with a cause, a true lineage and an id of its own), `FreshConfirmation` (a step above the ceiling is the command that was confirmed, at the target it was asked for, or comes after an abandoned confirmation), `ReconciliationResumes` (a repeated request completes unless it is refused for good) |
| `remote_view` | `RecordsAgree` (the records keep their types, an open its own lease, and allocation and route name one owner), `OneBrowserPerRoute` (the entry of a running browser is shown to and given to nobody else), `LeaseFinal`, `EntryReturns` |

Violations, each of a sentence of the repository's README (quoted in
`PROJECT.json`):

| Run | Shows |
|---|---|
| `cancel_race` | a cancellation acknowledged between the worker's look at the record and its dispatch does not stop the job |
| `lost_wakeup` | a cancellation between the listener's check and its registration is never seen |

Fairness of the older modules (`FairSpec`): connection tasks and the worker are
weakly fair, as the runtime polls every ready task. A retry task is strongly
fair when the channel has room: tokio hands out permits first come first
served. Nothing makes a browser command return, so `ExecuteReturns` is not fair
and `EveryCallerAnswered` is checked for requests with a job timeout. In
`ServiceStore` the fault-free steps of each call (`Advance`) are weakly fair: a
call is a thread that goes on when the operating system grants it the lock, and
in a run only finitely many others can be granted it before. Errors are never
relied on to end a wait. Deadlock is checked where the system should not stop
(`ControlPlane`, `PrivacyGate`, `ServiceStore`, `CdpTransport`); `Quiescent`
marks the states in which nothing is left to do. The other modules are made of
calls that may be refused for good, so their behaviours may stop.

### Disagreements no run stands for

Further statements of comments and documents which the code does not keep. Each
was found by TLC; the properties are at the end of their modules, or are those
of the runs without the condition named here. To see one, check it as the
only property with the constants given. `Plain`, `Calm` are the records of the
MC modules. These disagreements are the reason for the conditions with which
the properties of the passing runs are stated.

- `ParkedCancelHolds` without `Owns`, with `ControlPlane_jobs.cfg`.
  prune_service_jobs (service_jobs.rs:89-103) keeps the 200 newest records
  whatever their state, while 256 requests may be queued. When the cancelled
  record of a queued job is pruned, service_job_cancelled
  (control_plane.rs:1138-1140) finds nothing and the job is dispatched. The same
  happens with three records and two requests under one id: the later
  submission writes `queued` over the cancelled record. README.md:2919 says
  "Use `service cancel <job-id>` to mark a queued or lease-waiting service job
  cancelled before it dispatches".
- `AnsweredIsTerminal`, with `ControlPlane_jobs.cfg`. The worker takes
  /data/timedOut of any response for its own timeout
  (control_plane.rs:1780-1793) and then does not write a terminal record; the
  network capture command answers success with data.timedOut = true when its
  window closes (actions.rs:10281). The record stays `running` for good.
  README.md:31 says "Exit 0 means observed idle, 2 means nonterminal jobs": an
  idle worker keeps reporting a nonterminal job.
- That a command ends (`pc[c] # "new" ~> pc[c] \in Ends`), with
  `CdpTransport.cfg`. native/cdp/client.rs:438 says of
  send_command_with_timeout "Sends one CDP command with a caller-selected
  transport deadline." The timeout is put around the response channel alone
  (client.rs:656); the wait for ws_tx (635) and ws_tx.send(...).await (647) have
  none. The counterexample shows a command that holds the sink in a write the
  socket never takes and a second one that waits for the sink, neither of which
  ends. `EveryCommandEnds` says that there is no other way.
- `DurableIntentFirst`, with `PrivateJourney.cfg`.
  native/private_journey.rs:104 says "A durable intent precedes broker
  changes". recover() (private_recovery.rs:165) takes the status "admitted"
  from the presence of the receipt and never syncs it, so a receipt left by a
  process that was killed between open and fsync counts; the broker change that
  follows is synced (try_mutate_durable, private_recovery.rs:209) and the
  receipt may not be. The counterexample shows the broker blanked and the
  intent back at "staged" after a power failure; from then on recover() refuses
  it.
- `RetiringSparesReplacement`, with the scenario `Plain` with `slow` false,
  three daemons, one browser, one stop. handle_connection removes the session's
  .stream file after it has answered runtime_handoff_prepare, with no test of
  ownership, while the client that got the answer may already have started a
  replacement which bound the path and wrote that file; the removals at
  native/daemon.rs:284-301 likewise come after, not with, the test. The comment
  at native/daemon.rs:277 says "A retiring executable-handoff daemon must not
  delete artifacts written by its replacement after the shared session path has
  been rebound."
- `ReadyIsNotLeaving`, with the same with both clients of the new build. The
  second connect, 150 ms after the first, succeeds while the daemon is in
  shutdown_control_plane_bounded (up to 2 s, listener still open,
  native/daemon.rs:33 and 399-418), and the client reports a running daemon
  whose connections will be dropped. The comment at connection.rs:694 says
  "This handles the race condition where daemon is shutting down (daemon has a
  100ms shutdown delay, so we wait longer)".
- `LoserUsesWinner`, with the same with `slow` true. run_daemon redirects its
  stderr to /dev/null (or to the log file) before it binds
  (native/daemon.rs:106-139), so "Failed to bind" never reaches the pipe the
  client reads and the branch that looks for it is never taken: the call fails
  with the winner running. The comment at connection.rs:947 says "If the daemon
  failed because another instance won the bind race ... check whether that
  winner is now accepting connections and piggyback on it."
- `QuietSessionAuthorised` without `~scenario.slow`, with `DaemonLifecycle.cfg`.
  A client gives up after 15 s (connection.rs:886) and leaves its child running;
  the next client removes the files, writes a token of its own and starts
  another daemon. The late one then removes the socket in its way and binds
  (native/daemon.rs:176-197) with the token it was started with, so that every
  client of the session is refused although a daemon answers. The first client
  was told "Daemon failed to start" (connection.rs:1015).
- `CleanupFinishes` without `Spoiled`, with `TaskConfirmations.cfg` with `Ids =
  {1, 2}`, no legacy id, `SegmentCapacity = 2`, `Restage = FALSE`, two stages,
  one break. cleanup retires the candidates (native/task_authority.rs:1387) and
  then removes their receipts one by one (:1396). After a crash or a failed
  removal in between, the remaining receipts are candidates again and
  persist_confirmation_tombstones refuses their ids as "invalid or repeated":
  no cleanup of the session gets past them. The plan,
  src/docs/dev/plans/0112-2026-08-14-authenticated-confirmation-principal-retention-plan.md:11,
  says "provide bounded, audited terminal receipt cleanup without weakening
  restart or replay safety".
- `NothingPendingAfterCommit`, with `TaskConfirmations.cfg`. decide archives
  the receipt and then removes pending.json; a stop in between leaves both.
  stage_task_authority_confirmation reads pending.json itself
  (native/task_authority.rs:1012), so it answers "is still pending" and, after
  the expiry, fails in archive_confirmation, until
  load_task_authority_pending_confirmation happens to run. The note,
  src/docs/dev/notes/2026-08-14-durable-task-authority-confirmation.md:21, says
  "A process stop after that commit therefore leaves an indeterminate receipt
  and no pending command."
- `RetiredNotReused`, with `TaskConfirmations.cfg`. The id is looked up before
  the expired record in the way is archived (native/task_authority.rs:1024):
  when that record has the same id, a new record is written for an id that now
  has a receipt. It cannot be decided while the receipt is there, and once a
  cleanup with a short minAgeSeconds has retired the id it can. The plan,
  src/docs/dev/plans/0112-2026-08-14-authenticated-confirmation-principal-retention-plan.md:42,
  says "removed confirmation IDs remain non-reusable".
- `FreshConfirmation` without the alternatives about `AbandonedSteps`, with the
  scenario `Abandoned`. handle_confirm sets confirmed_task_authority_id and takes
  the policy and the confirm list, awaits execute_command, and puts them back
  after the await. The worker drops that future when the job is cancelled or
  times out (native/control_plane.rs:1718-1737), so none of them is put back
  until the daemon restarts. The comment at native/actions.rs:26347 says
  "Temporarily remove policy and confirm_actions to avoid re-triggering
  confirmation", and the one at native/task_authority.rs:1692 "navigation
  remains above the read-only consequence ceiling and therefore requires a
  fresh target confirmation".
- `LedgerReadable`, with one authority, two targets, plan `<<"tab", "read">>`.
  finalize_task_authority_step records the target that is active after the
  command. A plan may hold tab_new or tab_switch (native/policy.rs:105), which
  change it; validate_ordered_ledger accepts an outcome only at the receipt's
  own target (native/task_authority.rs:593), so status, admission and
  reconciliation of the session then fail with "Task authority ordered ledger
  outcome is invalid". The roadmap, src/ROADMAP.md:437, says "exact response
  digests and post-action target evidence survive restart".
- `EveryExitFinalized`, with one authority, one target, plan `<<"read",
  "read">>`. After the admission of a broker command the exits "broker browser
  is unavailable" (native/actions.rs:7990) and "broker target changed" (:7996)
  return without finalizing the step, which stays indeterminate though nothing
  was sent. The roadmap, src/ROADMAP.md:435, says "one durable terminal
  finalizer now covers every ordered post-admission exit before response
  publication".
- `OwnersAgree` without `Undisturbed`, with `Rough` with three opens, no
  release, no fault. After a forced close the browser record keeps its
  displayAllocationId (native/service_health.rs:1484). The entry is freed and
  another session checks it out. The next launch of the first browser finds the
  old id in its record and upsert_browser_display_allocation (:1033-1064) sets
  the owner of that allocation without comparing the one it has, so the route
  names one browser and its display allocation another. src/README.md:2645 says
  the restart gate "verifies the route-pool entry, remote-view route, display
  allocation, browser, and Guacamole connection IDs still agree before and
  after reconcile".
- `RepairSparesShown`, with `Calm` with one entry and repairs.
  pending_acquisition_stale_reason asks whether the route, allocation or entry
  of a lease is pending, not whether they are pending for that lease (the
  readiness holds its id). While a second session re-opens on the entry, the
  older lease looks stale, and its snapshot is written over the records of a
  browser that runs. The repair's own answer says "preservesActiveReadyRoutes":
  true (native/actions.rs:22330), and
  src/docs/dev/plans/0048-2026-06-24-route-bound-finalization-deepening-plan.md
  says "Prevent a finalized route from being marked orphaned only because an
  older pending acquisition snapshot exists."
- `OneBrowserPerRoute` without `Undisturbed`, with `Calm` with two opens that
  overlap, one entry, no fault. The plan is made on a loaded snapshot
  (native/actions.rs:16141) and begin_route_bound_handoff_acquisition writes
  its reservation in a later transaction without looking at the entry again
  (native/remote_view_handoff.rs:1240), so the second reservation replaces the
  first. The checkout plans again, but by then the records name the later owner
  or are its own, and both opens return the route as theirs.
  src/docs/dev/plans/0003-2026-05-28-guac-rdp-many-to-many-viewing-plan.md:547
  says "Refuse to assign the same route to two private live browser workspaces
  unless the route is explicitly declared shared."
- `OneBrowserPerRoute` without `Undisturbed`, with `Calm` with one entry and
  `split`. merge_reconciled_service_state keeps a newer allocation or route
  only when it was released (native/service_health.rs:1906-1940); any other
  change since the read is overwritten with the reconciled copy of the older
  record. The comment of the function (:1746) says "Merge async reconciliation
  results without clobbering newer state mutations."
- `OneBrowserPerRoute` and `OwnersAgree` without `~scenario.misses`, with
  `Unanswered`. A browser that runs and misses one 750 ms probe is recorded as
  not ready (native/service_health.rs:2033-2052, 2073-2088), and the same
  reconciliation orphans its allocation and its route and frees its entry
  (2219-2366). The entry is given to another session while the browser still
  shows on it; and as its record keeps the display, its next launch writes the
  allocation as its own while the route names the other session. The plan
  quoted for overlapping opens (0003:547) and src/README.md:2645 speak against
  both.
- `OwnersAgree` and `OneBrowserPerRoute` without the other conjuncts of
  `Undisturbed`, each with `Calm` and the change named. In all of them a
  browser's record keeps an entry that another session has been given, and the
  next launch of that browser runs upsert_browser_display_allocation, as after
  the forced close above.
  * A release that parks, three opens, no fault: the release marks the
    allocation as released and leaves the browser's record on it
    (native/actions.rs:18709), so that the entry is given to the second
    session and the first one's open on the other entry takes the allocation.
  * A crash after the checkout was tried (`crashes` is `Steps`), four opens, two
    faults: the browser dies while its session opens on the other entry, the
    reconciliation orphans the old allocation, the open is rolled back, which
    puts the old entry into the browser's record again, and the daemon is killed
    before it cleans up by closing the browser.
  * Repairs, four opens, one fault: the repair rolls back the lease of an open
    that is launching; the open goes on, its checkout keeps the old readiness of
    the allocation and its lease can no longer be finalized. The display is lost
    and comes back, and the entry is given away under the browser. Or the repair
    rolls back the lease of a crashed open over the records of the session that
    has the entry now (`RepairSparesShown` above).
- `ReservationHolds`, with `Calm` with two opens, one entry, no fault. While an
  open launches its browser there is no ready browser record, so
  reconcile_remote_view_state orphans the pending allocation and route and
  frees the entry (native/service_health.rs:2219-2366) without reading the
  acquisition leases; another session may take it.
  src/docs/dev/plans/0048-2026-06-24-route-bound-finalization-deepening-plan.md:149
  requires reconciliation to "Distinguish: ... pending acquisition; ... stale
  orphan".

## Proofs

`ControlPlaneProofs` proves, for every finite set of requests and jobs, every
capacity, retention and bound:

- `TypeCorrect`, `QueueDepthCorrect`, `TokenCorrect`: `Spec => []P` for
  `TypeOK`, `QueueDepthExact` and `TokenOfRunningJob`.
- `WaitsArePaired` (`WaitEventsPaired`), and `ControlPlaneKeepsPromise`
  (`KeepsPromise`): every step is a step of `JobService` or none.
- `AnswersAgreeWithJournal` (`AnswerAgreesWithJournal`), `ParkedCancelsHold`
  (`ParkedCancelHolds`) and the action property `SettledIsFinal`
  (`SettledNeverRewritten`), for any assignment of ids to requests and any
  retention.

The argument: every action makes one of six moves of a request (stay, move
from one place to another, be received, be parked, leave the retry task, or
the shutdown message), which `StepIsFlow` shows once per action. The invariant
is preserved once per move. `QueueDepthExact` is not inductive by itself: that
taking a request out of the channel lowers its count by one needs that the
request is in no other place and not twice in the channel, so the inductive
invariant is `TypeOK /\ OnePlace /\ QueueDepthExact`. (`OnePlace` is no property
of its own: in the code a request is moved and cannot be in two places. The
model has to be shown to keep to that.) `QueuedAppend` and
`QueuedTail` say what the channel's two operations do to the set of queued
requests.

On top of the places comes `Service`: a request that is outside the worker, or
that the worker has not dispatched, is neither executed nor answered (except by
the end of a stopped worker's channel), one that is being executed is not
answered yet, and the wait of a request that the gate let pass is over. It
gives the guards of `JobService`'s steps (not accepted, not started, not told,
nobody executing), which none of the control plane's own guards states.

The theorems about the journal have no hypothesis on ids or retention. What
they need is in `Owns`, which a step may only take away: a write of the journal
changes one record, prunes others, or puts a new request's record in the place
of an old one, and `lost` names every request that had a record there. The
invariant `Journal` gives, for a request that owns its record, the state of the
record by the place the request is in: undecided, running, as the outcome says,
as the answer says. `ParkedIsHeld` adds that such a request whose cancellation
was acknowledged while it was parked is at most at the worker's check.

`PrivacyGateProofs` proves, for any sets of connections, commands and tasks and
any number of stages and epochs:

- `GateTypeCorrect` (`TypeOK`), `GateStaysClosed` (`NoPublicWhilePrivate`),
  `PublicWorkDrained` (`CommandsDrained`), `OldObserversRevoked`
  (`ObserverRevoked`), `PermitsSound` (`PermitSound`, that is `PermitCurrent`
  and `PermitLockDurable`).

The inductive invariant has thirteen parts. The central ones: `Remembered`
(an epoch that was handed out and not finished is the one on record, both on
disk and in what a power failure would leave), `OnRecord` (whatever the browser
may still execute has a receipt, or the uncertainty mark, on disk and durably),
`Quiet` (while the gate is closed nothing public is under way), and `Written`,
`Drawing`, `Rewriting` (what the record says between the steps of a write).
Public steps leave the private side alone and the other way round
(`PublicFrame`, `PrivateFrame`), and a power failure chooses between two states
that both satisfy the invariant.

`ServiceStateProofs` proves of `ServiceStore`, for any sets of calls, processes
and legacy writers and any number of power failures:

- `StoreTypeCorrect` (`TypeOK`), `UpdatesKept` (`NoLostUpdate`),
  `HandoffsSurvive` (`HandoffKept`), `SnapshotsSound` (`SnapshotWhole`).

None of the three is inductive. `Alone` says what the lock gives: a writer that
holds it is the only holder. From it follow `Fresh` and `Recent`, that what the
holder has in memory is at least as recent as both files, so that saving it
loses nothing; `Kept` and `Shown` say the same of the files against what was
acknowledged, and of all a power failure may leave against the last durable
call. For snapshots, `Published` (a mutation is seen outside its call only once
its registry entry is saved) and `Whole` (no state in a file, in memory or in a
legacy writer's hand contains a mutation whose hand-off the registry lacks)
carry the order of the two renames.

`ServiceStateProofs` also proves of `RemoteViewRoutes`, for any finite sets of
sessions and entries and any scenarios with any number of opens, faults and
releases:

- `RecordsAgreeAlways` (`RecordsAgree`), `RoutesExclusive`
  (`OneBrowserPerRoute`) and the action property `LeasesFinal` (`LeaseFinal`),
  all from `RoutesInvariance` (`RoutesSpec => []RoutesInductive`).

`RoutesInductive` is `RoutesBase /\ Ownership`. `RoutesBase` holds in every
scenario: the types, those of the state a reconciliation carries among them, and
`LeasesInOrder` (leases are given out in the order of the opens, and an open
past its reservation has one of its own). `LeaseFinal` needs no more: of the
transactions only the reservation writes a lease that is not reserved, and the
one it writes is new.

`Ownership` is the argument of the undisturbed scenarios. That the entry of a
running browser is refused to others (`OneBrowserPerRoute`) is a statement about
the allocation of that entry, so `Running` says that the allocation of a shown
entry is the session's and in use. What could take it away is another open, a
rollback, a close or a reconciliation. Against opens: `Single` and
`EntryUncontested`, what the plan ruled out and no later step undoes. Against
rollbacks: `Reversible`, that the records in an open's lease are as good as the
ones they would replace. Against closes and launches, which find their
allocation through the browser's record: `Placement`, that a browser's record
stands on a display whose allocation is the session's. `Paired`, that allocation
and route name one owner even when they are no longer in use, is stronger than
`OwnersAgree` and what makes it inductive. A reconciliation that has read and
not written carries a second state, of which all this must hold as well;
`Follows` relates the two.

The proof has three layers: per transaction the fields it changes and their
types (`...Fields`), per action one lemma that it keeps `RoutesBase`
(`...Base`) and one that it keeps `Ownership` (`...Owners`), and the
case split over `RoutesNext`. `NoRecordAssumption` says that the value which
stands for a missing record is not itself a record.

`CdpTransportProofs` proves `EvidenceCorrect` (`EvidenceTrue`) and
`PendingMapCorrect` (`PendingMapSound`) for any finite sets of commands, raw
messages and shutdowns. Added to the two: `Numbered` (the counter has passed
every id that was drawn, and no two commands drew the same), `Posted` (a oneshot
channel holds the response to its own command, which is then out of the map)
and `Shut` (what a shutdown at each of its steps has already done: sealed under
its own binding, taken the sink, joined a task). `Shut` is what makes a
shutdown that was interrupted and taken up by another call sound.

`PrivateJourneyProofs` proves `PlanOnceHolds` (`PlanOnce`), `CodeOnceHolds`
(`CodeOnce`), `IntentIsRecoverable` (`IntentRecoverable`) and `EffectsAreCaused`
(`EffectsHaveCause`) for any finite set of runs, any assignment of plans,
consents, sources and codes, and any number of power failures. A failure erases
where a run stands, so the invariant reads off the synced receipts what a run
has passed: `Claims` (a run with an epoch has its plan's receipt synced, and
nobody else has that plan), `Codes` (the same for the two receipts of a code),
`Journeys` (what stands behind a run at each of its steps, and what recovery
will find) and `Recoveries` (a recoverer has read an admitted intent, and the
run it recovers no longer holds its permit).

`TaskConfirmationsProofs` proves `DispatchIsSound` (`DispatchSound`),
`LedgerAlwaysVerifies` (`LedgerVerifies`) and the action property
`DecisionsAreFinal` (`DecisionFinal`) for any finite set of ids, any segment
capacity and any number of interruptions. `Working` says what each operation in
progress may rely on, `Traced` that an id which was dispatched has a receipt or
is retired and is not pending, `OtherAlone` that a confirmation of another
action was staged with nothing pending. `Ledger` says that the segments which
the manifest counts, and those which the manifest being written counts, are
full, disjoint and chained to its head; left-over segments of a persist that
broke off are beyond the count. The verifier's count of ids needs the
cardinality of a union of segments, by induction over the segments: since an
induction theorem cannot be applied here, the step is taken on a least
counterexample (`LeastExists`, from the well-foundedness of `<`).

`TaskAuthorityProofs` proves `StepsRunOnce` (`StepOnce`), `LineagesAreSound`
(`LineageSound`) and `ConfirmationsAreFresh` (`FreshConfirmation`) for any plans,
ceilings, policies, request ids and targets, and any number of authorities,
interruptions and abandoned commands. `Filed` (a ledger holds the receipts of
the plan's first steps, in order) and `Receipted` (whatever was dispatched has
its receipt) make a step's second dispatch impossible; `Reconciled` and `Held`
carry the three writes of a reconciliation (a reconciliation under way is the
one recorded with its predecessor, which is revoked); `Scoped` says that an
authority counts as confirmed only while its confirmed command runs, or after
one of its confirmed commands was abandoned.

`DaemonLifecycleProofs` proves `RunsAreCaused` (`RunsHaveCause`),
`QuietSessionsAreAuthorised` (`QuietSessionAuthorised`) and `HandOversAreResumed`
(`ResumedWhatWasHanded`) for any set of clients, and any scenario with any number
of daemons, browsers, crashes, stops and tries. `Counted` relates a command's
runs to the connections it lost, `Locked` says that the startup lock is held by
exactly the client inside `ensure_daemon`, `Unused` that a daemon that starts
has no command yet, and `Watched` that, when starts are in time, a daemon that
has not bound is the child its client waits for under the lock, and that the
token is that of the daemon on the path except while a client removes the
files. `Watched` is the strengthening that `QuietSessionAuthorised` needs: the
token is written by the client and the socket by the daemon.

The hand-over has a layer of its own on top of these, `HandedOver`. A client's
answer, the browser it remembers, the descriptor and the step of the daemon's
worker are four places, and each of them changes while the others wait. `Asks`
says which of a client's fields may be set at each of its steps, `Serves` that
the command in a worker is one whose client still waits for it on that
connection, or has failed. `Named` and `Given` then say that, while a client's
own hand-over is the last that wrote the descriptor, descriptor, answer, worker
and client name the same browser.

Assumptions: those named in the modules (`RequestsAssumption`,
`JobsAssumption`, `BoundsAssumption`, `ShutdownAssumption`, `GateAssumption`,
`StoreAssumption`, `TransportAssumption`, `JourneyAssumption`,
`LifecycleAssumption`, `ConfirmationAssumption`, `AuthorityAssumption`,
`RoutesAssumption`, `NoRecordAssumption`), which
TLC evaluates in every run of their module: sets are finite, bounds are natural
numbers, scenarios are of their type and the values that stand for "none" are
not among the values.

Model-checked only: the liveness properties (`EveryCallerAnswered`,
`EveryCallReturns`, `EveryCommandEnds`, `CleanupFinishes`,
`ReconciliationResumes`, `EntryReturns`), as liveness under fairness is out of
the prover's reach.

## Not modelled

`PROJECT.json` gives a reason for each component without a module. What is
left of this repository is for the most part translation in one thread:
parsing and formatting (`commands.rs`, `output.rs`, `mcp.rs`), the several
hundred browser commands of `actions.rs`, each a sequence of calls into a
browser, HTTP and WebSocket front ends, clients of external drivers, and
recomputations of views over the service state. These are by far the most of
its lines, and a model of them would say again what the code says. Two parts of
them do share state between actors and are planned below.

Within the modelled parts: browser-health refresh and the periodic
reconciliation of records other than the remote-view ones; writes of the
journal that fail; the rules by which a profile lease is granted, which are a
free choice of `WorkerGate`; what the sections above list under "Not modelled"
and "Abstracted".

## Plan

Done: `ControlPlane` with `JobService`, `PrivacyGate`, `ServiceStore`,
`CdpTransport`, `PrivateJourney`, `DaemonLifecycle`, `TaskConfirmations`,
`TaskAuthority` and `RemoteViewRoutes`, all with proofs.

1. An abstract specification of the privacy gate (public, closing, private,
   open again) and of the confirmation of a command (staged, decided,
   dispatched, settled), implemented by `PrivacyGate` and `TaskConfirmations`:
   their invariants hold what the step simulations need.
2. Viewer and controller leases of the remote view (`actions.rs:18775-19114`,
   `service_health.rs:2370-2440`): take-over, renewal and expiry beside the
   reconciliation that merges their records.
3. The supervisor of the stream server: start and stop requests that overlap.
4. An abstract store whose mutations are atomic, implemented by `ServiceStore`
   without legacy writers and power failures.
