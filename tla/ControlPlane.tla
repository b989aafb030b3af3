---------------------------- MODULE ControlPlane ----------------------------
(***************************************************************************)
(* The service control plane of one daemon: control_plane.rs with the      *)
(* persisted job journal of service_jobs.rs and the token of               *)
(* cancellation.rs.                                                        *)
(*                                                                         *)
(* Connection tasks submit requests to a bounded channel; one worker task  *)
(* receives them in order, parks those that must wait for a profile lease, *)
(* executes the others one at a time and answers through a oneshot         *)
(* channel.  A second, independent path cancels jobs by identifier: it     *)
(* either signals the token of the running job or edits the journal.  The  *)
(* runtime is multi-threaded (main.rs:58), so every step of a connection   *)
(* task interleaves with every step of the worker; one action below is one *)
(* stretch of code between two accesses to state another task can see.     *)
(*                                                                         *)
(* Abstractions: a request carries its identity and its kind only; the     *)
(* browser command is its set of possible outcomes; time is the order of   *)
(* submissions (`clock') and the number of lease polls (`waits').  The     *)
(* journal is assumed writable: what a failing store does to it is the     *)
(* subject of another module.                                              *)
(***************************************************************************)
EXTENDS Integers, Sequences, FiniteSets

CONSTANTS
  Requests,         \* every request of the run: submitted, private, monitor
  PrivateRequests,  \* requests of the private coordinator: never journalled
  PreflightRequests,\* those of private_preflight, which are not counted
  MonitorRequests,  \* requests the worker queues for itself on a monitor tick
  LeaseRequests,    \* requests bound to a profile, which may have to wait
  CaptureRequests,  \* network_capture: may report data.timedOut of its own
  TimedRequests,    \* requests with a job timeout (jobTimeoutMs or default)
  Jobs,             \* job identifiers of the journal
  JobOf,            \* the job identifier each journalled request carries
  Capacity,         \* channel capacity (DEFAULT_QUEUE_CAPACITY, 256)
  MaxJobs,          \* journal retention (MAX_SERVICE_JOBS, 200)
  MaxWaits,         \* lease polls before profileLeaseWaitTimeoutMs has passed
  MaxCancels,       \* bound: cancel calls in a run
  None              \* not a request

JobRequests == Requests \ PrivateRequests
ClientRequests == JobRequests \ MonitorRequests

ASSUME RequestsAssumption ==
  /\ PrivateRequests \subseteq Requests
  /\ PreflightRequests \subseteq PrivateRequests
  /\ MonitorRequests \subseteq JobRequests
  /\ LeaseRequests \subseteq ClientRequests
  /\ CaptureRequests \subseteq JobRequests
  /\ TimedRequests \subseteq JobRequests
  /\ None \notin Requests
  /\ IsFiniteSet(Requests)
ASSUME JobsAssumption == IsFiniteSet(Jobs) /\ JobOf \in [JobRequests -> Jobs]
ASSUME BoundsAssumption ==
  /\ Capacity \in Nat \ {0}
  /\ MaxJobs \in Nat \ {0}
  /\ MaxWaits \in Nat
  /\ MaxCancels \in Nat

Shutdown == "shutdown"      \* the WorkerMessage that is not a request
ASSUME ShutdownAssumption == Shutdown \notin Requests

(* JobState of service_model.rs, with "absent" for no record, and `lost',   *)
(* the requests that were journalled under this id and whose record was     *)
(* then pruned, or written over by another request with the id (history).   *)
TerminalStates == {"succeeded", "failed", "cancelled", "timed_out"}
JobStates == {"queued", "waiting", "running"} \cup TerminalStates
Record == [state : JobStates \cup {"absent"}, at : Nat, lost : SUBSET JobRequests]
Absent(lost) == [state |-> "absent", at |-> 0, lost |-> lost]

VARIABLES
  client,       \* where the submitting task of a request stands
  answer,       \* what the caller of a request was told
  queue,        \* the channel; once the worker has stopped, what it dropped
  depth,        \* ControlPlaneStatus.queue_depth
  workerState,  \* ControlPlaneStatus.state
  wpc,          \* where the worker stands in its loop body
  cur,          \* the request the worker is handling, or None
  outcome,      \* what ended the execution of cur
  listen,       \* how far the worker's cancelled() future has got
  running,      \* running_cancellations: job -> request holding the token
  token,        \* CancellationToken.cancelled of each request
  retry,        \* requests held by a spawned lease-retry task
  waits,        \* polls a request has waited for its profile lease
  waitEvent,    \* profile_lease_wait events recorded for a request
  jobs,         \* the persisted journal: job -> Record
  stamp,        \* submitted_at of each request
  clock,        \* submissions so far
  cancelPc,     \* "missed": a cancel call found no running token for the job
  cancelAck,    \* whether, and how early, a caller was told "cancelled: true"
                \* of what was last submitted under a job id
  requested,    \* jobs whose caller was told "cancellationRequested: true"
  cancels,      \* cancel calls so far
  shutdownPc,   \* the caller of ControlPlaneHandle::shutdown
  executed      \* requests whose command the worker has started (history)

clientVars == <<client, answer, stamp, clock>>
workerVars == <<workerState, wpc, cur, outcome, listen, running, executed>>
leaseVars  == <<retry, waits, waitEvent>>
cancelVars == <<cancelPc, cancelAck, requested, cancels>>
vars == <<client, answer, queue, depth, workerState, wpc, cur, outcome, listen,
          running, token, retry, waits, waitEvent, jobs, stamp, clock,
          cancelPc, cancelAck, requested, cancels, shutdownPc, executed>>

Answers == {"none", "ok", "error", "cancelled", "timed_out", "cancelled_early",
            "rejected", "full", "stopped", "dropped", "gave_up", "expired"}
Outcomes == {"none", "ok", "error", "cancelled", "timed_out", "ok_timed_out"}
WorkerPcs == {"idle", "received", "gate", "reject", "wait", "dispatch",
              "register", "execute", "unregister", "finish", "respond",
              "follow_up", "private_check", "private_execute", "closing",
              "stopped"}

ClientType ==
  /\ client \in [Requests -> {"new", "journalled", "full", "closed", "sent"}]
  /\ answer \in [Requests -> Answers]
  /\ stamp \in [Requests -> Nat]
  /\ clock \in Nat
ChannelType ==
  /\ queue \in Seq(Requests \cup {Shutdown})
  /\ shutdownPc \in {"idle", "sent", "done"}
WorkerType ==
  /\ workerState \in {"Ready", "Busy", "Faulted", "Closing", "Stopped"}
  /\ wpc \in WorkerPcs
  /\ cur \in Requests \cup {None}
  /\ outcome \in Outcomes
  /\ listen \in {"unpolled", "checked", "armed", "woken"}
  /\ running \in [Jobs -> JobRequests \cup {None}]
  /\ token \in [Requests -> BOOLEAN]
  /\ executed \subseteq Requests
LeaseType ==
  /\ retry \subseteq JobRequests
  /\ waits \in [Requests -> Nat]
  /\ waitEvent \in [Requests -> {"none", "started", "ended"}]
CancelType ==
  /\ cancelPc \in [Jobs -> {"idle", "missed"}]
  /\ cancelAck \in [Jobs -> {"none", "parked", "dispatching"}]
  /\ requested \subseteq Jobs
  /\ cancels \in Nat
JournalType == jobs \in [Jobs -> Record]

(* queue_depth is a usize: below zero it would wrap. *)
TypeOK ==
  /\ ClientType /\ ChannelType /\ WorkerType /\ LeaseType /\ CancelType
  /\ JournalType
  /\ depth \in Nat

Init ==
  /\ client = [r \in Requests |-> "new"]
  /\ answer = [r \in Requests |-> "none"]
  /\ queue = <<>>
  /\ depth = 0
  /\ workerState = "Ready"
  /\ wpc = "idle"
  /\ cur = None
  /\ outcome = "none"
  /\ listen = "unpolled"
  /\ running = [j \in Jobs |-> None]
  /\ token = [r \in Requests |-> FALSE]
  /\ retry = {}
  /\ waits = [r \in Requests |-> 0]
  /\ waitEvent = [r \in Requests |-> "none"]
  /\ jobs = [j \in Jobs |-> Absent({})]
  /\ stamp = [r \in Requests |-> 0]
  /\ clock = 0
  /\ cancelPc = [j \in Jobs |-> "idle"]
  /\ cancelAck = [j \in Jobs |-> "none"]
  /\ requested = {}
  /\ cancels = 0
  /\ shutdownPc = "idle"
  /\ executed = {}

-----------------------------------------------------------------------------
(* The journal: every write replaces the record, then prunes. *)

Present(js) == {j \in Jobs : js[j].state # "absent"}

(* Jobs that are among the oldest (submitted_at) beyond the retention. *)
Excess(js) ==
  {j \in Present(js) :
     Cardinality({k \in Present(js) : js[k].at < js[j].at})
       < Cardinality(Present(js)) - MaxJobs}

(* Requests that are journalled under job j, the writer r among them. *)
Journalled(j, r) == {q \in JobRequests : JobOf[q] = j /\ (client[q] # "new" \/ q = r)}

PruneJobs(js, r) ==
  [j \in Jobs |-> IF j \in Excess(js) THEN Absent(js[j].lost \cup Journalled(j, r))
                                     ELSE js[j]]

Write(r, st, at) ==
  LET j == JobOf[r]
      others == Journalled(j, r) \ {r}
  IN  PruneJobs([jobs EXCEPT ![j] = [state |-> st, at |-> at,
                                     lost |-> jobs[j].lost \cup others]], r)

(* persist_service_job_*: the record of request r becomes st. *)
Persist(r, st) == jobs' = Write(r, st, stamp[r])

(* persist_service_job_failed_to_enqueue keeps the submission time it finds *)
(* in the journal, and takes the present one when the record is gone.       *)
PersistFailed(r) ==
  LET old == jobs[JobOf[r]]
      now == clock + 1
  IN  /\ jobs' = Write(r, "failed",
                       IF old.state = "absent" THEN now ELSE old.at)
      /\ clock' = IF old.state = "absent" THEN now ELSE clock

(* Mutants: timed-out jobs are journalled but not answered; the tasks of a  *)
(* stopped worker end without a word.                                       *)
Answer_NotOnTimeout(r, a) ==
  answer' = IF a = "timed_out" THEN answer ELSE [answer EXCEPT ![r] = a]
Answer_NotWhenStopped(r, a) ==
  answer' = IF a = "stopped" THEN answer ELSE [answer EXCEPT ![r] = a]

Answer(r, a) == answer' = [answer EXCEPT ![r] = a]

(* Mutant: the end of a lease wait is not recorded. *)
EndWait_Silent(r) == UNCHANGED waitEvent

EndWait(r) ==
  waitEvent' = IF waits[r] > 0 THEN [waitEvent EXCEPT ![r] = "ended"]
                               ELSE waitEvent

(* Mutant: a preflight is counted out though it was never counted in. *)
CountOut_Preflight(m) == depth' = IF m = Shutdown THEN depth ELSE depth - 1

(* A received request leaves the count; a shutdown and a preflight were     *)
(* never in it.                                                             *)
CountOut(m) ==
  depth' = IF m = Shutdown \/ m \in PreflightRequests THEN depth ELSE depth - 1

(* A request handed to a retry task is counted in again. *)
Park_Uncounted(r) == retry' = retry \cup {r} /\ UNCHANGED depth   \* mutant

Park(r) == retry' = retry \cup {r} /\ depth' = depth + 1

JobCancelled_Unread(r) == FALSE   \* mutant

JobCancelled(r) == jobs[JobOf[r]].state = "cancelled"

(* The states cancel_service_job_in_repository may leave. *)
CancellableStates_Failed == {"queued", "waiting", "failed"}   \* mutant

CancellableStates == {"queued", "waiting"}

(* What persist_service_job_finished makes of a response. *)
FinishedState_Succeeded(o) == "succeeded"   \* mutant: success is not read

FinishedState(o) == IF o = "ok" THEN "succeeded" ELSE "failed"

Stopped == wpc = "stopped"
HasRoom == Len(queue) < Capacity
Queued == {r \in Requests : \E i \in 1 .. Len(queue) : queue[i] = r}

-----------------------------------------------------------------------------
(* Connection tasks: ControlPlaneHandle::submit. *)

SubmitJournal(r) ==
  /\ client[r] = "new" /\ r \in ClientRequests
  /\ client' = [client EXCEPT ![r] = "journalled"]
  /\ clock' = clock + 1
  /\ stamp' = [stamp EXCEPT ![r] = clock + 1]
  /\ depth' = depth + 1
  /\ jobs' = Write(r, "queued", clock + 1)
  /\ cancelAck' = [cancelAck EXCEPT ![JobOf[r]] = "none"]
  /\ UNCHANGED <<answer, queue, workerVars, token, leaseVars, cancelPc,
                 requested, cancels, shutdownPc>>

(* try_send: accepted, or counted out again because full or closed. *)
SubmitSend(r) ==
  /\ client[r] = "journalled" /\ r \in ClientRequests
  /\ \/ /\ ~Stopped /\ HasRoom
        /\ client' = [client EXCEPT ![r] = "sent"]
        /\ queue' = Append(queue, r)
        /\ UNCHANGED depth
     \/ /\ ~Stopped /\ ~HasRoom
        /\ client' = [client EXCEPT ![r] = "full"]
        /\ depth' = depth - 1
        /\ UNCHANGED queue
     \/ /\ Stopped
        /\ client' = [client EXCEPT ![r] = "closed"]
        /\ depth' = depth - 1
        /\ UNCHANGED queue
  /\ UNCHANGED <<answer, stamp, clock, workerVars, token, leaseVars, jobs,
                 cancelVars, shutdownPc>>

(* The refused request is journalled as failed, then its caller told. *)
SubmitRefused(r) ==
  /\ client[r] \in {"full", "closed"} /\ r \in ClientRequests
  /\ answer[r] = "none"
  /\ PersistFailed(r)
  /\ Answer(r, IF client[r] = "full" THEN "full" ELSE "stopped")
  /\ UNCHANGED <<client, stamp, queue, depth, workerVars, token, leaseVars,
                 cancelVars, shutdownPc>>

(* The worker dropped the request with its channel: the oneshot closes. *)
SubmitDropped(r) ==
  /\ Stopped /\ r \in Queued \ MonitorRequests /\ answer[r] = "none"
  /\ Answer(r, "dropped")
  /\ UNCHANGED <<client, stamp, clock, queue, depth, workerVars, token,
                 leaseVars, jobs, cancelVars, shutdownPc>>

(* enqueue_private: refused when expired; counted around the try_send.      *)
(* private_preflight: the same channel, without the count.                  *)
PrivateEnqueue(r) ==
  /\ client[r] = "new" /\ r \in PrivateRequests
  /\ \/ /\ r \notin PreflightRequests
        /\ client' = [client EXCEPT ![r] = "closed"]
        /\ Answer(r, "expired")
        /\ UNCHANGED <<queue, depth>>
     \/ /\ Stopped \/ ~HasRoom
        /\ client' = [client EXCEPT ![r] = "closed"]
        /\ Answer(r, "stopped")
        /\ UNCHANGED <<queue, depth>>
     \/ /\ ~Stopped /\ HasRoom
        /\ client' = [client EXCEPT ![r] = "sent"]
        /\ queue' = Append(queue, r)
        /\ depth' = IF r \in PreflightRequests THEN depth ELSE depth + 1
        /\ UNCHANGED answer
  /\ UNCHANGED <<stamp, clock, workerVars, token, leaseVars, jobs, cancelVars,
                 shutdownPc>>

(* The caller of a private request stops listening after 120 seconds, that  *)
(* of a preflight after five.                                               *)
PrivateGiveUp(r) ==
  /\ client[r] = "sent" /\ r \in PrivateRequests /\ answer[r] = "none"
  /\ Answer(r, "gave_up")
  /\ UNCHANGED <<client, stamp, clock, queue, depth, workerVars, token,
                 leaseVars, jobs, cancelVars, shutdownPc>>

-----------------------------------------------------------------------------
(* Cancellation: cancel_job_response and cancel_service_job_in_repository. *)

(* CancellationToken::cancel sets the flag and wakes the futures that are   *)
(* already registered; it leaves nothing behind for one that registers      *)
(* later.                                                                   *)
CancelRunning(j) ==
  /\ cancelPc[j] = "idle" /\ cancels < MaxCancels /\ running[j] # None
  /\ cancels' = cancels + 1
  /\ token' = [token EXCEPT ![running[j]] = TRUE]
  /\ listen' = IF cur = running[j] /\ listen = "armed" THEN "woken" ELSE listen
  /\ requested' = requested \cup {j}
  /\ UNCHANGED <<clientVars, queue, depth, workerState, wpc, cur, outcome,
                 running, executed, leaseVars, jobs, cancelPc, cancelAck,
                 shutdownPc>>

CancelMiss(j) ==
  /\ cancelPc[j] = "idle" /\ cancels < MaxCancels /\ running[j] = None
  /\ cancels' = cancels + 1
  /\ cancelPc' = [cancelPc EXCEPT ![j] = "missed"]
  /\ UNCHANGED <<clientVars, queue, depth, workerVars, token, leaseVars, jobs,
                 cancelAck, requested, shutdownPc>>

(* The worker has already read the record of job j as not cancelled. *)
PastCancelCheck(j) ==
  /\ cur \in JobRequests /\ JobOf[cur] = j
  /\ wpc \in {"gate", "reject", "wait", "dispatch"}

CancelPersisted(j) ==
  /\ cancelPc[j] = "missed"
  /\ cancelPc' = [cancelPc EXCEPT ![j] = "idle"]
  /\ \/ /\ jobs[j].state \in CancellableStates
        /\ jobs' = [jobs EXCEPT ![j].state = "cancelled"]
        /\ cancelAck' = [cancelAck EXCEPT ![j] =
             IF PastCancelCheck(j) /\ @ # "parked" THEN "dispatching"
                                                   ELSE "parked"]
     \/ /\ jobs[j].state \notin CancellableStates  \* repeated or refused
        /\ UNCHANGED <<jobs, cancelAck>>
  /\ UNCHANGED <<clientVars, queue, depth, workerVars, token, leaseVars,
                 requested, cancels, shutdownPc>>

-----------------------------------------------------------------------------
(* The worker: run_worker. *)

WorkerRecv ==
  /\ wpc = "idle" /\ queue # <<>>
  /\ queue' = Tail(queue)
  /\ CountOut(Head(queue))
  /\ \/ /\ Head(queue) = Shutdown
        /\ wpc' = "closing" /\ workerState' = "Closing"
        /\ UNCHANGED cur
     \/ /\ Head(queue) # Shutdown
        /\ cur' = Head(queue)
        /\ wpc' = IF Head(queue) \in PrivateRequests THEN "private_check"
                                                     ELSE "received"
        /\ UNCHANGED workerState
  /\ UNCHANGED <<clientVars, outcome, listen, running, executed, token,
                 leaseVars, jobs, cancelVars, shutdownPc>>

(* The browser is closed and the channel dropped with what it still holds. *)
WorkerStop ==
  /\ wpc = "closing"
  /\ wpc' = "stopped" /\ workerState' = "Stopped"
  /\ shutdownPc' = "done"
  /\ UNCHANGED <<clientVars, queue, depth, cur, outcome, listen, running,
                 executed, token, leaseVars, jobs, cancelVars>>

(* service_job_cancelled: the only look at the journal before dispatch. *)
WorkerCheckCancelled ==
  /\ wpc = "received"
  /\ \/ /\ JobCancelled(cur)
        /\ EndWait(cur)
        /\ Answer(cur, "cancelled_early")
        /\ wpc' = "idle" /\ cur' = None
     \/ /\ ~JobCancelled(cur)
        /\ wpc' = "gate"
        /\ UNCHANGED <<waitEvent, answer, cur>>
  /\ UNCHANGED <<client, stamp, clock, queue, depth, workerState, outcome,
                 listen, running, executed, token, retry, waits, jobs,
                 cancelVars, shutdownPc>>

(* scheduler_profile_lease_gate.  Whether another session holds the profile *)
(* and what policy the command carries is the environment's choice; only    *)
(* the wait is bounded.                                                     *)
WorkerGate ==
  /\ wpc = "gate"
  /\ \/ /\ wpc' = "dispatch"
        /\ EndWait(cur)
        /\ UNCHANGED waits
     \/ /\ cur \in LeaseRequests
        /\ wpc' = "reject"
        /\ EndWait(cur)
        /\ UNCHANGED waits
     \/ /\ cur \in LeaseRequests /\ waits[cur] < MaxWaits
        /\ wpc' = "wait"
        /\ waits' = [waits EXCEPT ![cur] = @ + 1]
        /\ UNCHANGED waitEvent
  /\ UNCHANGED <<clientVars, queue, depth, workerState, cur, outcome, listen,
                 running, executed, token, retry, jobs, cancelVars, shutdownPc>>

WorkerReject ==
  /\ wpc = "reject"
  /\ PersistFailed(cur)
  /\ Answer(cur, "rejected")
  /\ wpc' = "idle" /\ cur' = None
  /\ UNCHANGED <<client, stamp, queue, depth, workerState, outcome, listen,
                 running, executed, token, leaseVars, cancelVars, shutdownPc>>

(* Park the request in a task of its own; the worker goes on. *)
WorkerWait ==
  /\ wpc = "wait"
  /\ Persist(cur, "waiting")
  /\ waitEvent' = [waitEvent EXCEPT ![cur] = IF waits[cur] = 1 THEN "started"
                                                              ELSE @]
  /\ Park(cur)
  /\ wpc' = "idle" /\ cur' = None
  /\ UNCHANGED <<clientVars, queue, workerState, outcome, listen, running,
                 executed, token, waits, cancelVars, shutdownPc>>

WorkerDispatch ==
  /\ wpc = "dispatch"
  /\ workerState' = "Busy"
  /\ Persist(cur, "running")
  /\ wpc' = "register"
  /\ UNCHANGED <<clientVars, queue, depth, cur, outcome, listen, running,
                 executed, token, leaseVars, cancelVars, shutdownPc>>

WorkerRegister ==
  /\ wpc = "register"
  /\ running' = [running EXCEPT ![JobOf[cur]] = cur]
  /\ executed' = executed \cup {cur}
  /\ wpc' = "execute"
  /\ UNCHANGED <<clientVars, queue, depth, workerState, cur, outcome, listen,
                 token, leaseVars, jobs, cancelVars, shutdownPc>>

(* One arm of the select ends the execution; the other two are dropped. *)
EndExecution(o) ==
  /\ outcome' = o
  /\ wpc' = "unregister"
  /\ listen' = "unpolled"
  /\ UNCHANGED <<clientVars, queue, depth, workerState, cur, running, executed,
                 token, leaseVars, cancelVars, shutdownPc>>

(* execute_command returns: a result, a checkpoint that saw the token, or a *)
(* network capture that reports data.timedOut with a successful response.   *)
ExecuteReturns ==
  /\ wpc = "execute"
  /\ \/ \E o \in {"ok", "error"} : EndExecution(o)
     \/ token[cur] /\ EndExecution("cancelled")
     \/ cur \in CaptureRequests /\ EndExecution("ok_timed_out")
  /\ UNCHANGED jobs

ExecuteTimesOut ==
  /\ wpc = "execute" /\ cur \in TimedRequests
  /\ Persist(cur, "timed_out")
  /\ EndExecution("timed_out")

ExecuteCancelled ==
  /\ wpc = "execute"
  /\ listen = "woken" \/ (listen = "unpolled" /\ token[cur])
  /\ Persist(cur, "cancelled")
  /\ EndExecution("cancelled")

(* CancellationToken::cancelled reads the flag and registers afterwards. *)
ListenCheck ==
  /\ wpc = "execute" /\ listen = "unpolled" /\ ~token[cur]
  /\ listen' = "checked"
  /\ UNCHANGED <<clientVars, queue, depth, workerState, wpc, cur, outcome,
                 running, executed, token, leaseVars, jobs, cancelVars,
                 shutdownPc>>

ListenArm ==
  /\ wpc = "execute" /\ listen = "checked"
  /\ listen' = "armed"
  /\ UNCHANGED <<clientVars, queue, depth, workerState, wpc, cur, outcome,
                 running, executed, token, leaseVars, jobs, cancelVars,
                 shutdownPc>>

(* Mutant: the token outlives its job. *)
WorkerUnregister_Kept ==
  /\ wpc = "unregister"
  /\ wpc' = "finish"
  /\ UNCHANGED <<clientVars, queue, depth, workerState, cur, outcome, listen,
                 running, executed, token, leaseVars, jobs, cancelVars,
                 shutdownPc>>

WorkerUnregister ==
  /\ wpc = "unregister"
  /\ running' = [running EXCEPT ![JobOf[cur]] = None]
  /\ wpc' = "finish"
  /\ UNCHANGED <<clientVars, queue, depth, workerState, cur, outcome, listen,
                 executed, token, leaseVars, jobs, cancelVars, shutdownPc>>

(* The journal follows the response: data.timedOut is taken for the job's   *)
(* own timeout, whoever reported it, and is not journalled again.           *)
WorkerFinish ==
  /\ wpc = "finish"
  /\ wpc' = "respond"
  /\ \/ outcome = "cancelled" /\ Persist(cur, "cancelled")
     \/ outcome \in {"ok", "error"} /\ Persist(cur, FinishedState(outcome))
     \/ outcome \in {"timed_out", "ok_timed_out"} /\ UNCHANGED jobs
  /\ UNCHANGED <<clientVars, queue, depth, workerState, cur, outcome, listen,
                 running, executed, token, leaseVars, cancelVars, shutdownPc>>

(* send_response_before_follow_up: the caller is told first. *)
WorkerRespond ==
  /\ wpc = "respond"
  /\ Answer(cur, IF outcome = "ok_timed_out" THEN "ok" ELSE outcome)
  /\ wpc' = "follow_up"
  /\ UNCHANGED <<client, stamp, clock, queue, depth, workerState, cur, outcome,
                 listen, running, executed, token, leaseVars, jobs, cancelVars,
                 shutdownPc>>

WorkerFollowUp ==
  /\ wpc = "follow_up"
  /\ workerState' = "Ready"
  /\ wpc' = "idle" /\ cur' = None /\ outcome' = "none"
  /\ UNCHANGED <<clientVars, queue, depth, listen, running, executed, token,
                 leaseVars, jobs, cancelVars, shutdownPc>>

(* A private request: gone if its caller is, refused when expired or not    *)
(* bound to this browser, executed otherwise.  A preflight reads the target *)
(* and answers.                                                             *)
PrivateCheck ==
  /\ wpc = "private_check"
  /\ \/ /\ answer[cur] # "none"
        /\ wpc' = "idle" /\ cur' = None
        /\ UNCHANGED <<answer, workerState, executed>>
     \/ /\ answer[cur] = "none"
        /\ \E a \in {IF cur \in PreflightRequests THEN "ok" ELSE "expired", "error"} :
             Answer(cur, a)
        /\ wpc' = "idle" /\ cur' = None
        /\ UNCHANGED <<workerState, executed>>
     \/ /\ answer[cur] = "none" /\ cur \notin PreflightRequests
        /\ wpc' = "private_execute" /\ workerState' = "Busy"
        /\ executed' = executed \cup {cur}
        /\ UNCHANGED <<answer, cur>>
  /\ UNCHANGED <<client, stamp, clock, queue, depth, outcome, listen, running,
                 token, leaseVars, jobs, cancelVars, shutdownPc>>

(* Whatever the result, the worker is left Faulted. *)
PrivateEnd ==
  /\ wpc = "private_execute"
  /\ workerState' = "Faulted"
  /\ \/ answer[cur] # "none" /\ UNCHANGED answer
     \/ answer[cur] = "none" /\ \E a \in {"ok", "error"} : Answer(cur, a)
  /\ wpc' = "idle" /\ cur' = None
  /\ UNCHANGED <<client, stamp, clock, queue, depth, outcome, listen, running,
                 executed, token, leaseVars, jobs, cancelVars, shutdownPc>>

(* A drain tick with a live browser reports Ready again. *)
DrainTick ==
  /\ wpc = "idle" /\ workerState = "Faulted"
  /\ workerState' = "Ready"
  /\ UNCHANGED <<clientVars, queue, depth, wpc, cur, outcome, listen, running,
                 executed, token, leaseVars, jobs, cancelVars, shutdownPc>>

(* enqueue_due_monitor_run: nobody waits for the answer. *)
MonitorTick(r) ==
  /\ wpc = "idle" /\ r \in MonitorRequests /\ client[r] = "new"
  /\ clock' = clock + 1
  /\ stamp' = [stamp EXCEPT ![r] = clock + 1]
  /\ \/ /\ HasRoom
        /\ client' = [client EXCEPT ![r] = "sent"]
        /\ queue' = Append(queue, r)
        /\ depth' = depth + 1
        /\ jobs' = Write(r, "queued", clock + 1)
     \/ /\ ~HasRoom
        /\ client' = [client EXCEPT ![r] = "full"]
        /\ jobs' = Write(r, "failed", clock + 1)
        /\ UNCHANGED <<queue, depth>>
  /\ cancelAck' = [cancelAck EXCEPT ![JobOf[r]] = "none"]
  /\ UNCHANGED <<answer, workerVars, token, leaseVars, cancelPc, requested,
                 cancels, shutdownPc>>

-----------------------------------------------------------------------------
(* The spawned lease-retry task sends its request again, and is the one to  *)
(* fail it when the worker has stopped meanwhile.                           *)

RetrySend(r) ==
  /\ r \in retry /\ ~Stopped /\ HasRoom
  /\ retry' = retry \ {r}
  /\ queue' = Append(queue, r)
  /\ UNCHANGED <<clientVars, depth, workerVars, token, waits, waitEvent, jobs,
                 cancelVars, shutdownPc>>

RetryStopped(r) ==
  /\ r \in retry /\ Stopped
  /\ retry' = retry \ {r}
  /\ depth' = depth - 1
  /\ PersistFailed(r)
  /\ EndWait(r)
  /\ Answer(r, "stopped")
  /\ UNCHANGED <<client, stamp, queue, workerVars, token, waits, cancelVars,
                 shutdownPc>>

(* ControlPlaneHandle::shutdown waits for room, then for the worker. *)
ShutdownSend ==
  /\ shutdownPc = "idle" /\ ~Stopped /\ HasRoom
  /\ shutdownPc' = "sent"
  /\ queue' = Append(queue, Shutdown)
  /\ UNCHANGED <<clientVars, depth, workerVars, token, leaseVars, jobs,
                 cancelVars>>

-----------------------------------------------------------------------------
ClientStep ==
  \E r \in Requests :
    \/ SubmitJournal(r) \/ SubmitSend(r) \/ SubmitRefused(r) \/ SubmitDropped(r)
    \/ PrivateEnqueue(r) \/ PrivateGiveUp(r)

CancelStep == \E j \in Jobs : CancelRunning(j) \/ CancelMiss(j) \/ CancelPersisted(j)

(* Worker steps that the code always reaches on its own. *)
WorkerProgress ==
  \/ WorkerRecv \/ WorkerStop \/ WorkerCheckCancelled \/ WorkerGate
  \/ WorkerReject \/ WorkerWait \/ WorkerDispatch \/ WorkerRegister
  \/ ExecuteTimesOut \/ ExecuteCancelled \/ ListenCheck \/ ListenArm
  \/ WorkerUnregister \/ WorkerFinish \/ WorkerRespond \/ WorkerFollowUp
  \/ PrivateCheck \/ PrivateEnd

RetryStep == \E r \in Requests : RetrySend(r) \/ RetryStopped(r)

(* Nothing is left to do: the worker has stopped and every caller knows. *)
Quiescent ==
  /\ Stopped /\ retry = {}
  /\ \A r \in Requests \ MonitorRequests : answer[r] # "none"
  /\ UNCHANGED vars

Next ==
  \/ ClientStep \/ CancelStep \/ RetryStep
  \/ WorkerProgress \/ ExecuteReturns \/ DrainTick
  \/ \E r \in Requests : MonitorTick(r)
  \/ ShutdownSend \/ Quiescent

Spec == Init /\ [][Next]_vars

(* The runtime polls every ready task: connection tasks and the worker are  *)
(* weakly fair.  The channel hands out permits first come first served, so  *)
(* a retry task that keeps finding room gets it: strongly fair.  Nothing    *)
(* makes a browser command return, so ExecuteReturns is not fair.           *)
Fairness ==
  /\ WF_vars(WorkerProgress)
  /\ \A r \in Requests :
       /\ WF_vars(SubmitSend(r))
       /\ WF_vars(SubmitRefused(r))
       /\ WF_vars(SubmitDropped(r))
       /\ SF_vars(RetrySend(r))
       /\ WF_vars(RetryStopped(r))

FairSpec == Spec /\ Fairness

-----------------------------------------------------------------------------
(* Properties. *)

(* queue_depth, an atomic counter touched by connection tasks, the worker   *)
(* and retry tasks, counts exactly the requests that are journalled but not *)
(* sent, in the channel, or parked in a retry task: it never leaks, never   *)
(* goes below zero (usize), and after a stop it still counts what the       *)
(* channel dropped.  Preflights and the shutdown share the channel and are  *)
(* in no count.                                                             *)
QueueDepthExact ==
  depth = Cardinality({r \in Requests : client[r] = "journalled"})
            + Cardinality(Queued \ PreflightRequests) + Cardinality(retry)

(* The worker holds a job request while it works through the steps of one,  *)
(* a private request while it works on that, and nothing otherwise.         *)
Received == {"received", "gate", "reject", "wait", "dispatch", "register",
             "execute", "unregister", "finish", "respond", "follow_up"}
CurMatchesPc ==
  /\ wpc \in Received => cur \in JobRequests
  /\ wpc \in {"private_check", "private_execute"} => cur \in PrivateRequests
  /\ wpc \in {"idle", "closing", "stopped"} => cur = None

(* The channel holds no message twice, and a Shutdown only once it is sent. *)
QueuedOnce ==
  /\ \A i, k \in 1 .. Len(queue) : queue[i] = queue[k] => i = k
  /\ shutdownPc = "idle" => \A i \in 1 .. Len(queue) : queue[i] # Shutdown

(* The channel, the retry tasks and the worker hold different requests, and *)
(* only requests that their connection task has handed over.                *)
PlacesDisjoint ==
  /\ \A r \in Queued : client[r] = "sent" /\ r \notin retry /\ r # cur
  /\ \A r \in retry : client[r] = "sent" /\ r # cur
  /\ cur # None => client[cur] = "sent"

(* A request is in one place at a time: with its connection task, in the    *)
(* channel (once), in a retry task, or in the worker's hands.  Rust's moves *)
(* give this of themselves; the proofs need it said of the model.           *)
OnePlace == CurMatchesPc /\ QueuedOnce /\ PlacesDisjoint

(* The token map that `service cancel' consults holds the job being         *)
(* executed and no other, from registration to removal.                     *)
TokenOfRunningJob ==
  \A j \in Jobs :
    running[j] # None <=>
      /\ wpc \in {"execute", "unregister"}
      /\ JobOf[cur] = j /\ running[j] = cur

(* The journal has a record of request r, and it is r's own: it was not     *)
(* pruned, and no other request with the same id has written it since.  An  *)
(* id is the caller's (the CLI's has six digits, commands.rs:64-73) and a   *)
(* journal of 200 is shorter than a channel of 256, so neither is a matter  *)
(* of course.                                                               *)
Owns(r) == client[r] # "new" /\ r \notin jobs[JobOf[r]].lost

(* What a caller was told and what the journal says of its request agree    *)
(* for as long as the journal has a record of it, although cancellations    *)
(* edit the same record at any moment; a request dropped by a stopping      *)
(* worker is never recorded as finished.                                    *)
JournalState ==
  [ok |-> {"succeeded"}, error |-> {"failed"}, cancelled |-> {"cancelled"},
   timed_out |-> {"timed_out"}, cancelled_early |-> {"cancelled"},
   rejected |-> {"failed"}, full |-> {"failed"}, stopped |-> {"failed"},
   dropped |-> {"queued", "waiting", "cancelled"}]
AnswerAgreesWithJournal ==
  \A r \in ClientRequests \ CaptureRequests :
    Owns(r) /\ answer[r] # "none" => jobs[JobOf[r]].state \in JournalState[answer[r]]

(* A job cancelled while its request is still queued, or parked for its     *)
(* profile lease, is not executed as long as the journal keeps the record   *)
(* that says so: the check at the head of the worker's loop body catches    *)
(* every such cancellation.  Once the record is pruned, or written over by  *)
(* a request with the same id, the job runs although its caller was told    *)
(* that it was cancelled.                                                   *)
ParkedCancelHolds ==
  \A r \in JobRequests :
    Owns(r) /\ cancelAck[JobOf[r]] = "parked" => r \notin executed

(* A profile-lease wait that was announced is also announced as ended       *)
(* before the request is executed or answered, except when a stopping       *)
(* worker drops it.                                                         *)
WaitEventsPaired ==
  \A r \in LeaseRequests :
    waits[r] > 0 /\ (r \in executed \/ answer[r] \notin {"none", "dropped"})
      => waitEvent[r] = "ended"

(* Records of finished jobs are final: a job that succeeded, failed or      *)
(* timed out is never turned into anything else by the worker, a retry task *)
(* or a cancel call.  Its record ends with pruning or with the submission   *)
(* of another request under its id.                                         *)
SettledNeverRewritten ==
  [][\A r \in JobRequests :
       /\ Owns(r) /\ Owns(r)'
       /\ jobs[JobOf[r]].state \in {"succeeded", "failed", "timed_out"}
       => jobs'[JobOf[r]].state = jobs[JobOf[r]].state]_vars

(* The control plane implements the serial executor of JobService.          *)
Promise == INSTANCE JobService WITH
  accepted <- {r \in Requests : client[r] # "new"},
  started  <- executed,
  exec     <- IF wpc \in {"execute", "unregister", "finish", "respond",
                          "follow_up", "private_execute"} THEN cur ELSE None,
  told     <- {r \in Requests : answer[r] # "none"}
KeepsPromise == Promise!Spec

(* Every request that reached submit is answered in the end, through full   *)
(* queues, lease waits, cancellations and shutdown, provided its command is *)
(* subject to a job timeout.                                                *)
EveryCallerAnswered ==
  \A r \in ClientRequests : client[r] = "journalled" ~> answer[r] # "none"

(* README.md:2919: a job that `service cancel' reports cancelled is         *)
(* "cancelled before it dispatches".                                        *)
CancelledNeverDispatched ==
  \A r \in JobRequests : cancelAck[JobOf[r]] # "none" => r \notin executed

(* README.md:2919: "Running cancellation drops the active service future":  *)
(* once requested, the job does not stay in execution.                      *)
RequestedCancelEnds ==
  \A j \in Jobs : j \in requested ~> running[j] = None

-----------------------------------------------------------------------------
(* What a document says and the code does not keep: no run checks it; the   *)
(* README of this directory names the requests that refute it.              *)

(* README.md:31: once its caller is answered the job is no longer one of    *)
(* the nonterminal jobs that keep the service from being observed idle.     *)
AnsweredIsTerminal ==
  \A r \in ClientRequests :
    answer[r] \notin {"none", "dropped"} => jobs[JobOf[r]].state \in TerminalStates
=============================================================================
