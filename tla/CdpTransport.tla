---------------------------- MODULE CdpTransport ----------------------------
(***************************************************************************)
(* The WebSocket transport of a CDP client, cdp/client.rs: commands that   *)
(* register for their response and write to the shared sink, the reader    *)
(* task that hands out responses, the keep-alive task, raw messages of the *)
(* inspect proxy, and quiesce_private_transport, which closes the          *)
(* transport for good and returns evidence of it.                          *)
(*                                                                         *)
(* Futures are dropped and time out at every await.  The sink's mutex is   *)
(* read off the program counters: its guard goes with its future.  The     *)
(* browser answers in any order; the connection may break at any time.     *)
(* The gate's leases around these calls are in PrivacyGate.                *)
(***************************************************************************)
EXTENDS Integers, FiniteSets, Functions

CONSTANTS
  Commands,     \* calls of send_command_inner
  Raws,         \* calls of send_raw, through the client or an inspect handle
  Closers,      \* calls of quiesce_private_transport
  MaxCalls,     \* bound: calls of the three kinds that are made
  BindingOf,    \* epoch and identity digest of the permit a closer shows
  NoBinding

Senders == Commands \cup Raws

ASSUME TransportAssumption ==
  /\ Commands \cap Raws = {}
  /\ IsFiniteSet(Commands \cup Raws \cup Closers)
  /\ MaxCalls \in Nat
  /\ DOMAIN BindingOf = Closers
  /\ \A k \in Closers : BindingOf[k] # NoBinding

VARIABLES
  pc,         \* where each sender stands
  id,         \* the id of each command, 0 before it has one
  nextId,     \* next_id
  pending,    \* the pending map: from ids to the commands that wait
  mail,       \* the response in a command's oneshot channel, if any, named by
              \* the command it answers
  sink,       \* ws_tx holds the write half
  sealed,     \* transport_sealed
  sent,       \* commands and raw messages that have reached the browser
  inbox,      \* commands whose response is on its way back
  answered,   \* commands the browser has answered
  link,       \* the connection is up
  reader,     \* the reader task
  keepalive,  \* the keep-alive task
  stopping,   \* keep-alive has been told that the reader has ended
  aborted,    \* tasks abort() was called on
  handles,    \* tasks whose join handle `shutdown` still owns
  binding,    \* shutdown.binding
  joinFailed, \* shutdown.failed
  closer,     \* where each closer stands
  dropped     \* the client is gone; inspect handles are not

callVars  == <<pc, id, nextId, pending, mail>>
wireVars  == <<sent, inbox, answered, link>>
taskVars  == <<reader, keepalive, stopping, aborted>>
closeVars == <<handles, binding, joinFailed, closer>>
vars == <<pc, id, nextId, pending, mail, sink, sealed, sent, inbox, answered,
          link, reader, keepalive, stopping, aborted, handles, binding,
          joinFailed, closer, dropped>>

Tasks == {"reader", "keepalive"}
Ids == 1 .. Cardinality(Commands)
Ends == {"answered", "refused", "send_failed", "channel_closed", "timeout",
         "cancelled", "sent"}
Finished == {"ended", "aborted", "panicked"}

TypeOK ==
  /\ pc \in [Senders -> {"new", "lock", "writing", "waiting"} \cup Ends]
  /\ id \in [Commands -> Ids \cup {0}] /\ nextId \in Ids \cup {Cardinality(Commands) + 1}
  /\ DOMAIN pending \subseteq Ids /\ Range(pending) \subseteq Commands
  /\ mail \in [Commands -> SUBSET Commands]
  /\ sink \in BOOLEAN /\ sealed \in BOOLEAN
  /\ sent \subseteq Senders /\ inbox \subseteq Commands /\ answered \subseteq Commands
  /\ link \in BOOLEAN /\ dropped \in BOOLEAN /\ stopping \in BOOLEAN
  /\ reader \in {"running"} \cup Finished
  /\ keepalive \in {"asleep", "lock", "pinging"} \cup Finished
  /\ aborted \subseteq Tasks /\ handles \subseteq Tasks
  /\ binding \in Range(BindingOf) \cup {NoBinding} /\ joinFailed \in BOOLEAN
  /\ closer \in [Closers -> {"new", "sealing", "join_reader", "join_keepalive",
                             "closed", "mismatch", "join_failed", "timed_out"}]

Init ==
  /\ pc = [c \in Senders |-> "new"] /\ id = [c \in Commands |-> 0] /\ nextId = 1
  /\ pending = <<>> /\ mail = [c \in Commands |-> {}]
  /\ sink = TRUE /\ sealed = FALSE
  /\ sent = {} /\ inbox = {} /\ answered = {} /\ link = TRUE
  /\ reader = "running" /\ keepalive = "asleep" /\ stopping = FALSE /\ aborted = {}
  /\ handles = Tasks /\ binding = NoBinding /\ joinFailed = FALSE
  /\ closer = [k \in Closers |-> "new"] /\ dropped = FALSE

-----------------------------------------------------------------------------
(* Senders. *)

(* Nobody holds the guard of ws_tx. *)
SinkFree == keepalive # "pinging" /\ \A c \in Senders : pc[c] # "writing"

(* The bound: calls beyond it are never made. *)
CallLeft ==
  Cardinality({c \in Senders : pc[c] # "new"})
    + Cardinality({k \in Closers : closer[k] # "new"}) < MaxCalls

To(c, place) == pc' = [pc EXCEPT ![c] = place]

Without(i) == Restrict(pending, DOMAIN pending \ {i})

(* Mutant: ids are drawn from the size of the pending map. *)
DrawId_MapSize(c) ==
  /\ id' = [id EXCEPT ![c] = Cardinality(DOMAIN pending) + 1]
  /\ UNCHANGED nextId

(* next_id.fetch_add(1). *)
DrawId(c) ==
  /\ id' = [id EXCEPT ![c] = nextId]
  /\ nextId' = nextId + 1

Start(c) ==
  /\ pc[c] = "new" /\ CallLeft /\ (dropped => c \in Raws)
  /\ To(c, "lock")
  /\ IF c \in Commands THEN DrawId(c) ELSE UNCHANGED <<id, nextId>>
  /\ UNCHANGED <<pending, mail, sink, sealed, wireVars, taskVars, closeVars, dropped>>

(* What is checked with the sink's guard in hand. *)
Usable == ~sealed /\ sink

(* A command registers and begins to write while it holds the sink.         *)
Acquire(c) ==
  /\ pc[c] = "lock" /\ SinkFree
  /\ To(c, IF Usable THEN "writing" ELSE "refused")
  /\ pending' = IF Usable /\ c \in Commands
                THEN [i \in DOMAIN pending \cup {id[c]} |->
                        IF i = id[c] THEN c ELSE pending[i]]
                ELSE pending
  /\ UNCHANGED <<id, nextId, mail, sink, sealed, wireVars, taskVars, closeVars, dropped>>

(* The socket has taken the message; over a broken link it gets nowhere.    *)
Written(c) ==
  /\ pc[c] = "writing"
  /\ To(c, IF c \in Commands THEN "waiting" ELSE "sent")
  /\ sent' = IF link THEN sent \cup {c} ELSE sent
  /\ UNCHANGED <<id, nextId, pending, mail, sink, sealed, inbox, answered, link,
                 taskVars, closeVars, dropped>>

(* PendingCommandRegistration::drop, unless disarmed. *)
Deregister(c) == pending' = IF c \in Commands THEN Without(id[c]) ELSE pending

WriteFails(c) ==
  /\ pc[c] = "writing" /\ ~link
  /\ To(c, "send_failed") /\ Deregister(c)
  /\ UNCHANGED <<id, nextId, mail, sink, sealed, wireVars, taskVars, closeVars, dropped>>

(* The oneshot channel has the response: the registration is disarmed.      *)
Receive(c) ==
  /\ pc[c] = "waiting" /\ mail[c] # {}
  /\ To(c, "answered")
  /\ UNCHANGED <<id, nextId, pending, mail, sink, sealed, wireVars, taskVars, closeVars, dropped>>

(* The sender's half of the channel was dropped with the map's entry.       *)
ChannelClosed(c) ==
  /\ pc[c] = "waiting" /\ mail[c] = {} /\ id[c] \notin DOMAIN pending
  /\ To(c, "channel_closed") /\ Deregister(c)
  /\ UNCHANGED <<id, nextId, mail, sink, sealed, wireVars, taskVars, closeVars, dropped>>

(* Mutant: the wait for a response has no end of its own. *)
Deadline_Forgotten(c) == FALSE

(* The timeout covers the wait for the response and nothing before it.      *)
Deadline(c) == pc[c] = "waiting"

Timeout(c) ==
  /\ Deadline(c)
  /\ To(c, "timeout") /\ Deregister(c)
  /\ UNCHANGED <<id, nextId, mail, sink, sealed, wireVars, taskVars, closeVars, dropped>>

(* The caller drops the future at one of its awaits; what it was writing    *)
(* may have gone out.                                                       *)
Cancel(c) ==
  /\ pc[c] \in {"lock", "writing", "waiting"}
  /\ To(c, "cancelled")
  /\ IF pc[c] = "lock" THEN UNCHANGED pending ELSE Deregister(c)
  /\ \/ UNCHANGED sent
     \/ pc[c] = "writing" /\ link /\ sent' = sent \cup {c}
  /\ UNCHANGED <<id, nextId, mail, sink, sealed, inbox, answered, link, taskVars,
                 closeVars, dropped>>

-----------------------------------------------------------------------------
(* The browser and the connection (external). *)

BrowserAnswers(c) ==
  /\ link /\ c \in sent \ answered
  /\ answered' = answered \cup {c} /\ inbox' = inbox \cup {c}
  /\ UNCHANGED <<callVars, sink, sealed, sent, link, taskVars, closeVars, dropped>>

ConnectionLost ==
  /\ link /\ link' = FALSE
  /\ UNCHANGED <<callVars, sink, sealed, sent, inbox, answered, taskVars, closeVars, dropped>>

-----------------------------------------------------------------------------
(* The tasks. *)

(* A response whose command has gone is dropped.                            *)
ReaderDelivers(c) ==
  /\ reader = "running" /\ c \in inbox
  /\ inbox' = inbox \ {c}
  /\ IF id[c] \in DOMAIN pending
     THEN mail' = [mail EXCEPT ![pending[id[c]]] = {c}] /\ pending' = Without(id[c])
     ELSE UNCHANGED <<mail, pending>>
  /\ UNCHANGED <<pc, id, nextId, sink, sealed, sent, answered, link, taskVars, closeVars, dropped>>

ReaderEnds ==
  /\ reader = "running" /\ ~link
  /\ reader' = "ended" /\ pending' = <<>> /\ stopping' = TRUE
  /\ UNCHANGED <<pc, id, nextId, mail, sink, sealed, wireVars, keepalive, aborted, closeVars, dropped>>

KeepaliveWakes ==
  /\ keepalive = "asleep"
  /\ keepalive' \in (IF stopping THEN {"lock", "ended"} ELSE {"lock"})
  /\ UNCHANGED <<callVars, sink, sealed, wireVars, reader, stopping, aborted, closeVars, dropped>>

KeepaliveAcquires ==
  /\ keepalive = "lock" /\ SinkFree
  /\ keepalive' = IF Usable THEN "pinging" ELSE "ended"
  /\ UNCHANGED <<callVars, sink, sealed, wireVars, reader, stopping, aborted, closeVars, dropped>>

KeepalivePinged ==
  /\ keepalive = "pinging"
  /\ keepalive' \in (IF link THEN {"asleep"} ELSE {"asleep", "ended"})
  /\ UNCHANGED <<callVars, sink, sealed, wireVars, reader, stopping, aborted, closeVars, dropped>>

(* abort() takes effect at a task's next await; a task may also panic.      *)
TaskStops(how) ==
  /\ \/ /\ reader = "running" /\ (how = "aborted" => "reader" \in aborted)
        /\ reader' = how /\ UNCHANGED keepalive
     \/ /\ keepalive \notin Finished /\ (how = "aborted" => "keepalive" \in aborted)
        /\ keepalive' = how /\ UNCHANGED reader
  /\ stopping' = (stopping \/ reader' # "running")
  /\ UNCHANGED <<callVars, sink, sealed, wireVars, aborted, closeVars, dropped>>

-----------------------------------------------------------------------------
(* quiesce_private_transport. *)

(* Closers that hold the guard of `shutdown`. *)
Closing(k) == closer[k] \in {"sealing", "join_reader", "join_keepalive"}

CloserTo(k, place) == closer' = [closer EXCEPT ![k] = place]

Bindable(k) == binding \in {NoBinding, BindingOf[k]}

CloseBegin(k) ==
  /\ closer[k] = "new" /\ CallLeft /\ ~dropped /\ \A j \in Closers : ~Closing(j)
  /\ IF ~Bindable(k) \/ joinFailed
     THEN /\ CloserTo(k, IF Bindable(k) THEN "join_failed" ELSE "mismatch")
          /\ UNCHANGED <<binding, sealed>>
     ELSE CloserTo(k, "sealing") /\ binding' = BindingOf[k] /\ sealed' = TRUE
  /\ UNCHANGED <<callVars, sink, wireVars, taskVars, handles, joinFailed, dropped>>

CloseTakesSink(k) ==
  /\ closer[k] = "sealing" /\ SinkFree
  /\ CloserTo(k, "join_reader")
  /\ sink' = FALSE /\ aborted' = aborted \cup handles
  /\ UNCHANGED <<callVars, sealed, wireVars, reader, keepalive, stopping, handles,
                 binding, joinFailed, dropped>>

(* Mutant: an aborted task is taken for a finished one. *)
Joinable_AtAbort(t) == t \in aborted

(* The handle's await returns once the task has finished. *)
Joinable(t) == IF t = "reader" THEN reader \in Finished ELSE keepalive \in Finished
Panicked(t) == IF t = "reader" THEN reader = "panicked" ELSE keepalive = "panicked"

(* Reader first, then keep-alive; when both are joined the map is cleared.  *)
CloseJoins(k, t) ==
  /\ closer[k] = (IF t = "reader" THEN "join_reader" ELSE "join_keepalive")
  /\ t \in handles => Joinable(t)
  /\ handles' = handles \ {t}
  /\ LET bad == t \in handles /\ Panicked(t) IN
       /\ joinFailed' = (joinFailed \/ bad)
       /\ CloserTo(k, IF bad THEN "join_failed"
                      ELSE IF t = "reader" THEN "join_keepalive" ELSE "closed")
       /\ pending' = IF ~bad /\ t = "keepalive" THEN <<>> ELSE pending
  /\ UNCHANGED <<pc, id, nextId, mail, sink, sealed, wireVars, taskVars, binding, dropped>>

(* Three seconds have passed, or the caller drops the future: the seal, the *)
(* binding and the handles stay.                                            *)
CloseGivesUp(k) ==
  /\ Closing(k) \/ (closer[k] = "new" /\ CallLeft)
  /\ CloserTo(k, "timed_out")
  /\ UNCHANGED <<callVars, sink, sealed, wireVars, taskVars, handles, binding, joinFailed, dropped>>

(* CdpClient::drop: nothing borrows the client any more. *)
DropClient ==
  /\ ~dropped /\ dropped' = TRUE
  /\ \A c \in Commands : pc[c] \in {"new"} \cup Ends
  /\ \A k \in Closers : ~Closing(k)
  /\ aborted' = aborted \cup handles
  /\ UNCHANGED <<callVars, sink, sealed, wireVars, reader, keepalive, stopping, closeVars>>

-----------------------------------------------------------------------------
CallAdvances(c) ==
  \/ Start(c) \/ Acquire(c) \/ WriteFails(c)
  \/ c \in Commands /\ (Receive(c) \/ ChannelClosed(c) \/ Timeout(c))

CloserStep(k) ==
  \/ CloseBegin(k) \/ CloseTakesSink(k) \/ CloseGivesUp(k)
  \/ \E t \in Tasks : CloseJoins(k, t)

KeepaliveStep == KeepaliveWakes \/ KeepaliveAcquires

(* Nothing is left to do: every sender has ended or will never begin.       *)
Quiescent ==
  /\ \A c \in Senders : \/ pc[c] \in Ends
                        \/ pc[c] = "new" /\ (CallLeft => dropped /\ c \in Commands)
  /\ UNCHANGED vars

Next ==
  \/ \E c \in Senders : CallAdvances(c) \/ Written(c) \/ Cancel(c)
  \/ \E k \in Closers : CloserStep(k)
  \/ \E c \in Commands : BrowserAnswers(c) \/ ReaderDelivers(c)
  \/ ConnectionLost \/ ReaderEnds \/ KeepaliveStep \/ KeepalivePinged
  \/ \E how \in {"aborted", "panicked"} : TaskStops(how)
  \/ DropClient \/ Quiescent

Spec == Init /\ [][Next]_vars

(* The runtime polls what is ready, timers fire, and the mutex of the sink  *)
(* is handed out first come first served.  Nothing makes the socket take a  *)
(* message: the browser may have stopped reading.                           *)
FairSpec ==
  /\ Spec
  /\ \A c \in Senders : SF_vars(CallAdvances(c))
  /\ \A k \in Closers : WF_vars(CloserStep(k))

-----------------------------------------------------------------------------
(* Properties. *)

Closed == \E k \in Closers : closer[k] = "closed"

(* Evidence of closure is true and stays true: the comments of              *)
(* send_command_inner ("No pending entry can appear after shutdown has      *)
(* removed the sink and cleared the map") and of quiesce_private_transport, *)
(* through shutdowns that were interrupted and taken up again.              *)
ClosedIsQuiet ==
  Closed =>
    /\ ~sink /\ DOMAIN pending = {}
    /\ reader \in Finished /\ keepalive \in Finished
    /\ \A c \in Senders : pc[c] # "writing"

(* "The pending response registration is removed on response, timeout,      *)
(* transport failure, channel closure, or external future cancellation":    *)
(* whatever is in the map waits for it, under its own id.                   *)
NoLeakedRegistration ==
  \A i \in DOMAIN pending :
    id[pending[i]] = i /\ pc[pending[i]] \in {"writing", "waiting"}

(* A command is answered by the response to itself, however late the        *)
(* responses to commands that timed out or were dropped come in.            *)
OwnAnswer == \A c \in Commands : pc[c] = "answered" => mail[c] = {c}

(* Every piece of evidence is for the epoch and identity that began the     *)
(* shutdown.                                                                *)
OneBinding ==
  \A j, k \in Closers :
    closer[j] = "closed" /\ closer[k] = "closed" => BindingOf[j] = BindingOf[k]

(* What a closer was given is true, for the permit it showed.               *)
EvidenceTrue == TypeOK /\ ClosedIsQuiet /\ OneBinding

(* The pending map brings every response to its command and to no other.    *)
PendingMapSound == NoLeakedRegistration /\ OwnAnswer

(* A command that begins and never ends is one that never gets past the     *)
(* socket: from some moment on the sink is taken for good, and the command  *)
(* stands before or in its write.  Lock and write have no deadline          *)
(* (client.rs:635, 647); everything after them has one, whatever the        *)
(* browser, the tasks and a shutdown do to the registration, and no         *)
(* refusal, seal, failed write or dropped future leaves the sink taken.     *)
EveryCommandEnds ==
  \A c \in Commands :
    <>[](pc[c] \notin {"new"} \cup Ends) => <>[](pc[c] # "waiting" /\ ~SinkFree)
=============================================================================
